---------------------------- MODULE SourceSwitch ----------------------------
(***************************************************************************)
(* Switching the input source: XbhSourceManager (selectSource and its two  *)
(* halves setSourceSwitchPort and setSourceUsbPort), the thread of         *)
(* XbhFollowManager, which moves USB and GPIOs to the source, and the      *)
(* thread of XbhHdmiSwitchManager, which moves the HDMI switch there.      *)
(*                                                                         *)
(* Requests come through XbhServiceImpl::invoke, one at a time; they hand  *)
(* the source to the two threads through an XbhMsgQueue each and return    *)
(* before the hardware has moved.                                          *)
(***************************************************************************)
EXTENDS Naturals, Sequences

CONSTANTS
    Android,      \* XBH_SOURCE_ANDROID
    Inputs,       \* the other sources
    SwitchPorts,  \* the sources behind the HDMI switch
    Unset,        \* no source yet
    Junk,         \* a value that is no source
    Circumstances,  \* the sets of conditions, of those below, that behaviours meet
    MaxRequests   \* bound: requests in a behaviour

Sources == Inputs \union {Android}

(* "overlap": a request comes before the threads are done with the last;   *)
(* "boot": one comes before XbhHdmiSwitchTask has created the chip object; *)
(* "stack": the bytes of changeToSrc that getMsg leaves alone are not zero.*)
ASSUME SourceAssumption ==
    /\ SwitchPorts \subseteq Inputs /\ Android \notin Inputs
    /\ Unset \notin Sources /\ Junk \notin Sources
    /\ Circumstances \subseteq SUBSET {"overlap", "boot", "stack"}
    /\ MaxRequests \in Nat

VARIABLES
    conditions,    \* what this behaviour may meet; it never changes
    request,       \* the request in progress: [op, src, pc]
    requests,      \* requests made so far
    mCurrentSrc,   \* of XbhSourceManager
    followList, followWait, hdmiList, hdmiWait,  \* the two queues and their consumers
    mChangeToSrc,  \* of XbhFollowManager, a member: requests and thread write it
    followed,      \* mCurrentSrc of XbhFollowManager
    follow,        \* place in its body
    usbRoute,      \* where USB and GPIOs are
    armed,         \* the source XbhSourceManager::setFollowPort was told last
    changeToSrc,   \* local of XbhHdmiSwitchManager::run
    hdmi,          \* place in that body
    rx5vDet,       \* the 5V DET flag of the HDMI receiver
    chipReady,     \* the chip object exists
    activePort,    \* where the HDMI switch is
    lastFollow, lastPort  \* history: what the last message to each thread asks for

sourceVars == <<request, requests, mCurrentSrc>>
followVars == <<mChangeToSrc, followed, follow, usbRoute, armed>>
hdmiVars == <<changeToSrc, hdmi, rx5vDet, chipReady, activePort>>
queues == <<followList, followWait, hdmiList, hdmiWait>>
history == <<lastFollow, lastPort>>
vars == <<conditions, sourceVars, followVars, hdmiVars, queues, history>>

FollowQueue == INSTANCE XbhMsgQueue WITH m_msgList <- followList, wait <- followWait
HdmiQueue == INSTANCE XbhMsgQueue WITH m_msgList <- hdmiList, wait <- hdmiWait

(* Nothing here asks for a delay. *)
Now == 0
Message(src) == [args |-> src, due |-> Now]

NoRequest == [op |-> "none", src |-> Android, pc |-> "idle"]

SourceTypeOK ==
    /\ conditions \in Circumstances
    /\ request \in [op : {"none", "select", "switch", "usb"}, src : Sources,
                    pc : {"idle", "source", "note", "follow", "hdmi"}]
    /\ requests \in 0..MaxRequests
    /\ mCurrentSrc \in Sources
    /\ {followList, hdmiList} \subseteq Seq({Message(s) : s \in Sources})
    /\ {followWait, hdmiWait, rx5vDet, chipReady} \subseteq BOOLEAN
    /\ {mChangeToSrc, usbRoute, lastFollow, lastPort} \subseteq Sources \union {Unset}
    /\ {followed, armed} \subseteq Sources
    /\ follow \in {"init", "get", "compare", "adopt", "route", "arm"}
    /\ changeToSrc \in Sources \union {Unset, Junk}
    /\ hdmi \in {"get", "raise", "switch", "lock"}
    /\ activePort \in SwitchPorts \union {Unset}

(* Both threads run from the constructors on.  The switch starts at the    *)
(* default port of the board, called Unset: no message has asked for it.   *)
Init ==
    /\ conditions \in Circumstances
    /\ request = NoRequest /\ requests = 0
    /\ mCurrentSrc = Android
    /\ FollowQueue!InitQueue /\ HdmiQueue!InitQueue
    /\ mChangeToSrc = Unset /\ followed = Android /\ follow = "init"
    /\ usbRoute = Unset /\ armed = Android
    /\ changeToSrc = Unset /\ hdmi = "get"
    /\ rx5vDet \in BOOLEAN
    /\ chipReady \in (IF "boot" \in conditions THEN BOOLEAN ELSE {TRUE})
    /\ activePort = Unset
    /\ lastFollow = Unset /\ lastPort = Unset

-----------------------------------------------------------------------------
(* The requests.                                                           *)

Quiet ==
    /\ request = NoRequest
    /\ FollowQueue!Drained /\ HdmiQueue!Drained
    /\ follow = "get" /\ hdmi = "get"

Ask(op, src, pc) ==
    /\ request = NoRequest
    /\ requests < MaxRequests
    /\ "overlap" \notin conditions => Quiet
    /\ requests' = requests + 1
    /\ request' = [op |-> op, src |-> src, pc |-> pc]
    /\ UNCHANGED <<conditions, mCurrentSrc, followVars, changeToSrc, hdmi, chipReady, activePort,
                   queues, history>>

(* selectSource and setSourceSwitchPort to Android: whatever the source is. *)
AskAndroid(op) ==
    /\ op \in {"select", "switch"}
    /\ Ask(op, Android, "source")
    /\ UNCHANGED rx5vDet

(* ... and to another source, unless it is the current one: 5V DET off.    *)
AskInput(op, src) ==
    /\ op \in {"select", "switch"}
    /\ src # mCurrentSrc
    /\ Ask(op, src, "source")
    /\ rx5vDet' = FALSE

AskUsb(src) == Ask("usb", src, "note") /\ UNCHANGED rx5vDet

(* mCurrentSrc; setSourceSwitchPort leaves USB alone, but not for Android. *)
SetCurrent ==
    /\ request.pc = "source"
    /\ mCurrentSrc' = request.src
    /\ request' = [request EXCEPT !.pc =
                      IF request.op = "select" \/ request.src = Android THEN "note" ELSE "hdmi"]
    /\ UNCHANGED <<conditions, requests, followVars, hdmiVars, queues, history>>

(* XbhFollowManager::setFollowPort: the member, then the message. *)
SetFollowPort ==
    /\ request.pc = "note"
    /\ mChangeToSrc' = request.src
    /\ request' = [request EXCEPT !.pc = "follow"]
    /\ UNCHANGED <<conditions, requests, mCurrentSrc, followed, follow, usbRoute, armed, hdmiVars, queues,
                   history>>

PostFollow ==
    /\ request.pc = "follow"
    /\ FollowQueue!postMsg(request.src, 0, Now)
    /\ lastFollow' = request.src
    /\ request' = IF request.op = "usb" THEN NoRequest ELSE [request EXCEPT !.pc = "hdmi"]
    /\ UNCHANGED <<conditions, requests, mCurrentSrc, followVars, hdmiVars, hdmiList, hdmiWait, lastPort>>

(* XbhHdmiSwitchManager::setActivePort, the end of the request. *)
PostHdmi ==
    /\ request.pc = "hdmi"
    /\ HdmiQueue!postMsg(request.src, 0, Now)
    /\ lastPort' = IF request.src \in SwitchPorts THEN request.src ELSE lastPort
    /\ request' = NoRequest
    /\ UNCHANGED <<conditions, requests, mCurrentSrc, followVars, hdmiVars, followList, followWait,
                   lastFollow>>

RequestStep == SetCurrent \/ SetFollowPort \/ PostFollow \/ PostHdmi

-----------------------------------------------------------------------------
(* XbhFollowManager::run.  It reads the member at each use.                *)
FollowOnly ==
    UNCHANGED <<conditions, sourceVars, hdmiVars, hdmiList, hdmiWait, history>>

FollowInit ==
    /\ follow = "init"
    /\ usbRoute' = Android
    /\ follow' = "get"
    /\ UNCHANGED <<mChangeToSrc, followed, armed, followList, followWait>>
    /\ FollowOnly

FollowGet ==
    /\ follow = "get" /\ ~followWait
    /\ \/ /\ \E src \in Sources : FollowQueue!getMsg(src, Now) /\ mChangeToSrc' = src
          /\ follow' = "compare"
       \/ /\ FollowQueue!getMsgEmpty
          /\ UNCHANGED <<mChangeToSrc, follow>>
    /\ UNCHANGED <<followed, usbRoute, armed>>
    /\ FollowOnly

FollowCompare ==
    /\ follow = "compare"
    /\ follow' = IF followed # mChangeToSrc THEN "adopt" ELSE "get"
    /\ UNCHANGED <<mChangeToSrc, followed, usbRoute, armed, followList, followWait>>
    /\ FollowOnly

FollowAdopt ==
    /\ follow = "adopt"
    /\ followed' = mChangeToSrc
    /\ follow' = "route"
    /\ UNCHANGED <<mChangeToSrc, usbRoute, armed, followList, followWait>>
    /\ FollowOnly

(* switch(mChangeToSrc): followToAndroid, followToHdmi1, ... *)
FollowRoute ==
    /\ follow = "route"
    /\ usbRoute' = mChangeToSrc
    /\ follow' = "arm"
    /\ UNCHANGED <<mChangeToSrc, followed, armed, followList, followWait>>
    /\ FollowOnly

(* Faulty: passes on the member that the next request overwrites. *)
FollowArmMember ==
    /\ follow = "arm"
    /\ armed' = mChangeToSrc
    /\ follow' = "get"
    /\ UNCHANGED <<mChangeToSrc, followed, usbRoute, followList, followWait>>
    /\ FollowOnly

(* Tells XbhSourceManager, which starts the delay of the UAC sound card. *)
FollowArm ==
    /\ follow = "arm"
    /\ armed' = followed
    /\ follow' = "get"
    /\ UNCHANGED <<mChangeToSrc, followed, usbRoute, followList, followWait>>
    /\ FollowOnly

FollowStep ==
    FollowInit \/ FollowGet \/ FollowCompare \/ FollowAdopt \/ FollowRoute \/ FollowArm

-----------------------------------------------------------------------------
(* XbhHdmiSwitchManager::run.                                              *)
HdmiOnly == UNCHANGED <<conditions, sourceVars, followVars, followList, followWait, history>>

(* postMsg was given a size of 1: getMsg fills one byte of changeToSrc. *)
Filled(src) == {src} \union (IF "stack" \in conditions THEN {Junk} ELSE {})

HdmiGet ==
    /\ hdmi = "get" /\ ~hdmiWait
    /\ \/ /\ \E src \in Sources : HdmiQueue!getMsg(src, Now) /\ changeToSrc' \in Filled(src)
          /\ hdmi' = "raise"
       \/ /\ HdmiQueue!getMsgEmpty
          /\ UNCHANGED <<changeToSrc, hdmi>>
    /\ UNCHANGED <<rx5vDet, chipReady, activePort>>
    /\ HdmiOnly

(* Faulty: leaves 5V DET to the end. *)
HdmiRaiseLate ==
    /\ hdmi = "raise"
    /\ hdmi' = "switch"
    /\ UNCHANGED <<changeToSrc, rx5vDet, chipReady, activePort, hdmiList, hdmiWait>>
    /\ HdmiOnly

HdmiRaise ==
    /\ hdmi = "raise"
    /\ rx5vDet' = TRUE
    /\ hdmi' = "switch"
    /\ UNCHANGED <<changeToSrc, chipReady, activePort, hdmiList, hdmiWait>>
    /\ HdmiOnly

(* XbhHdmiSwitchTask::setActivePort: a source of the port table whose chip *)
(* object exists, else nothing.                                            *)
HdmiSwitch ==
    /\ hdmi = "switch"
    /\ activePort' = IF chipReady /\ changeToSrc \in SwitchPorts THEN changeToSrc ELSE activePort
    /\ hdmi' = "lock"
    /\ UNCHANGED <<changeToSrc, rx5vDet, chipReady, hdmiList, hdmiWait>>
    /\ HdmiOnly

(* A source that is plugged in and not locked is kicked once more. *)
HdmiLock ==
    /\ hdmi = "lock"
    /\ rx5vDet' \in {rx5vDet, TRUE}
    /\ hdmi' = "get"
    /\ changeToSrc' = Unset
    /\ UNCHANGED <<chipReady, activePort, hdmiList, hdmiWait>>
    /\ HdmiOnly

HdmiStep == HdmiGet \/ HdmiRaise \/ HdmiSwitch \/ HdmiLock

(* XbhHdmiSwitchTask::run creates the chip object, which goes to its       *)
(* default port.                                                           *)
CreateChip ==
    /\ ~chipReady
    /\ chipReady' = TRUE
    /\ activePort' = Unset
    /\ UNCHANGED <<changeToSrc, hdmi, rx5vDet, hdmiList, hdmiWait>>
    /\ HdmiOnly

-----------------------------------------------------------------------------
Next ==
    \/ \E op \in {"select", "switch"} :
          AskAndroid(op) \/ \E src \in Inputs : AskInput(op, src)
    \/ \E src \in Sources : AskUsb(src)
    \/ RequestStep \/ FollowStep \/ HdmiStep \/ CreateChip

(* The three threads run; nobody has to ask for a source. *)
Spec ==
    /\ Init /\ [][Next]_vars
    /\ WF_vars(RequestStep) /\ WF_vars(FollowStep) /\ WF_vars(HdmiStep) /\ WF_vars(CreateChip)

-----------------------------------------------------------------------------
(* Every request is carried out: the queues drain and both threads come    *)
(* to rest, whatever the order of posts and suspensions.                   *)
Settles == <>[]Quiet

(* What the follow manager takes for the current source is, at rest, what  *)
(* the last request asked for, and the source manager knows it.            *)
FollowDecided ==
    Quiet => armed = followed /\ followed = (IF lastFollow = Unset THEN Android ELSE lastFollow)

(* At rest, USB and GPIOs are where the follow manager believes them to be *)
(* (XbhFollowManager.h:15): a request for that source will find nothing    *)
(* left to do.                                                             *)
RouteIsFollowed == Quiet => usbRoute = followed

(* So it is if no request overtakes the threads.                           *)
RouteIsFollowedUnhurried == "overlap" \notin conditions => RouteIsFollowed

(* The follow thread ends at the last request, by its own reckoning and,   *)
(* unhurried, with USB (XbhFollowManager.cpp:51-55).                       *)
LastIsFollowed == FollowDecided /\ RouteIsFollowedUnhurried

(* At rest, the HDMI switch is on the port of the source asked for last    *)
(* (XbhHdmiSwitchTask.h:15).                                               *)
PortIsSelected == Quiet => activePort = lastPort

(* So it is once the chip objects exist and with zero on the stack.        *)
PortIsSelectedOnceUp == conditions \subseteq {"overlap"} => PortIsSelected

(* A selection takes 5V DET down before the switch moves; at rest it is up *)
(* again, or the selected source would stay without a picture.             *)
Rx5vRestored == Quiet /\ mCurrentSrc # Android => rx5vDet

(* The switch is moved with 5V DET up (XbhHdmiSwitchManager.cpp:219) ...   *)
SwitchedWithDet == hdmi = "switch" => rx5vDet

(* ... if no request overtakes the threads.                                *)
SwitchedWithDetUnhurried == "overlap" \notin conditions => SwitchedWithDet

(* 5V DET is up when it is needed: for the switch and for the picture.     *)
Rx5vIsUp == Rx5vRestored /\ SwitchedWithDetUnhurried
=============================================================================
