----------------------------- MODULE AudioDetect -----------------------------
(***************************************************************************)
(* XbhAudioDetectManager: one thread waits for the boot, opens the speaker *)
(* once codec and amplifier are initialised, and then looks every half     *)
(* second whether microphone, headphone and ARC are plugged.  Headphone    *)
(* and ARC are served at once, each without regard to the other; the       *)
(* microphone through the thread's own message queue, with a delay of one  *)
(* second after it was plugged in.                                         *)
(*                                                                         *)
(* Time is in half seconds.  A message carries the time it still has to    *)
(* wait, so that Now is always 0.                                          *)
(***************************************************************************)
EXTENDS Integers, Sequences, FiniteSets

CONSTANTS
    Circumstances,  \* the sets of conditions, of those below, that behaviours meet
    MaxChanges      \* bound: plugs moved and clock settings in a behaviour

(* "early": boot is completed before the thread has opened the speaker;    *)
(* "clock": somebody sets the wall clock, which is what messages wait for; *)
(* "freed": the memory of an erased list node is reused at once;           *)
(* "lineout": spk.lineout.sync; "fixed": the output is not                 *)
(* XBH_AUDIO_OUTPUT_DET.                                                   *)
ASSUME AudioAssumption ==
    /\ Circumstances \subseteq SUBSET {"early", "clock", "freed", "lineout", "fixed"}
    /\ MaxChanges \in Nat

Plugs == {"mic", "hp", "arc"}
Channels == {"mic", "speaker", "headphone"}
Chips == {"codec", "amp", "kernel"}

(* 1000 ms. *)
MicDelay == 2

VARIABLES
    conditions, changes,
    plugged,      \* the outside: what is plugged in
    initialised,  \* the chips that are initialised
    booted,       \* sys.boot_completed
    step,         \* place in the body
    noted,        \* mMicConnectStatus, mHpConnectStatus, mArcConnectStatus
    ampUnmute,
    muted,        \* the channels that are mute
    m_msgList, wait,
    sincePlug,    \* history: time since the microphone was seen to be plugged in, up to MicDelay
    shared        \* history: headphone and ARC have both been noted at some time

outside == <<conditions, plugged, initialised, booted>>
thread == <<noted, ampUnmute, muted>>
vars == <<outside, changes, step, thread, m_msgList, wait, sincePlug, shared>>

Queue == INSTANCE XbhMsgQueue

Now == 0

Messages == [args : {"plugin", "plugout"}, due : 0..2 * MicDelay]

AudioTypeOK ==
    /\ conditions \in Circumstances /\ changes \in 0..MaxChanges
    /\ plugged \subseteq Plugs /\ noted \subseteq Plugs
    /\ initialised \subseteq Chips /\ {booted, ampUnmute, wait, shared} \subseteq BOOLEAN
    /\ step \in {"boot", "completed", "mic", "hp", "hpin", "hpout", "arc", "get", "sleep", "dead"}
    /\ muted \subseteq Channels
    /\ m_msgList \in Seq(Messages) /\ Len(m_msgList) <= 1
    /\ sincePlug \in 0..MicDelay

(* Codec and amplifier come up mute; nobody has set the headphone yet. *)
Init ==
    /\ conditions \in Circumstances /\ changes = 0
    /\ plugged \in SUBSET Plugs /\ noted = {}
    /\ initialised = {} /\ booted = FALSE /\ ampUnmute = FALSE
    /\ step = "boot"
    /\ muted \in {Channels, Channels \ {"headphone"}}
    /\ Queue!InitQueue
    /\ sincePlug = 0 /\ shared = FALSE

-----------------------------------------------------------------------------
(* The outside.                                                            *)
Move(plug) ==
    /\ changes < MaxChanges
    /\ changes' = changes + 1
    /\ plugged' = IF plug \in plugged THEN plugged \ {plug} ELSE plugged \union {plug}
    /\ UNCHANGED <<conditions, initialised, booted, step, thread, m_msgList, wait, sincePlug, shared>>

Initialise(chip) ==
    /\ initialised' = initialised \union {chip}
    /\ UNCHANGED <<conditions, plugged, booted, changes, step, thread, m_msgList, wait, sincePlug, shared>>

CompleteBoot ==
    /\ "early" \in conditions \/ ampUnmute
    /\ booted' = TRUE
    /\ UNCHANGED <<conditions, plugged, initialised, changes, step, thread, m_msgList, wait, sincePlug,
                   shared>>

(* gettimeofday is the wall clock: set, it brings every message nearer or  *)
(* farther.                                                                *)
SetClock ==
    /\ "clock" \in conditions /\ changes < MaxChanges
    /\ changes' = changes + 1
    /\ m_msgList' \in {[k \in DOMAIN m_msgList |-> [m_msgList[k] EXCEPT !.due = due]] :
                           due \in {0, 2 * MicDelay}}
    /\ UNCHANGED <<outside, step, thread, wait, sincePlug, shared>>

-----------------------------------------------------------------------------
(* XbhAudioDetectManager::run, the boot.                                   *)

(* Once all chips are ready the headphone is closed and the speaker opened.*)
BootUnmute ==
    /\ step = "boot"
    /\ IF initialised = Chips /\ ~ampUnmute
       THEN muted' = (muted \union {"headphone"}) \ {"speaker"} /\ ampUnmute' = TRUE
       ELSE UNCHANGED <<muted, ampUnmute>>
    /\ step' = "completed"
    /\ UNCHANGED <<outside, changes, noted, m_msgList, wait, sincePlug, shared>>

(* Again in a second, unless boot is completed. *)
BootTest ==
    /\ step = "completed"
    /\ step' = IF booted THEN "mic" ELSE "boot"
    /\ UNCHANGED <<outside, changes, thread, m_msgList, wait, sincePlug, shared>>

-----------------------------------------------------------------------------
(* ... and the poll.                                                       *)
Edge(plug) == (plug \in plugged) # (plug \in noted)
Note(plug) == IF plug \in plugged THEN noted \union {plug} ELSE noted \ {plug}

(* A sleep of half a second or more: messages come nearer. *)
Sleep(list) ==
    \E t \in {1, MicDelay} :
        /\ m_msgList' = [k \in DOMAIN list |-> [list[k] EXCEPT !.due = IF @ > t THEN @ - t ELSE 0]]
        /\ sincePlug' = IF sincePlug + t < MicDelay THEN sincePlug + t ELSE MicDelay

(* processMicDet: what is still to be done for the microphone is cancelled *)
(* and done anew.  removeMsg goes on from the node it has just erased.     *)
MicDet ==
    LET in == "mic" \in plugged
        kept == Queue!removeMsg(Queue!removeMsg(m_msgList, "plugout"), "plugin")
    IN  /\ step = "mic"
        /\ IF Edge("mic")
           THEN /\ noted' = Note("mic")
                /\ m_msgList' = IF in THEN Queue!Posted(kept, "plugin", MicDelay, Now)
                                ELSE Queue!Posted(kept, "plugout", 0, Now)
                /\ wait' = FALSE
                /\ sincePlug' = IF in THEN 0 ELSE sincePlug
                /\ step' = IF "freed" \in conditions /\ kept # m_msgList THEN "dead" ELSE "hp"
           ELSE step' = "hp" /\ UNCHANGED <<noted, m_msgList, wait, sincePlug>>
        /\ UNCHANGED <<outside, changes, ampUnmute, muted, shared>>

Detected == "fixed" \notin conditions

(* Faulty: opens the headphone before the speaker is closed. *)
HpDetOpening ==
    /\ step = "hp"
    /\ noted' = Note("hp")
    /\ shared' = (shared \/ {"hp", "arc"} \subseteq noted')
    /\ muted' = IF ~Edge("hp") \/ ~Detected THEN muted
                ELSE IF "hp" \in plugged THEN muted \ {"headphone"}
                ELSE muted \union {"headphone"}
    /\ step' = IF ~Edge("hp") \/ ~Detected THEN "arc" ELSE IF "hp" \in plugged THEN "hpin" ELSE "hpout"
    /\ UNCHANGED <<outside, changes, ampUnmute, m_msgList, wait, sincePlug>>

(* processHpDet: close one output, wait half a second ... *)
HpDet ==
    /\ step = "hp"
    /\ noted' = Note("hp")
    /\ shared' = (shared \/ {"hp", "arc"} \subseteq noted')
    /\ IF Edge("hp") /\ Detected
       THEN IF "hp" \in plugged
            THEN /\ muted' = muted \union (IF "lineout" \in conditions THEN {} ELSE {"speaker"})
                 /\ step' = "hpin"
            ELSE /\ muted' = muted \union {"headphone"}
                 /\ step' = "hpout"
       ELSE step' = "arc" /\ UNCHANGED muted
    /\ UNCHANGED <<outside, changes, ampUnmute, m_msgList, wait, sincePlug>>

(* ... and open the other. *)
HpOpen ==
    /\ \/ step = "hpin" /\ muted' = muted \ {"headphone"}
       \/ step = "hpout" /\ muted' = muted \ {"speaker"}
    /\ Sleep(m_msgList)
    /\ step' = "arc"
    /\ UNCHANGED <<outside, changes, noted, ampUnmute, wait, shared>>

(* Faulty: takes the unplugged ARC for granted. *)
ArcDetIn ==
    /\ step = "arc"
    /\ noted' = Note("arc")
    /\ shared' = (shared \/ {"hp", "arc"} \subseteq noted')
    /\ muted' = IF Edge("arc") /\ "arc" \in plugged THEN muted \union {"speaker"} ELSE muted
    /\ step' = "get"
    /\ UNCHANGED <<outside, changes, ampUnmute, m_msgList, wait, sincePlug>>

(* processArcDet. *)
ArcDet ==
    /\ step = "arc"
    /\ noted' = Note("arc")
    /\ shared' = (shared \/ {"hp", "arc"} \subseteq noted')
    /\ muted' = IF ~Edge("arc") THEN muted
                ELSE IF "arc" \in plugged THEN muted \union {"speaker"} ELSE muted \ {"speaker"}
    /\ step' = "get"
    /\ UNCHANGED <<outside, changes, ampUnmute, m_msgList, wait, sincePlug>>

(* One message that is due, if any; only now is the microphone moved.      *)
GetMsg ==
    /\ step = "get"
    /\ \/ \E args \in {"plugin", "plugout"} :
             /\ Queue!getMsg(args, Now)
             /\ muted' = IF args = "plugin" THEN muted \ {"mic"} ELSE muted \union {"mic"}
       \/ Queue!getMsgNone(Now) /\ UNCHANGED muted
    /\ step' = "sleep"
    /\ UNCHANGED <<outside, changes, noted, ampUnmute, sincePlug, shared>>

Rest ==
    /\ step = "sleep"
    /\ Sleep(m_msgList)
    /\ step' = "mic"
    /\ UNCHANGED <<outside, changes, thread, wait, shared>>

Poll ==
    \/ BootUnmute \/ BootTest
    \/ MicDet \/ HpDet \/ HpOpen \/ ArcDet \/ GetMsg \/ Rest

Next ==
    \/ \E plug \in Plugs : Move(plug)
    \/ \E chip \in Chips : Initialise(chip)
    \/ CompleteBoot \/ SetClock
    \/ Poll

(* The thread runs, the chips come up and the boot ends; plugs are free. *)
Spec ==
    /\ Init /\ [][Next]_vars
    /\ WF_vars(Poll) /\ WF_vars(CompleteBoot)
    /\ \A chip \in Chips : WF_vars(Initialise(chip))

-----------------------------------------------------------------------------
(* However fast the microphone is plugged and unplugged, and whatever the  *)
(* clock does, it ends open if it is plugged in and closed if it is not:   *)
(* no message of an earlier state of the plug comes last.                  *)
MicFollows ==
    "freed" \notin conditions => <>[](("mic" \in muted) = ("mic" \notin plugged))

(* The microphone is opened only while it is known to be plugged in, and a *)
(* second after it was (XbhAudioDetectManager.cpp:33), unless the clock    *)
(* was set.                                                                *)
MicNotEarly ==
    [][ /\ "mic" \in muted /\ "mic" \notin muted'
        /\ "clock" \notin conditions
        => "mic" \in noted /\ sincePlug = MicDelay ]_vars

(* What closes the speaker of this product. *)
Silencers == {"arc"} \union (IF conditions \intersect {"lineout", "fixed"} = {} THEN {"hp"} ELSE {})

(* The speaker ends closed with a headphone or ARC plugged in, and open    *)
(* without, provided that the two were never noted together, as an         *)
(* exchange of one for the other within a poll also does, and that the     *)
(* speaker was opened before the end of the boot.                          *)
SpeakerFollows ==
    "early" \notin conditions /\ "freed" \notin conditions =>
        <>[](shared \/ ("speaker" \in muted) = (plugged \intersect Silencers # {}))

(* Speaker and headphone are never open at once where the headphone closes *)
(* the speaker, not even while the thread changes from one to the other;   *)
(* ARC excepted, as above, and a boot that left the headphone as it was.   *)
OneOutput ==
    conditions \intersect {"lineout", "fixed", "early"} = {} /\ ~shared =>
        "speaker" \in muted \/ "headphone" \in muted
=============================================================================
