----------------------------- MODULE ChipUpgrade -----------------------------
(***************************************************************************)
(* Firmware upgrade of the other chips that bring their own thread.  As in *)
(* the MCU drivers upgradeFirmware notes the file and calls run(ONCE), and *)
(* the body programs the chip; here there is no "upgrade needed" flag.     *)
(* The one caller is XbhServiceImpl::invoke, which lets one client in at a *)
(* time.  The chips fall into three groups:                                *)
(*   Rts5450M, Cs5803aq, Csv5363, Ite6563   the body sets RUNNING, which   *)
(*             refuses the next request                                    *)
(*   Ap8224, Ap8232, Hl817                  upgradeFirmware sets it        *)
(*   Gsv2712   refuses nothing; holds mLock, and so does the body at its   *)
(*             end to read the version back                                *)
(* The body reads the version in the Ap8232 too, at its end, and in the    *)
(* Cs5803aq before it programs; each lets itself past the test of RUNNING  *)
(* by a flag, and so lets clients past it.  The buffer of the Gsv2712 is   *)
(* left out, as all memory is.                                             *)
(***************************************************************************)
EXTENDS XbhMWThread

CONSTANTS
    Chips,       \* the chips considered
    Paces,       \* "any": clients ask when they like; "rested": not while a body runs
    MaxRequests  \* bound: upgrade requests in a behaviour, numbered; each is for its own file

LateRunning == {"Rts5450M", "Cs5803aq", "Csv5363", "Ite6563"}
EarlyRunning == {"Ap8224", "Ap8232", "Hl817"}

ASSUME ChipAssumption ==
    /\ Chips \subseteq LateRunning \cup EarlyRunning \cup {"Gsv2712"}
    /\ \E app \in Runners : Runners = {app}
    /\ Paces \subseteq {"any", "rested"}
    /\ MaxRequests \in Nat

VARIABLES
    chip, pace,      \* chosen once
    mState,          \* as getUpgradeState shows it (upgradeState of the Gsv2712)
    mFileName,       \* the file to program, 0 for a name that is no request's
    mUpdateStart,    \* of the Cs5803aq: the version may be read although RUNNING
    client,          \* where the call stands that invoke() has let in
    body,            \* place in the body
    requests,        \* requests made so far
    accepted,        \* history: the last request upgradeFirmware took on
    tried,           \* history: the last request whose file a body went for
    opened,          \* history: that file could be opened
    crossed          \* history: the call was let in while RUNNING was not set, or
                     \* not heeded, for the body that is now under way

chipVars == <<chip, pace, mState, mFileName, mUpdateStart, client, body, requests, accepted, tried,
              opened, crossed>>
allVars == <<vars, chipVars>>

Files == 0..MaxRequests
States == {"IDLE", "RUNNING", "SUCCESS", "FAILURE"}

ChipTypeOK ==
    /\ TypeOK
    /\ chip \in Chips /\ pace \in Paces
    /\ mState \in States
    /\ {mFileName, requests, accepted, tried} \subseteq Files
    /\ {mUpdateStart, opened, crossed} \subseteq BOOLEAN
    /\ client \in {"idle", "note", "start", "run", "tested", "read"}
    /\ body \in {"start", "open", "flash", "version", "end"}

(* The Gsv2712 and the Hl817 do not set their state before the first       *)
(* request.                                                                *)
ChipInit ==
    /\ Init
    /\ chip \in Chips /\ pace \in Paces
    /\ mState \in IF chip \in {"Gsv2712", "Hl817"} THEN States ELSE {"IDLE"}
    /\ mFileName = 0 /\ mUpdateStart = FALSE
    /\ client = "idle" /\ body = "start"
    /\ requests = 0
    /\ accepted = 0 /\ tried = 0
    /\ opened = TRUE /\ crossed = FALSE

-----------------------------------------------------------------------------
(* The client. *)
Resting == \A i \in Ids : loops[i] \in {"none", "cond", "exited"}

(* if (mState == RUNNING), the end of a request that is refused. *)
Refuses == chip # "Gsv2712" /\ mState = "RUNNING"

(* Faulty: the request does not set RUNNING. *)
AskLate ==
    /\ client = "idle"
    /\ requests < MaxRequests
    /\ pace = "rested" => Resting
    /\ requests' = requests + 1
    /\ client' = IF Refuses THEN "idle" ELSE "note"
    /\ UNCHANGED <<vars, chip, pace, mState, mFileName, mUpdateStart, body, accepted, tried, opened, crossed>>

(* The state is tested, and set by those that set it early. *)
Ask ==
    /\ client = "idle"
    /\ requests < MaxRequests
    /\ pace = "rested" => Resting
    /\ requests' = requests + 1
    /\ client' = IF Refuses THEN "idle" ELSE "note"
    /\ mState' = IF chip \in EarlyRunning THEN "RUNNING" ELSE mState
    /\ UNCHANGED <<vars, chip, pace, mFileName, mUpdateStart, body, accepted, tried, opened, crossed>>

(* A name that does not fit: the old one has been cleared or overwritten,  *)
(* and the Ap8224 and the Ap8232 leave RUNNING behind.  The Gsv2712 does   *)
(* not look at the length.                                                 *)
RejectName ==
    /\ client = "note"
    /\ chip # "Gsv2712"
    /\ mFileName' = 0
    /\ mState' = IF chip = "Hl817" THEN "FAILURE" ELSE mState
    /\ client' = "idle" /\ crossed' = FALSE
    /\ UNCHANGED <<vars, chip, pace, mUpdateStart, body, requests, accepted, tried, opened>>

(* Only the place of the call and its history change. *)
ClientOnly == UNCHANGED <<vars, chip, pace, mState, body, requests, tried, opened>>

(* Faulty: keeps the name it had. *)
NoteOldName ==
    /\ client = "note"
    /\ accepted' = requests
    /\ client' = "start"
    /\ UNCHANGED <<mFileName, mUpdateStart, crossed>>
    /\ ClientOnly

Note ==
    /\ client = "note"
    /\ accepted' = requests
    /\ mFileName' = requests
    /\ client' = "start"
    /\ UNCHANGED <<mUpdateStart, crossed>>
    /\ ClientOnly

StartBody ==
    /\ client = "start"
    /\ \E c \in Runners : Run(c, {"ONCE"})
    /\ client' = "run"
    /\ UNCHANGED <<chip, pace, mState, mFileName, mUpdateStart, body, requests, accepted, tried, opened, crossed>>

UpgradeReturn ==
    /\ client = "run"
    /\ \A c \in Runners : stage[c] = "idle"
    /\ client' = "idle" /\ crossed' = FALSE
    /\ UNCHANGED <<mFileName, mUpdateStart, accepted>>
    /\ ClientOnly

InBody(pc) == (\E i \in Ids : loops[i] = "body") /\ body = pc

(* What getFirmwareVersion tests: nothing in the Hl817, nothing but mLock  *)
(* in the Gsv2712; elsewhere RUNNING, and the flag by which the body lets  *)
(* itself past that (mUpdateEnd in the Ap8232, up in its "version").       *)
MayRead ==
    \/ chip \in {"Hl817", "Gsv2712"}
    \/ mState # "RUNNING"
    \/ chip = "Cs5803aq" /\ mUpdateStart
    \/ chip = "Ap8232" /\ InBody("version")

(* getFirmwareVersion, which reads over I2C or USB from here on. *)
ReadVersion ==
    /\ client = "idle"
    /\ MayRead
    /\ client' = IF chip = "Cs5803aq" THEN "tested" ELSE "read"
    /\ crossed' = (chip = "Cs5803aq" /\ mUpdateStart)
    /\ UNCHANGED <<mFileName, mUpdateStart, accepted>>
    /\ ClientOnly

(* The Cs5803aq takes the flag down next, whoever has put it up. *)
ClearStart ==
    /\ client = "tested"
    /\ client' = "read"
    /\ mUpdateStart' = FALSE
    /\ UNCHANGED <<mFileName, accepted, crossed>>
    /\ ClientOnly

VersionReturn ==
    /\ client = "read"
    /\ client' = "idle" /\ crossed' = FALSE
    /\ UNCHANGED <<mFileName, mUpdateStart, accepted>>
    /\ ClientOnly

(* mLock of the Gsv2712. *)
LockHeld == chip = "Gsv2712" /\ client # "idle"

-----------------------------------------------------------------------------
(* The body, run(arg). *)
BodyOnly == UNCHANGED <<vars, chip, pace, mFileName, client, requests, accepted>>

(* RUNNING is set for calls to come; one that is under way has been let in *)
(* before.                                                                 *)
BodyStart ==
    /\ InBody("start")
    /\ mState' = IF chip \in EarlyRunning THEN mState ELSE "RUNNING"
    /\ body' = IF chip \in {"Ap8224", "Ap8232"} /\ mState # "RUNNING" THEN "end" ELSE "open"
    /\ crossed' = (client # "idle")
    /\ UNCHANGED <<mUpdateStart, tried, opened>>
    /\ BodyOnly

(* Where the body goes with the file in hand; the Cs5803aq reads the       *)
(* version first, and puts up the flag that lets it.                       *)
WithFile ==
    /\ mFileName # 0
    /\ opened' = TRUE
    /\ body' = IF chip = "Cs5803aq" THEN "version" ELSE "flash"
    /\ mUpdateStart' = (chip = "Cs5803aq")

(* Faulty: a file that does not open leaves RUNNING, on every chip. *)
BodyOpenSilent ==
    /\ InBody("open")
    /\ tried' = mFileName
    /\ \/ WithFile
       \/ opened' = FALSE /\ body' = "end" /\ UNCHANGED mUpdateStart
    /\ UNCHANGED <<mState, crossed>>
    /\ BodyOnly

(* The file is opened; the Ite6563 leaves RUNNING when it cannot be. *)
BodyOpen ==
    /\ InBody("open")
    /\ tried' = mFileName
    /\ \/ WithFile /\ UNCHANGED mState
       \/ /\ opened' = FALSE /\ body' = "end"
          /\ mState' = IF chip = "Ite6563" THEN mState ELSE "FAILURE"
          /\ UNCHANGED mUpdateStart
    /\ UNCHANGED crossed
    /\ BodyOnly

(* Programming comes out well or not; the Gsv2712 and the Ap8232 read the  *)
(* version back after it, the Ap8232 before it leaves RUNNING.             *)
BodyFlash ==
    /\ InBody("flash")
    /\ \/ mState' = "FAILURE" /\ body' = "end"
       \/ mState' = "SUCCESS" /\ body' = IF chip = "Gsv2712" THEN "version" ELSE "end"
       \/ chip = "Ap8232" /\ UNCHANGED mState /\ body' = "version"
    /\ chip = "Ap8232" => mState' # "SUCCESS"
    /\ UNCHANGED <<mUpdateStart, tried, opened, crossed>>
    /\ BodyOnly

(* The Gsv2712 reads the version four seconds later, under mLock.  The     *)
(* Cs5803aq fails when a client's reading has taken its flag down, or the  *)
(* chip does not answer.                                                   *)
BodyVersion ==
    /\ InBody("version")
    /\ ~LockHeld
    /\ \/ chip = "Gsv2712" /\ body' = "end" /\ UNCHANGED mState
       \/ chip = "Ap8232" /\ body' = "end" /\ mState' = "SUCCESS"
       \/ chip = "Cs5803aq" /\ mUpdateStart /\ body' = "flash" /\ UNCHANGED mState
       \/ chip = "Cs5803aq" /\ body' = "end" /\ mState' = "FAILURE"
    /\ mUpdateStart' = FALSE
    /\ UNCHANGED <<tried, opened, crossed>>
    /\ BodyOnly

BodyEnd(i) ==
    /\ body = "end"
    /\ BodyReturn(i)
    /\ body' = "start"
    /\ UNCHANGED <<chip, pace, mState, mFileName, mUpdateStart, client, requests, accepted, tried, opened, crossed>>

BodyStep ==
    \/ BodyStart \/ BodyOpen \/ BodyFlash \/ BodyVersion
    \/ \E i \in Ids : BodyEnd(i)

-----------------------------------------------------------------------------
ThreadStep == (\E i \in Ids : LoopTest(i) \/ Task(i)) /\ UNCHANGED chipVars

ClientStep ==
    \/ Note \/ StartBody \/ UpgradeReturn \/ ClearStart \/ VersionReturn
    \/ (\E c \in Runners : CallStep(c)) /\ UNCHANGED chipVars

ChipNext == Ask \/ RejectName \/ ReadVersion \/ ClientStep \/ BodyStep \/ ThreadStep

(* The threads run, the transfers and the sleeps end; nobody has to ask. *)
ChipSpec ==
    /\ ChipInit /\ [][ChipNext]_allVars
    /\ WF_allVars(ClientStep) /\ WF_allVars(BodyStep) /\ WF_allVars(ThreadStep)

-----------------------------------------------------------------------------
(* Properties.                                                             *)

AtRest == Resting /\ ~(\E i \in Ids : loops[i] = "cond" /\ ~mStat.wait) /\ client = "idle"

(* The request taken on last is carried out, although the loop that is     *)
(* replaced may not have come to its body and no flag stands for the       *)
(* request: a body goes for its file, unless a later one, refused for its  *)
(* name, has cleared it.                                                   *)
LastIsTried == AtRest => tried = accepted \/ (chip \in LateRunning /\ pace = "any" /\ mFileName = 0)

(* The state RUNNING means that the chip is being upgraded, and so goes    *)
(* on the requests that it refuses: with the upgrade at an end ("Warning:  *)
(* ite6563 is updating...") there is nothing to refuse for.                *)
RunningMeansUpdating == AtRest => mState # "RUNNING"

(* So it is but for three cases: the garbage in the state of a chip that   *)
(* no request has set (with the Hl817 it refuses every request there will  *)
(* be), a file that the Ite6563 could not open, and a name that did not    *)
(* fit in the Ap8224 and the Ap8232.  Every other way out of the body, and *)
(* of the request, leaves the state.                                       *)
SoundRunning ==
    \/ RunningMeansUpdating
    \/ chip \in {"Gsv2712", "Hl817"} /\ accepted = 0
    \/ chip = "Ite6563" /\ ~opened
    \/ chip \in {"Ap8224", "Ap8232"} /\ mFileName = 0

(* While a chip is programmed a request is refused at once, with what      *)
(* invoke() locks for the whole service soon free again: no call waits,    *)
(* inside of run(), for the programming to end.                            *)
RefusedAtOnce == ~(InBody("flash") /\ \E c \in Runners : stage[c] = "joining")

(* Nor does a client's reading of the version cross the programming.       *)
ReadAlone == ~(InBody("flash") /\ client = "read")

(* So it is for every call that comes after RUNNING is set, by the request *)
(* or by the body, with the test of the state made only once and long      *)
(* before run() or the transfer; but for the Gsv2712, which refuses        *)
(* nothing, and the Hl817, whose version is read with no test at all.      *)
Undisturbed ==
    \/ chip \in LateRunning /\ crossed
    \/ chip = "Gsv2712"
    \/ RefusedAtOnce /\ (chip = "Hl817" \/ ReadAlone)

(* A call comes back, and the service with it; with the Gsv2712, whose     *)
(* request holds the mutex the body needs at its end, if clients wait.     *)
CallReturns ==
    (client # "idle") ~> (client = "idle" \/ (chip = "Gsv2712" /\ pace = "any"))
=============================================================================
