----------------------------- MODULE McuUpgrade -----------------------------
(***************************************************************************)
(* Firmware upgrade of the front MCU: the drivers under logic/mcu/module.  *)
(* A driver is an XbhMWThread: upgradeFirmware notes the file, sets        *)
(* mUpgradeStatus and calls run(ONCE); the body programs the chip.  The    *)
(* clients come in through XbhServiceImpl::invoke, one at a time.          *)
(*                                                                         *)
(* The drivers differ in what the body locks, and in when it enters and    *)
(* leaves the RUNNING state:                                               *)
(*   Gd32f305rb    mLock for the programming, again, three seconds later,  *)
(*                 to read the version back                                *)
(*   RkGd32f310g8  mLock for the whole body                                *)
(*   Gd32f330r8    no lock; SUCCESS is shown four seconds before the end   *)
(*   mtGd32f310g8  no lock; the versions of chip and file are compared     *)
(*                 first, in the IDLE state                                *)
(*   At32f407rc    no lock                                                 *)
(* The last two do not lock for their clients either: invoke() does.       *)
(***************************************************************************)
EXTENDS XbhMWThread

CONSTANTS
    Drivers,     \* the drivers considered
    Clients,     \* the callers of invoke()
    Paces,       \* "any": clients ask when they like; "rested": not while a body runs
    MaxRequests  \* bound: upgrade requests in a behaviour, numbered; each is for its own file

Locking == {"Gd32f305rb", "RkGd32f310g8"}

ASSUME UpgradeAssumption ==
    /\ Drivers \subseteq Locking \union {"Gd32f330r8", "mtGd32f310g8", "At32f407rc"}
    /\ Clients \subseteq Runners /\ {"body", "free"} \intersect Clients = {}
    /\ Paces \subseteq {"any", "rested"}
    /\ MaxRequests \in Nat

VARIABLES
    driver, pace,    \* the driver of this board and the pace of its clients, which never change
    invokeLock,      \* holder of XbhServiceImpl::mLock
    chipLock,        \* holder of the driver's mLock: a client, "body" or "free"
    mState,          \* upgrade state, as getUpgradeState shows it
    mUpgradeStatus,  \* upgrade needed
    mFileName,       \* the file to program (strPresetfilepath of the mt), 0 for no request's name
    ends,            \* where that buffer has a zero, at which a copied name can end
    client,          \* per client: place in invoke, and the file of its request
    body,            \* place in the body
    file,            \* the file the body has opened, 0 if none
    requests,        \* requests made so far
    accepted,        \* history: the last request upgradeFirmware took on
    tried            \* history: the last request whose file the body went for

upgradeVars == <<driver, pace, invokeLock, chipLock, mState, mUpgradeStatus, mFileName, ends,
                 client, body, file, requests, accepted, tried>>
allVars == <<vars, upgradeVars>>

(* The name of request n, with behind it the tail of a longer one. *)
Tailed(n) == MaxRequests + n

Requests == 0..MaxRequests
Files == 0..(2 * MaxRequests)
Lengths == 1..2
States == {"IDLE", "RUNNING", "SUCCESS", "FAILURE"}

UpgradeTypeOK ==
    /\ TypeOK
    /\ driver \in Drivers /\ pace \in Paces
    /\ invokeLock \in Clients \union {"free"}
    /\ chipLock \in Clients \union {"body", "free"}
    /\ mState \in States
    /\ mUpgradeStatus \in BOOLEAN
    /\ {mFileName, file, tried} \subseteq Files
    /\ {requests, accepted} \subseteq Requests
    /\ ends \subseteq Lengths
    /\ client \in [Clients -> [pc : {"idle", "upgrade", "start", "run", "version"}, file : Requests]]
    /\ body \in {"start", "lock", "check", "open", "flash", "settle", "version", "clear", "return"}

(* The constructors leave mState as the allocator left it, that of the mt  *)
(* strPresetfilepath as well.                                              *)
UpgradeInit ==
    /\ Init
    /\ driver \in Drivers /\ pace \in Paces
    /\ invokeLock = "free" /\ chipLock = "free"
    /\ mState \in States
    /\ mUpgradeStatus = FALSE
    /\ mFileName = 0
    /\ ends \in IF driver = "mtGd32f310g8" THEN SUBSET Lengths ELSE {Lengths}
    /\ client = [c \in Clients |-> [pc |-> "idle", file |-> 0]]
    /\ body = "start" /\ file = 0
    /\ requests = 0 /\ accepted = 0 /\ tried = 0

-----------------------------------------------------------------------------
(* invoke(): one client at a time, whatever it asks for. *)
Resting == \A i \in Ids : loops[i] \in {"none", "cond", "exited"}

Enter(c, pc) ==
    /\ client[c].pc = "idle"
    /\ invokeLock = "free"
    /\ invokeLock' = c
    /\ client' = [client EXCEPT ![c].pc = pc, ![c].file = requests']
    /\ UNCHANGED <<vars, driver, pace, chipLock, mState, mUpgradeStatus, mFileName, ends, body, file,
                   accepted, tried>>

AskUpgrade(c) ==
    /\ requests < MaxRequests
    /\ pace = "rested" => Resting
    /\ requests' = requests + 1
    /\ Enter(c, "upgrade")

AskVersion(c) == UNCHANGED requests /\ Enter(c, "version")

Done(c) == client' = [client EXCEPT ![c].pc = "idle", ![c].file = 0] /\ invokeLock' = "free"

(* upgradeFirmware under mLock: refuses while RUNNING; else notes the file *)
(* and goes on to run() with the mutex held.                               *)
Refuse(c) ==
    /\ client[c].pc = "upgrade"
    /\ chipLock = "free"
    /\ mState = "RUNNING"
    /\ Done(c)
    /\ UNCHANGED <<vars, driver, pace, chipLock, mState, mUpgradeStatus, mFileName, ends, body, file,
                   requests, accepted, tried>>

(* The name is copied.  That of the mt goes without its terminator to a    *)
(* buffer that is never cleared, and ends where that happens to end.       *)
CopyName(f) ==
    \E length \in Lengths :
        /\ mFileName' = IF length \in ends THEN f ELSE Tailed(f)
        /\ ends' = IF driver = "mtGd32f310g8" THEN ends \ (1..(length - 1)) ELSE ends

(* Faulty: does not set the flag the body looks at. *)
AcceptUnflagged(c) ==
    /\ client[c].pc = "upgrade"
    /\ chipLock = "free"
    /\ mState # "RUNNING"
    /\ chipLock' = c
    /\ CopyName(client[c].file)
    /\ accepted' = client[c].file
    /\ client' = [client EXCEPT ![c].pc = "start"]
    /\ UNCHANGED <<vars, driver, pace, invokeLock, mState, mUpgradeStatus, body, file, requests, tried>>

Accept(c) ==
    /\ client[c].pc = "upgrade"
    /\ chipLock = "free"
    /\ mState # "RUNNING"
    /\ chipLock' = c
    /\ CopyName(client[c].file)
    /\ mUpgradeStatus' = TRUE
    /\ accepted' = client[c].file
    /\ client' = [client EXCEPT ![c].pc = "start"]
    /\ UNCHANGED <<vars, driver, pace, invokeLock, mState, body, file, requests, tried>>

(* A name that does not fit is refused after the old one was cleared; the  *)
(* mt keeps it in its second copy, which is the one it uses.               *)
RejectName(c) ==
    /\ client[c].pc = "upgrade"
    /\ chipLock = "free"
    /\ mState # "RUNNING"
    /\ mFileName' = IF driver = "mtGd32f310g8" THEN mFileName ELSE 0
    /\ Done(c)
    /\ UNCHANGED <<vars, driver, pace, chipLock, mState, mUpgradeStatus, ends, body, file,
                   requests, accepted, tried>>

StartBody(c) ==
    /\ client[c].pc = "start"
    /\ Run(c, {"ONCE"})
    /\ client' = [client EXCEPT ![c].pc = "run"]
    /\ UNCHANGED <<driver, pace, invokeLock, chipLock, mState, mUpgradeStatus, mFileName, ends, body, file,
                   requests, accepted, tried>>

(* Faulty: returns with mLock held. *)
UpgradeReturnLocked(c) ==
    /\ client[c].pc = "run"
    /\ stage[c] = "idle"
    /\ Done(c)
    /\ UNCHANGED <<vars, driver, pace, chipLock, mState, mUpgradeStatus, mFileName, ends, body, file,
                   requests, accepted, tried>>

UpgradeReturn(c) ==
    /\ client[c].pc = "run"
    /\ stage[c] = "idle"
    /\ chipLock' = "free"
    /\ Done(c)
    /\ UNCHANGED <<vars, driver, pace, mState, mUpgradeStatus, mFileName, ends, body, file,
                   requests, accepted, tried>>

(* getFirmwareVersion, resetChip: short, under mLock. *)
Version(c) ==
    /\ client[c].pc = "version"
    /\ chipLock = "free"
    /\ Done(c)
    /\ UNCHANGED <<vars, driver, pace, chipLock, mState, mUpgradeStatus, mFileName, ends, body, file,
                   requests, accepted, tried>>

-----------------------------------------------------------------------------
(* The body, run(arg). *)
InBody(pc) == (\E i \in Ids : loops[i] = "body") /\ body = pc

(* Faulty: waits for the mutex and does not take it. *)
NoLockInBody == chipLock = "free" /\ UNCHANGED chipLock

LockInBody == chipLock = "free" /\ chipLock' = "body"
BodyOnly == UNCHANGED <<vars, driver, pace, invokeLock, mFileName, ends, client, requests, accepted>>

(* if (mUpgradeStatus == 1); the 310g8 locks before it looks. *)
BodyStart ==
    /\ InBody("start")
    /\ IF driver = "RkGd32f310g8" THEN LockInBody ELSE UNCHANGED chipLock
    /\ body' = CASE ~mUpgradeStatus -> "return"
                 [] mUpgradeStatus /\ driver = "Gd32f305rb" -> "lock"
                 [] mUpgradeStatus /\ driver = "mtGd32f310g8" -> "check"
                 [] OTHER -> "open"
    /\ mState' = CASE body' = "open" -> "RUNNING"
                   [] body' = "check" -> "IDLE"
                   [] OTHER -> mState
    /\ UNCHANGED <<mUpgradeStatus, file, tried>>
    /\ BodyOnly

(* upgradetask of the 305rb. *)
BodyLock ==
    /\ InBody("lock")
    /\ LockInBody
    /\ mState' = "RUNNING"
    /\ body' = "open"
    /\ UNCHANGED <<mUpgradeStatus, file, tried>>
    /\ BodyOnly

(* MCUUpgrade of the mt: the chip does not answer or the name has no       *)
(* version, which leaves IDLE; the version is no newer; or it goes on.     *)
BodyCheck ==
    /\ InBody("check")
    /\ tried' = mFileName
    /\ \/ mState' \in {mState, "FAILURE"} /\ body' = "clear"
       \/ mState' = "RUNNING" /\ body' = "open" /\ mFileName # 0
    /\ UNCHANGED <<chipLock, mUpgradeStatus, file>>
    /\ BodyOnly

(* Faulty: a file that does not open leaves the state as it is. *)
BodyOpenSilent ==
    /\ InBody("open")
    /\ tried' = mFileName
    /\ \/ /\ mFileName # 0
          /\ file' = mFileName
          /\ body' = "flash"
          /\ UNCHANGED chipLock
       \/ /\ body' = IF driver = "Gd32f305rb" THEN "version" ELSE "clear"
          /\ chipLock' = IF driver = "Gd32f305rb" THEN "free" ELSE chipLock
          /\ UNCHANGED file
    /\ UNCHANGED <<mState, mUpgradeStatus>>
    /\ BodyOnly

(* fopen and the checks of size and memory. *)
BodyOpen ==
    /\ InBody("open")
    /\ tried' = mFileName
    /\ \/ /\ mFileName # 0
          /\ file' = mFileName
          /\ body' = "flash"
          /\ UNCHANGED <<mState, chipLock>>
       \/ /\ mState' = "FAILURE"
          /\ body' = IF driver = "Gd32f305rb" THEN "version" ELSE "clear"
          /\ chipLock' = IF driver = "Gd32f305rb" THEN "free" ELSE chipLock
          /\ UNCHANGED file
    /\ UNCHANGED mUpgradeStatus
    /\ BodyOnly

(* Programming and checksum; on success the 330r8 goes on for a while. *)
BodyFlash ==
    /\ InBody("flash")
    /\ mState' \in {"SUCCESS", "FAILURE"}
    /\ body' = CASE driver = "Gd32f305rb" -> "version"
                 [] driver = "Gd32f330r8" /\ mState' = "SUCCESS" -> "settle"
                 [] OTHER -> "clear"
    /\ chipLock' = IF driver = "Gd32f305rb" THEN "free" ELSE chipLock
    /\ file' = 0
    /\ UNCHANGED <<mUpgradeStatus, tried>>
    /\ BodyOnly

(* Four seconds later the 330r8 leaves the IAP mode, or fails to. *)
BodySettle ==
    /\ InBody("settle")
    /\ mState' \in {mState, "FAILURE"}
    /\ body' = "clear"
    /\ UNCHANGED <<chipLock, mUpgradeStatus, file, tried>>
    /\ BodyOnly

(* Three seconds later the 305rb reads the version back, under mLock. *)
BodyVersion ==
    /\ InBody("version")
    /\ chipLock = "free"
    /\ body' = "clear"
    /\ UNCHANGED <<chipLock, mState, mUpgradeStatus, file, tried>>
    /\ BodyOnly

BodyClear ==
    /\ InBody("clear")
    /\ mUpgradeStatus' = FALSE
    /\ body' = "return"
    /\ UNCHANGED <<chipLock, mState, file, tried>>
    /\ BodyOnly

BodyEnd(i) ==
    /\ body = "return"
    /\ BodyReturn(i)
    /\ body' = "start"
    /\ chipLock' = IF driver = "RkGd32f310g8" THEN "free" ELSE chipLock
    /\ UNCHANGED <<driver, pace, invokeLock, mState, mUpgradeStatus, mFileName, ends, client, file,
                   requests, accepted, tried>>

BodyStep ==
    \/ BodyStart \/ BodyLock \/ BodyCheck \/ BodyOpen \/ BodyFlash \/ BodySettle \/ BodyVersion \/ BodyClear
    \/ \E i \in Ids : BodyEnd(i)

-----------------------------------------------------------------------------
ThreadStep(i) == (LoopTest(i) \/ Task(i)) /\ UNCHANGED upgradeVars

ClientStep(c) ==
    \/ Refuse(c) \/ Accept(c) \/ StartBody(c) \/ UpgradeReturn(c) \/ Version(c)
    \/ CallStep(c) /\ UNCHANGED upgradeVars

UpgradeNext ==
    \/ \E c \in Clients : AskUpgrade(c) \/ AskVersion(c) \/ RejectName(c) \/ ClientStep(c)
    \/ BodyStep
    \/ \E i \in Ids : ThreadStep(i)

(* Whoever has a mutex free to take takes it in the end, the sleeps end,   *)
(* and the I2C transfers come back; nobody has to ask for anything.        *)
UpgradeSpec ==
    /\ UpgradeInit /\ [][UpgradeNext]_allVars
    /\ \A c \in Clients : SF_allVars(ClientStep(c))
    /\ SF_allVars(BodyStep)
    /\ \A i \in Ids : WF_allVars(ThreadStep(i))

-----------------------------------------------------------------------------
(* Every call of a client is answered: an upgrade in progress never holds  *)
(* up the service for good (Gd32f305rb.cpp:394-398 answers at once).       *)
Answered == \A c \in Clients : (client[c].pc # "idle") ~> (client[c].pc = "idle")

(* So it is with clients that let a body end before they ask for the next  *)
(* upgrade, and with the drivers whose body locks nothing.                 *)
PatientAnswered == pace = "rested" \/ driver \notin Locking => Answered

(* The file of a request: the one it names, but with the mt perhaps that   *)
(* of no request, whose name is longer (mtGd32f310g8.cpp:660).             *)
Meant(n) == {n} \union IF driver = "mtGd32f310g8" THEN {Tailed(n)} ELSE {}

(* When everything has come to rest, the request taken on last has been    *)
(* carried out, as far as the name went with it: mUpgradeStatus, "upgrade  *)
(* needed", is not lost.                                                   *)
AtRest == Resting /\ ~(\E i \in Ids : loops[i] = "cond" /\ ~mStat.wait)
                  /\ \A c \in Clients : client[c].pc = "idle"

NoRequestLost == AtRest => tried \in Meant(accepted) \/ mFileName = 0

(* So it is with patient clients, and with the driver that keeps its lock  *)
(* until the flag is cleared.                                              *)
PatientNotLost == pace = "rested" \/ driver = "RkGd32f310g8" => NoRequestLost

(* RUNNING, the state that makes the driver refuse requests, is left on    *)
(* every way out of the body; before the first request it may be garbage.  *)
RunningOnlyInBody ==
    accepted # 0 /\ mState = "RUNNING" => InBody("open") \/ InBody("flash")

(* The chip is programmed from one file at a time, and a driver that locks *)
(* does so with the mutex held by the body.                                *)
OneWriter ==
    /\ OneBody
    /\ driver \in Locking /\ InBody("flash") => chipLock = "body"
=============================================================================
