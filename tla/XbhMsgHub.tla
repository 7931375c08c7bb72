----------------------------- MODULE XbhMsgHub -----------------------------
(***************************************************************************)
(* The message center of libeywa (common/support/XbhMsgHub.cpp): producers *)
(* post messages from their own threads, one reader thread, an XbhMWThread *)
(* in REPEAT mode, takes them off the queue and hands each to the          *)
(* registered handlers.  The reader suspends itself when it finds the      *)
(* queue empty, and every post resumes it.                                 *)
(*                                                                         *)
(* The thread part is XbhMWThread's; this module adds the queue, its       *)
(* mutex, the handler set and the body of the reader.                      *)
(***************************************************************************)
EXTENDS XbhMWThread, Sequences

CONSTANTS
    Main,       \* the thread that builds XbhService, and with it the hub
    Reader,     \* the name under which the reader calls suspend()
    Posters,    \* manager threads that call PostMsg
    Handlers,   \* handler objects: numbers, in the order of their addresses
    MaxPost     \* bound: messages posted in a behaviour

ASSUME HubAssumption ==
    /\ Main \in Runners
    /\ Reader \in Callers
    /\ Posters \subseteq Callers \ {Reader, "free"}
    /\ Reader # "free"
    /\ Handlers \subseteq Nat
    /\ MaxPost \in Nat

VARIABLES
    m_InitFlag,      \* Init() has been entered
    m_msgQueue,      \* messages posted and not yet read
    queueLock,       \* the holder of m_msgQueueLock, or "free"
    m_handlerSet,    \* the registered handlers
    reader,          \* the body of the reader: its place, message and handlers to call
    posted, handled  \* history: messages in the order of push, and of the end of SendMsg

hubVars == <<m_InitFlag, m_msgQueue, queueLock, m_handlerSet, reader, posted, handled>>
allVars == <<vars, hubVars>>

(* A message is the poster with the number of the post. *)
Messages == Posters \X (1..MaxPost)
NoMsg == <<>>

AtRest == [pc |-> "start", msg |-> NoMsg, set |-> {}]

HubTypeOK ==
    /\ TypeOK
    /\ m_InitFlag \in BOOLEAN
    /\ m_msgQueue \in Seq(Messages)
    /\ queueLock \in Posters \union {Reader, "free"}
    /\ m_handlerSet \subseteq Handlers
    /\ reader \in [pc : {"start", "empty", "send", "copy", "iterate", "free", "return"},
                   msg : Messages \union {NoMsg}, set : SUBSET Handlers]
    /\ posted \in Seq(Messages)
    /\ handled \in Seq(Messages)

HubInit ==
    /\ Init
    /\ m_InitFlag = FALSE
    /\ m_msgQueue = <<>>
    /\ queueLock = "free"
    /\ m_handlerSet = {}
    /\ reader = AtRest
    /\ posted = <<>>
    /\ handled = <<>>

-----------------------------------------------------------------------------
(* MsgPublisher() and Init(): the flag, then run(REPEAT). *)
HubStart ==
    /\ ~m_InitFlag
    /\ m_InitFlag' = TRUE
    /\ Run(Main, {})
    /\ UNCHANGED <<m_msgQueue, queueLock, m_handlerSet, reader, posted, handled>>

RegisterHandler(h) ==
    /\ m_InitFlag
    /\ m_handlerSet' = m_handlerSet \union {h}
    /\ UNCHANGED <<vars, m_InitFlag, m_msgQueue, queueLock, reader, posted, handled>>

(* The destructor of a handler: unregistered, the object is gone. *)
UnregisterHandler(h) ==
    /\ h \in m_handlerSet
    /\ m_handlerSet' = m_handlerSet \ {h}
    /\ UNCHANGED <<vars, m_InitFlag, m_msgQueue, queueLock, reader, posted, handled>>

(* PostMsg: lock and push ... *)
PostPush(p) ==
    /\ m_InitFlag
    /\ Len(posted) < MaxPost
    /\ queueLock = "free"
    /\ queueLock' = p
    /\ LET m == <<p, Len(posted) + 1>>
       IN  /\ m_msgQueue' = Append(m_msgQueue, m)
           /\ posted' = Append(posted, m)
    /\ UNCHANGED <<vars, m_InitFlag, m_handlerSet, reader, handled>>

(* Faulty: leaves the reader alone. *)
PostNoResume(p) ==
    /\ queueLock = p
    /\ queueLock' = "free"
    /\ UNCHANGED <<vars, m_InitFlag, m_msgQueue, m_handlerSet, reader, posted, handled>>

(* ... then resume the reader and unlock. *)
PostResume(p) ==
    /\ queueLock = p
    /\ ResumeCall(p)
    /\ queueLock' = "free"
    /\ UNCHANGED <<m_InitFlag, m_msgQueue, m_handlerSet, reader, posted, handled>>

-----------------------------------------------------------------------------
(* The body of the reader, MsgReader. *)
InBody(pc) == (\E i \in Ids : loops[i] = "body") /\ reader.pc = pc

(* Faulty: unlocks the queue before it suspends itself. *)
ReadQueueUnlocking ==
    /\ InBody("start")
    /\ queueLock = "free"
    /\ \/ /\ m_msgQueue = <<>>
          /\ reader' = [reader EXCEPT !.pc = "empty"]
          /\ UNCHANGED m_msgQueue
       \/ /\ m_msgQueue # <<>>
          /\ reader' = [reader EXCEPT !.pc = "send", !.msg = Head(m_msgQueue)]
          /\ m_msgQueue' = Tail(m_msgQueue)
    /\ UNCHANGED <<vars, m_InitFlag, queueLock, m_handlerSet, posted, handled>>

(* Locks the queue and looks at it: takes the front message and unlocks,   *)
(* or goes on, with the lock, to suspend itself.                           *)
ReadQueue ==
    /\ InBody("start")
    /\ queueLock = "free"
    /\ \/ /\ m_msgQueue = <<>>
          /\ queueLock' = Reader
          /\ reader' = [reader EXCEPT !.pc = "empty"]
          /\ UNCHANGED m_msgQueue
       \/ /\ m_msgQueue # <<>>
          /\ reader' = [reader EXCEPT !.pc = "send", !.msg = Head(m_msgQueue)]
          /\ m_msgQueue' = Tail(m_msgQueue)
          /\ UNCHANGED queueLock
    /\ UNCHANGED <<vars, m_InitFlag, m_handlerSet, posted, handled>>

ReadSuspend ==
    /\ InBody("empty")
    /\ SuspendCall(Reader)
    /\ queueLock' = "free"
    /\ reader' = [reader EXCEPT !.pc = "return"]
    /\ UNCHANGED <<m_InitFlag, m_msgQueue, m_handlerSet, posted, handled>>

(* SendMsg: nothing to do without handlers, a test made without the lock ... *)
SendTest ==
    /\ InBody("send")
    /\ reader' = [reader EXCEPT !.pc = IF m_handlerSet = {} THEN "free" ELSE "copy"]
    /\ UNCHANGED <<vars, m_InitFlag, m_msgQueue, queueLock, m_handlerSet, posted, handled>>

(* ... and, with it, a copy of the set, of which nothing may be left by now. *)
SendSnapshot ==
    /\ InBody("copy")
    /\ reader' = [reader EXCEPT !.pc = "iterate", !.set = m_handlerSet]
    /\ UNCHANGED <<vars, m_InitFlag, m_msgQueue, queueLock, m_handlerSet, posted, handled>>

(* The handler the iteration of the copy calls next. *)
IsNextHandler(h) == h \in reader.set /\ \A g \in reader.set : h <= g

(* HandleMsg of the next handler; one that returns TRUE ends the loop. *)
SendCall(h, done) ==
    /\ InBody("iterate")
    /\ IsNextHandler(h)
    /\ reader' = [reader EXCEPT !.set = IF done THEN {} ELSE @ \ {h}]
    /\ UNCHANGED <<vars, m_InitFlag, m_msgQueue, queueLock, m_handlerSet, posted, handled>>

SendEnd ==
    /\ InBody("iterate")
    /\ reader.set = {}
    /\ reader' = [reader EXCEPT !.pc = "free"]
    /\ UNCHANGED <<vars, m_InitFlag, m_msgQueue, queueLock, m_handlerSet, posted, handled>>

(* Back in MsgReader, which frees the message. *)
ReadFree ==
    /\ InBody("free")
    /\ handled' = Append(handled, reader.msg)
    /\ reader' = [reader EXCEPT !.pc = "return", !.msg = NoMsg]
    /\ UNCHANGED <<vars, m_InitFlag, m_msgQueue, queueLock, m_handlerSet, posted>>

ReadReturn(i) ==
    /\ reader.pc = "return"
    /\ BodyReturn(i)
    /\ reader' = AtRest
    /\ UNCHANGED <<m_InitFlag, m_msgQueue, queueLock, m_handlerSet, posted, handled>>

-----------------------------------------------------------------------------
ReaderStep ==
    \/ ReadQueue \/ ReadSuspend \/ SendTest \/ SendSnapshot \/ SendEnd \/ ReadFree
    \/ \E h \in Handlers, done \in BOOLEAN : SendCall(h, done)
    \/ \E i \in Ids : \/ ReadReturn(i)
                      \/ (LoopTest(i) \/ Task(i)) /\ UNCHANGED hubVars

HubNext ==
    \/ HubStart
    \/ Create(Main) /\ UNCHANGED hubVars
    \/ \E p \in Posters : PostPush(p) \/ PostResume(p)
    \/ \E h \in Handlers : RegisterHandler(h) \/ UnregisterHandler(h)
    \/ ReaderStep
    \/ \E i \in Ids : SpuriousWakeup(i) /\ UNCHANGED hubVars

HubSpec == HubInit /\ [][HubNext]_allVars

(* The reader runs, the constructor of the service goes on, and a producer *)
(* inside PostMsg comes out of it: it only needs the two mutexes.          *)
HubFairSpec ==
    /\ HubSpec
    /\ WF_allVars(ReaderStep)
    /\ WF_allVars(HubStart) /\ WF_allVars(Create(Main) /\ UNCHANGED hubVars)
    /\ \A p \in Posters : WF_allVars(PostResume(p))

-----------------------------------------------------------------------------
(* A reader that was told to wait has nothing to read, but for the message *)
(* of a producer that has pushed and is about to resume it.                *)
NoLostWakeup ==
    mStat.wait /\ m_msgQueue # <<>> => queueLock \in Posters

(* Every message is in exactly one place, in the order of posting: handled *)
(* already, in the reader's hands, or queued.                              *)
InOrder ==
    posted = handled \o (IF reader.msg = NoMsg THEN <<>> ELSE <<reader.msg>>) \o m_msgQueue

(* The promise of the message center: every posted message is handled,    *)
(* once, in the order of posting, whatever the interleaving of producers   *)
(* and reader (XbhMsgHub.cpp:143-226).                                     *)
Channel == INSTANCE EventChannel
ImplementsChannel == Channel!Spec
=============================================================================
