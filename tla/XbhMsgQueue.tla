---------------------------- MODULE XbhMsgQueue ----------------------------
(***************************************************************************)
(* The message queue a manager inherits beside XbhMWThread, so that others *)
(* hand it work (common/support/XbhMsgQueue.cpp).  One queue with its      *)
(* consumer thread: of the thread only mStat.wait is kept, since a thread  *)
(* that is not told to wait does get to its body (ResumeStarts of          *)
(* XbhMWThread).                                                           *)
(*                                                                         *)
(* The mutex is a static member, one for all queues, and postMsg and       *)
(* getMsg resume and suspend the consumer while they hold it: each is one  *)
(* step.                                                                   *)
(***************************************************************************)
EXTENDS Naturals, SequencesExt

VARIABLES
    m_msgList,  \* the messages, in the order of the posts
    wait        \* mStat.wait of the consumer

queue == <<m_msgList, wait>>

InitQueue == m_msgList = <<>> /\ wait = FALSE

(* A list with a message that is not to be read before now + delay. *)
Posted(list, args, delay, now) == Append(list, [args |-> args, due |-> now + delay])

(* Faulty: leaves the consumer alone. *)
postMsgQuiet(args, delay, now) ==
    /\ m_msgList' = Posted(m_msgList, args, delay, now)
    /\ UNCHANGED wait

(* postMsg at time now; the consumer is resumed. *)
postMsg(args, delay, now) ==
    /\ m_msgList' = Posted(m_msgList, args, delay, now)
    /\ wait' = FALSE

(* Faulty: the delay is forgotten. *)
DueAtOnce(k, now) == k \in DOMAIN m_msgList

(* getMsg finds the first message that is due, wherever it stands ... *)
Due(k, now) == m_msgList[k].due <= now

(* Faulty: takes the message that was posted last. *)
getMsgLast(args, now) ==
    \E k \in DOMAIN m_msgList :
        /\ Due(k, now)
        /\ \A j \in (k + 1)..Len(m_msgList) : ~Due(j, now)
        /\ args = m_msgList[k].args
        /\ m_msgList' = RemoveAt(m_msgList, k)
        /\ UNCHANGED wait

getMsg(args, now) ==
    \E k \in DOMAIN m_msgList :
        /\ Due(k, now)
        /\ \A j \in 1..(k - 1) : ~Due(j, now)
        /\ args = m_msgList[k].args
        /\ m_msgList' = RemoveAt(m_msgList, k)
        /\ UNCHANGED wait

(* ... or an empty queue, and then it suspends the consumer. *)
getMsgEmpty ==
    /\ m_msgList = <<>>
    /\ wait' = TRUE
    /\ UNCHANGED m_msgList

(* getMsg without blocking finds nothing that is due: no suspension. *)
getMsgNone(now) ==
    /\ \A k \in DOMAIN m_msgList : ~Due(k, now)
    /\ UNCHANGED queue

(* Faulty: compares with nothing. *)
removeMsgNone(list, args) == list

(* removeMsg drops every message of a type; the others move up. *)
removeMsg(list, args) ==
    LET kept == {k \in DOMAIN list : list[k].args # args}
    IN  [j \in 1..Cardinality(kept) |->
            list[CHOOSE k \in kept : Cardinality({i \in kept : i <= k}) = j]]

(* The consumer waits for the next post. *)
Drained == m_msgList = <<>> /\ wait
=============================================================================
