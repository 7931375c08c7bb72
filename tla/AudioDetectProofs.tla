-------------------------- MODULE AudioDetectProofs --------------------------
(***************************************************************************)
(* Theorems about AudioDetect, whatever the circumstances and however      *)
(* often the plugs are moved: the two outputs of the board are not open at *)
(* once, the queue holds at most one message, and the microphone is not    *)
(* opened early.                                                           *)
(***************************************************************************)
EXTENDS AudioDetect, FiniteSetTheorems, SequenceTheorems, TLAPS

(* Where the headphone closes the speaker and the boot does not overtake   *)
(* the thread.                                                             *)
Product == conditions \intersect {"lineout", "fixed", "early"} = {}

(* The speaker is closed until the thread opens it, which it does before   *)
(* the first poll.                                                         *)
BootInv ==
    /\ booted => ampUnmute
    /\ ~ampUnmute => "speaker" \in muted
    /\ step \in {"boot", "completed"} => noted = {}
    /\ step \in {"boot", "completed"} \/ ampUnmute

(* Once it has, what the thread has noted of the headphone says which of   *)
(* the two is closed; both are while it changes from one to the other.     *)
OutputInv ==
    ampUnmute =>
        /\ "hp" \in noted => "speaker" \in muted
        /\ "hp" \notin noted \/ step \in {"hpin", "hpout"} => "headphone" \in muted
        /\ step = "hpin" => "hp" \in noted
        /\ step = "hpout" => "hp" \notin noted

(* Headphone and ARC are not both noted, or the history says so. *)
SharedInv == {"hp", "arc"} \subseteq noted => shared

OutputsInv ==
    /\ noted \subseteq Plugs /\ shared \in BOOLEAN /\ ampUnmute \in BOOLEAN /\ booted \in BOOLEAN
    /\ SharedInv
    /\ Product => BootInv /\ (shared \/ OutputInv)

LEMMA OutputsInit ==
    ASSUME Init
    PROVE  OutputsInv
<1>1. noted = {} /\ shared = FALSE /\ ampUnmute = FALSE /\ booted = FALSE /\ step = "boot" /\ "speaker" \in muted
  BY DEF Init, Channels
<1> QED
  BY <1>1 DEF OutputsInv, SharedInv, BootInv, OutputInv

(* All that moves no output, notes no plug and stays within its phase. *)
LEMMA OutputsKept ==
    ASSUME OutputsInv,
           UNCHANGED <<conditions, noted, shared, ampUnmute>>,
           muted' \in {muted, muted \ {"mic"}, muted \union {"mic"}},
           booted' = booted \/ (booted' = TRUE /\ ("early" \in conditions \/ ampUnmute)),
           \/ step' = step
           \/ step \in {"boot", "completed"} /\ step' \in {"boot", "completed"}
           \/ step = "completed" /\ step' = "mic" /\ booted
           \/ step \notin {"boot", "completed", "hpin", "hpout"} /\ step' \notin {"boot", "completed", "hpin", "hpout"}
    PROVE  OutputsInv'
<1>1. ("speaker" \in muted' <=> "speaker" \in muted) /\ ("headphone" \in muted' <=> "headphone" \in muted)
  OBVIOUS
<1>2. SharedInv' /\ noted' \subseteq Plugs /\ shared' \in BOOLEAN /\ ampUnmute' \in BOOLEAN /\ booted' \in BOOLEAN
  BY DEF OutputsInv, SharedInv
<1>3. ASSUME Product' PROVE BootInv'
  <2>1. Product /\ BootInv /\ "early" \notin conditions
    BY <1>3 DEF Product, OutputsInv
  <2> QED
    BY <1>1, <2>1 DEF BootInv
<1>4. ASSUME Product', ~shared PROVE OutputInv'
  <2>1. OutputInv
    BY <1>4 DEF Product, OutputsInv
  <2> QED
    BY <1>1, <2>1 DEF OutputInv
<1> QED
  BY <1>2, <1>3, <1>4 DEF OutputsInv

LEMMA OutputsStep ==
    ASSUME OutputsInv, [Next]_vars
    PROVE  OutputsInv'
<1>1. CASE UNCHANGED vars
  BY <1>1, OutputsKept DEF vars, outside, thread
<1>2. ASSUME NEW plug \in Plugs, Move(plug) PROVE OutputsInv'
  BY <1>2, OutputsKept DEF Move, thread
<1>3. ASSUME NEW chip \in Chips, Initialise(chip) PROVE OutputsInv'
  BY <1>3, OutputsKept DEF Initialise, thread
<1>4. CASE CompleteBoot
  BY <1>4, OutputsKept DEF CompleteBoot, thread
<1>5. CASE SetClock
  BY <1>5, OutputsKept DEF SetClock, thread, outside
<1>6. CASE BootUnmute
  <2>1. /\ step = "boot" /\ step' = "completed" /\ UNCHANGED <<conditions, noted, shared, booted>>
    BY <1>6 DEF BootUnmute, outside
  <2>2. CASE UNCHANGED <<muted, ampUnmute>>
    BY <2>1, <2>2, OutputsKept
  <2>3. CASE muted' = (muted \union {"headphone"}) \ {"speaker"} /\ ampUnmute' = TRUE
    <3>1. "headphone" \in muted'
      BY <2>3
    <3> QED
      BY <2>1, <2>3, <3>1 DEF OutputsInv, SharedInv, Product, BootInv, OutputInv
  <2> QED
    BY <1>6, <2>2, <2>3 DEF BootUnmute
<1>7. CASE BootTest
  BY <1>7, OutputsKept DEF BootTest, outside, thread
<1>8. CASE MicDet
  <2>1. /\ step = "mic" /\ step' \in {"dead", "hp"} /\ UNCHANGED <<conditions, booted, ampUnmute, muted, shared>>
        /\ noted' \in {noted, noted \union {"mic"}, noted \ {"mic"}}
    BY <1>8 DEF MicDet, outside, Note
  <2>2. ("hp" \in noted' <=> "hp" \in noted) /\ ("arc" \in noted' <=> "arc" \in noted) /\ noted' \subseteq Plugs
    BY <2>1 DEF OutputsInv, Plugs
  <2> QED
    BY <2>1, <2>2 DEF OutputsInv, SharedInv, Product, BootInv, OutputInv
<1>9. CASE HpDet
  <2>1. /\ step = "hp" /\ UNCHANGED <<conditions, booted, ampUnmute>>
        /\ noted' = Note("hp") /\ noted' \subseteq Plugs
        /\ "arc" \in noted' <=> "arc" \in noted
    BY <1>9 DEF HpDet, outside, Note, OutputsInv, Plugs
  <2>2. shared' \in BOOLEAN /\ (~shared' => ~shared) /\ SharedInv'
    BY <1>9 DEF HpDet, SharedInv, OutputsInv
  <2>3. ASSUME Product PROVE BootInv'
    <3>1. ampUnmute /\ step' \notin {"boot", "completed"}
      BY <1>9, <2>1, <2>3 DEF HpDet, OutputsInv, BootInv
    <3> QED
      BY <2>1, <3>1
      DEF BootInv
  <2>4. ASSUME Product, ~shared' PROVE OutputInv'
    <3>1. OutputInv /\ Detected /\ "lineout" \notin conditions
      BY <2>2, <2>4 DEF OutputsInv, Product, Detected
    <3>2. CASE ~Edge("hp")
      <4>1. step' = "arc" /\ UNCHANGED muted /\ ("hp" \in noted' <=> "hp" \in noted)
        BY <1>9, <3>2 DEF HpDet, Edge, Note
      <4> QED
        BY <2>1, <3>1, <4>1 DEF OutputInv
    <3>3. CASE Edge("hp") /\ "hp" \in plugged
      <4>1. step' = "hpin" /\ muted' = muted \union {"speaker"} /\ "hp" \in noted' /\ "hp" \notin noted
        BY <1>9, <3>1, <3>3 DEF HpDet, Edge, Note
      <4> QED
        BY <2>1, <3>1, <4>1 DEF OutputInv
    <3>4. CASE Edge("hp") /\ "hp" \notin plugged
      <4>1. step' = "hpout" /\ muted' = muted \union {"headphone"} /\ "hp" \notin noted'
        BY <1>9, <3>1, <3>4 DEF HpDet, Edge, Note
      <4> QED
        BY <2>1, <3>1, <4>1 DEF OutputInv
    <3> QED
      BY <3>2, <3>3, <3>4
  <2>5. Product' => Product
    BY <2>1 DEF Product
  <2> QED
    BY <2>1, <2>2, <2>3, <2>4, <2>5 DEF OutputsInv
<1>10. CASE HpOpen
  <2>1. /\ step' = "arc" /\ UNCHANGED <<conditions, booted, ampUnmute, noted, shared>>
    BY <1>10 DEF HpOpen, outside
  <2>2. CASE step = "hpin" /\ muted' = muted \ {"headphone"}
    BY <2>1, <2>2 DEF OutputsInv, SharedInv, Product, BootInv, OutputInv
  <2>3. CASE step = "hpout" /\ muted' = muted \ {"speaker"}
    BY <2>1, <2>3 DEF OutputsInv, SharedInv, Product, BootInv, OutputInv
  <2> QED
    BY <1>10, <2>2, <2>3 DEF HpOpen
<1>11. CASE ArcDet
  <2>1. /\ step = "arc" /\ step' = "get" /\ UNCHANGED <<conditions, booted, ampUnmute>>
        /\ noted' = Note("arc") /\ noted' \subseteq Plugs
        /\ "hp" \in noted' <=> "hp" \in noted
    BY <1>11 DEF ArcDet, outside, Note, OutputsInv, Plugs
  <2>2. shared' \in BOOLEAN /\ (~shared' => ~shared) /\ SharedInv'
    BY <1>11 DEF ArcDet, SharedInv, OutputsInv
  <2>3. Product' => BootInv'
    BY <2>1 DEF OutputsInv, BootInv, Product
  <2>4. ASSUME Product, ~shared' PROVE OutputInv'
    <3>1. OutputInv /\ ~shared
      BY <2>2, <2>4 DEF OutputsInv
    <3>2. CASE ~Edge("arc") \/ "arc" \in plugged
      <4>1. /\ "speaker" \in muted => "speaker" \in muted'
            /\ "headphone" \in muted => "headphone" \in muted'
        BY <1>11, <3>2 DEF ArcDet
      <4> QED
        BY <2>1, <3>1, <4>1 DEF OutputInv
    <3>3. CASE Edge("arc") /\ "arc" \notin plugged
      <4>1. "arc" \in noted /\ muted' = muted \ {"speaker"}
        BY <1>11, <3>3 DEF ArcDet, Edge
      <4>2. "hp" \notin noted
        BY <3>1, <4>1 DEF OutputsInv, SharedInv
      <4> QED
        BY <2>1, <3>1, <4>1, <4>2 DEF OutputInv
    <3> QED
      BY <3>2, <3>3
  <2>5. Product' => Product
    BY <2>1 DEF Product
  <2> QED
    BY <2>1, <2>2, <2>3, <2>4, <2>5 DEF OutputsInv
<1>12. CASE GetMsg
  <2>1. muted' \in {muted, muted \ {"mic"}, muted \union {"mic"}}
    BY <1>12 DEF GetMsg
  <2> QED
    BY <1>12, <2>1, OutputsKept DEF GetMsg, outside
<1>13. CASE Rest
  BY <1>13, OutputsKept DEF Rest, outside, thread
<1> QED
  BY <1>1, <1>2, <1>3, <1>4, <1>5, <1>6, <1>7, <1>8, <1>9, <1>10, <1>11, <1>12, <1>13 DEF Next, Poll

(* Speaker and headphone are never open at once, not even while the thread *)
(* changes from one to the other, unless ARC was noted beside a headphone, *)
(* the boot overtook the thread, or the headphone closes nothing.          *)
THEOREM OneOutputTheorem == Spec => []OneOutput
<1>1. Init => OutputsInv
  BY OutputsInit
<1>2. OutputsInv /\ [Next]_vars => OutputsInv'
  BY OutputsStep
<1>3. OutputsInv => OneOutput
  <2> SUFFICES ASSUME OutputsInv, Product, ~shared PROVE "speaker" \in muted \/ "headphone" \in muted
    BY DEF OneOutput, Product
  <2>1. BootInv /\ OutputInv
    BY DEF OutputsInv
  <2> QED
    BY <2>1 DEF BootInv, OutputInv, OutputsInv
<1> QED
  BY <1>1, <1>2, <1>3, PTL DEF Spec

-----------------------------------------------------------------------------
(* The queue counts with the same operator. *)
LEMMA SameCount ==
    ASSUME NEW S
    PROVE  Queue!Cardinality(S) = Cardinality(S)
  BY Zenon DEF Queue!Cardinality, Cardinality

(* A function on the first n numbers is a list of n messages. *)
LEMMA ListOf ==
    ASSUME NEW n \in Nat, NEW f \in [1..n -> Messages]
    PROVE  f \in Seq(Messages) /\ Len(f) = n
<1>1. f \in Seq(Messages)
  BY Zenon, SeqDef
<1>2. Len(f) \in Nat /\ DOMAIN f = 1..Len(f) /\ DOMAIN f = 1..n
  BY <1>1, LenProperties
<1>3. \A k \in Int : k \in 1..Len(f) <=> k \in 1..n
  BY <1>2
<1>4. Len(f) = 0 \/ Len(f) <= n
  BY <1>2, <1>3
<1>5. n = 0 \/ n <= Len(f)
  BY <1>2, <1>3
<1> QED
  BY <1>1, <1>2, <1>4, <1>5

(* What removeMsg leaves of a list of at most one message. *)
LEMMA RemoveFromOne ==
    ASSUME NEW list \in Seq(Messages), Len(list) <= 1, NEW args
    PROVE  Queue!removeMsg(list, args) = IF list = << >> \/ list[1].args = args THEN << >> ELSE list
<1> DEFINE kept == {k \in DOMAIN list : list[k].args # args}
           pick(j) == CHOOSE k \in kept : Queue!Cardinality({i \in kept : i <= k}) = j
           left == [j \in 1..Queue!Cardinality(kept) |-> list[pick(j)]]
<1>1. Queue!removeMsg(list, args) = left
  BY DEF Queue!removeMsg
<1>2. Len(list) \in Nat /\ DOMAIN list = 1..Len(list)
  BY LenProperties
<1>3. CASE list = << >> \/ list[1].args = args
  <2>1. kept = {}
    <3>1. list = << >> => Len(list) = 0
      BY EmptySeq
    <3> QED
      BY <1>2, <1>3, <3>1
  <2>2. Queue!Cardinality(kept) = 0
    BY <2>1, SameCount, FS_EmptySet
  <2>3. left = << >>
    <3>1. left \in Seq(Messages) /\ Len(left) = 0
      <4>1. left \in [1..0 -> Messages]
        <5> HIDE DEF kept, pick
        <5>1. left = [j \in 1..0 |-> list[pick(j)]] /\ \A j \in 1..0 : FALSE
          BY <2>2
        <5> QED
          BY <5>1
      <4> QED
        BY <4>1, ListOf
    <3> QED
      BY <3>1, EmptySeq
  <2> QED
    BY <1>1, <1>3, <2>3
<1>4. CASE ~(list = << >> \/ list[1].args = args)
  <2>1. Len(list) = 1
    BY <1>2, <1>4, EmptySeq
  <2>2. kept = {1}
    <3>1. DOMAIN list = {1}
      BY <1>2, <2>1
    <3> QED
      BY <1>4, <3>1
  <2>3. Queue!Cardinality({1}) = 1
    BY SameCount, FS_Singleton
  <2>4. {i \in kept : i <= 1} = {1}
    BY <2>2
  <2>5. pick(1) = 1
    BY <2>2, <2>3, <2>4
  <2>6. left = [j \in 1..1 |-> list[1]]
    <3>1. 1..1 = {1}
      OBVIOUS
    <3> HIDE DEF kept, pick
    <3> QED
      BY <2>2, <2>3, <2>5, <3>1
  <2>7. left = list
    <3>1. list[1] \in Messages
      BY <2>1, ElementOfSeq
    <3>2. left \in [1..1 -> Messages] /\ left[1] = list[1]
      <4> HIDE DEF left
      <4> QED
        BY <2>6, <3>1
    <3>3. left \in Seq(Messages) /\ Len(left) = 1
      <4> HIDE DEF left
      <4> QED
        BY <3>2, ListOf
    <3>4. \A j \in 1..Len(list) : left[j] = list[j]
      <4> HIDE DEF left
      <4> QED
        BY <2>1, <3>2
    <3> HIDE DEF left
    <3>5. list \in Seq(Messages) /\ left \in Seq(Messages) /\ Len(list) = Len(left)
      BY <2>1, <3>3
    <3>6. \A j \in 1..Len(list) : list[j] = left[j]
      BY <3>4
    <3>7. list = left
      BY <3>5, <3>6, SeqEqual
    <3> QED
      BY <3>7
  <2> HIDE DEF left
  <2> QED
    BY <1>1, <1>4, <2>7
<1> QED
  BY <1>3, <1>4

(* What is still to be done for the microphone is cancelled. *)
LEMMA Cancelled ==
    ASSUME NEW list \in Seq(Messages), Len(list) <= 1
    PROVE  Queue!removeMsg(Queue!removeMsg(list, "plugout"), "plugin") = << >>
<1> DEFINE first == Queue!removeMsg(list, "plugout")
<1>1. << >> \in Seq(Messages) /\ Len(<< >>) = 0
  BY EmptySeq
<1>2. first \in Seq(Messages) /\ Len(first) <= 1 /\ (first = << >> \/ first[1].args = "plugin")
  <2>1. first = IF list = << >> \/ list[1].args = "plugout" THEN << >> ELSE list
    BY RemoveFromOne
  <2>2. list = << >> \/ list[1].args \in {"plugin", "plugout"}
    <3>1. ASSUME list # << >> PROVE list[1] \in Messages
      BY <3>1, EmptySeq, ElementOfSeq
    <3> QED
      BY <3>1 DEF Messages
  <2> HIDE DEF first
  <2> QED
    BY <1>1, <2>1, <2>2
<1> HIDE DEF first
<1>3. Queue!removeMsg(first, "plugin") = IF first = << >> \/ first[1].args = "plugin" THEN << >> ELSE first
  BY <1>2, RemoveFromOne
<1> QED
  BY <1>2, <1>3 DEF first

(* Posting to a list with nothing in it. *)
LEMMA PostedOne ==
    ASSUME NEW args \in {"plugin", "plugout"}, NEW delay \in 0..MicDelay
    PROVE  /\ Queue!Posted(<< >>, args, delay, Now) \in Seq(Messages)
           /\ Len(Queue!Posted(<< >>, args, delay, Now)) = 1
           /\ Queue!Posted(<< >>, args, delay, Now)[1] = [args |-> args, due |-> delay]
<1> DEFINE message == [args |-> args, due |-> delay]
<1>1. message \in Messages /\ Now + delay = delay
  BY DEF Messages, MicDelay, Now
<1>2. << >> \in Seq(Messages) /\ Len(<< >>) = 0
  BY EmptySeq
<1>3. Queue!Posted(<< >>, args, delay, Now) = Append(<< >>, message)
  BY <1>1 DEF Queue!Posted
<1> HIDE DEF message
<1>4. /\ Append(<< >>, message) \in Seq(Messages)
      /\ Len(Append(<< >>, message)) = 0 + 1
      /\ Append(<< >>, message)[0 + 1] = message
  BY <1>1, <1>2, AppendProperties
<1>5. Append(<< >>, message)[1] = message
  BY <1>4
<1> QED
  BY <1>3, <1>4, <1>5 DEF message

(* Whatever is read from a list of one message leaves nothing. *)
LEMMA RemovedOne ==
    ASSUME NEW list \in Seq(Messages), Len(list) <= 1, NEW k \in DOMAIN list
    PROVE  k = 1 /\ Queue!RemoveAt(list, k) = << >>
<1>1. Len(list) = 1 /\ k = 1
  <2>1. Len(list) \in Nat /\ DOMAIN list = 1..Len(list)
    BY LenProperties
  <2>2. k \in 1..Len(list)
    BY <2>1
  <2> QED
    BY <2>1, <2>2
<1>2. SubSeq(list, 1, 0) = << >> /\ SubSeq(list, 2, 1) = << >>
  BY SubSeqEmpty
<1>3. << >> \o << >> = << >>
  BY ConcatEmptySeq, EmptySeq
<1>4. Queue!RemoveAt(list, 1) = SubSeq(list, 1, 0) \o SubSeq(list, 2, 1)
  BY <1>1 DEF Queue!RemoveAt
<1> QED
  BY <1>1, <1>2, <1>3, <1>4

(* A list whose messages are only moved in time. *)
LEMMA MovedInTime ==
    ASSUME NEW list \in Seq(Messages), NEW other,
           DOMAIN other = DOMAIN list,
           \A k \in DOMAIN list : other[k].args = list[k].args /\ other[k] \in Messages,
           other = [k \in DOMAIN list |-> other[k]]
    PROVE  other \in Seq(Messages) /\ Len(other) = Len(list)
<1>1. Len(list) \in Nat /\ DOMAIN list = 1..Len(list)
  BY LenProperties
<1>2. other \in [1..Len(list) -> Messages]
  BY <1>1
<1> QED
  BY <1>1, <1>2, ListOf

-----------------------------------------------------------------------------
(* What the thread does not hold but reads and writes.                     *)
PlainTypes ==
    /\ conditions \in Circumstances /\ changes \in 0..MaxChanges
    /\ plugged \subseteq Plugs /\ noted \subseteq Plugs
    /\ initialised \subseteq Chips
    /\ booted \in BOOLEAN /\ ampUnmute \in BOOLEAN /\ wait \in BOOLEAN /\ shared \in BOOLEAN
    /\ step \in {"boot", "completed", "mic", "hp", "hpin", "hpout", "arc", "get", "sleep", "dead"}
    /\ muted \subseteq Channels

(* At most one message is pending, since each edge cancels the one before. *)
QueueTypes ==
    /\ m_msgList \in Seq(Messages) /\ Len(m_msgList) <= 1
    /\ sincePlug \in 0..MicDelay

LEMMA TypesSplit == AudioTypeOK <=> PlainTypes /\ QueueTypes
  BY DEF AudioTypeOK, PlainTypes, QueueTypes

(* Time: every message comes nearer by as much as the plug has been in     *)
(* longer, or is due.                                                      *)
LEMMA SleepFacts ==
    ASSUME QueueTypes, Sleep(m_msgList)
    PROVE  /\ QueueTypes'
           /\ DOMAIN m_msgList' = DOMAIN m_msgList
           /\ \A k \in DOMAIN m_msgList :
                  /\ m_msgList'[k].args = m_msgList[k].args
                  /\ MicDelay - sincePlug <= m_msgList[k].due => MicDelay - sincePlug' <= m_msgList'[k].due
<1>1. PICK t \in {1, MicDelay} :
          /\ m_msgList' = [k \in DOMAIN m_msgList |->
                               [m_msgList[k] EXCEPT !.due = IF @ > t THEN @ - t ELSE 0]]
          /\ sincePlug' = IF sincePlug + t < MicDelay THEN sincePlug + t ELSE MicDelay
  BY DEF Sleep
<1>2. t \in {1, 2} /\ MicDelay = 2 /\ sincePlug \in 0..2
  BY DEF MicDelay, QueueTypes
<1>3. sincePlug' \in 0..MicDelay
  BY <1>1, <1>2
<1>4. ASSUME NEW k \in DOMAIN m_msgList
      PROVE  /\ m_msgList'[k].args = m_msgList[k].args /\ m_msgList'[k] \in Messages
             /\ MicDelay - sincePlug <= m_msgList[k].due => MicDelay - sincePlug' <= m_msgList'[k].due
  <2>1. m_msgList[k] \in Messages
    BY LenProperties, ElementOfSeq DEF QueueTypes
  <2>2. PICK args \in {"plugin", "plugout"}, due \in 0..4 : m_msgList[k] = [args |-> args, due |-> due]
    BY <2>1 DEF Messages, MicDelay
  <2> DEFINE later == IF due > t THEN due - t ELSE 0
  <2>3. m_msgList'[k] = [args |-> args, due |-> later]
    BY <1>1, <2>2
  <2>4. later \in 0..4
    BY <1>2
  <2>5. sincePlug' = IF sincePlug + t < 2 THEN sincePlug + t ELSE 2
    BY <1>1, <1>2
  <2>6. 2 - sincePlug <= due => 2 - sincePlug' <= later
    BY <1>2, <2>5
  <2> HIDE DEF later
  <2>7. m_msgList'[k] \in Messages
    BY <2>3, <2>4 DEF Messages, MicDelay
  <2> QED
    BY <1>2, <2>2, <2>3, <2>6, <2>7
<1>5. DOMAIN m_msgList' = DOMAIN m_msgList /\ m_msgList' = [k \in DOMAIN m_msgList |-> m_msgList'[k]]
  BY <1>1
<1>6. m_msgList' \in Seq(Messages) /\ Len(m_msgList') = Len(m_msgList)
  BY <1>4, <1>5, MovedInTime DEF QueueTypes
<1> QED
  BY <1>3, <1>4, <1>5, <1>6 DEF QueueTypes

(* However somebody sets the clock, the messages stay what they are.       *)
LEMMA SetClockFacts ==
    ASSUME QueueTypes, SetClock
    PROVE  /\ QueueTypes'
           /\ DOMAIN m_msgList' = DOMAIN m_msgList
           /\ \A k \in DOMAIN m_msgList : m_msgList'[k].args = m_msgList[k].args
<1>1. PICK due \in {0, 2 * MicDelay} :
          m_msgList' = [k \in DOMAIN m_msgList |-> [m_msgList[k] EXCEPT !.due = due]]
  BY DEF SetClock
<1>2. \A k \in DOMAIN m_msgList : m_msgList[k] \in Messages
  BY LenProperties, ElementOfSeq DEF QueueTypes
<1>3. \A k \in DOMAIN m_msgList : m_msgList'[k].args = m_msgList[k].args /\ m_msgList'[k] \in Messages
  BY <1>1, <1>2 DEF Messages, MicDelay
<1>4. DOMAIN m_msgList' = DOMAIN m_msgList /\ m_msgList' = [k \in DOMAIN m_msgList |-> m_msgList'[k]]
  BY <1>1
<1>5. m_msgList' \in Seq(Messages) /\ Len(m_msgList') = Len(m_msgList)
  BY <1>3, <1>4, MovedInTime DEF QueueTypes
<1> QED
  BY <1>3, <1>4, <1>5 DEF QueueTypes, SetClock, thread

(* The message of an edge is the only one that is left.                    *)
LEMMA MicDetFacts ==
    ASSUME QueueTypes, MicDet, Edge("mic")
    PROVE  /\ QueueTypes' /\ Len(m_msgList') = 1
           /\ "mic" \in plugged =>
                  m_msgList'[1] = [args |-> "plugin", due |-> MicDelay] /\ sincePlug' = 0 /\ "mic" \in noted'
           /\ "mic" \notin plugged => m_msgList'[1].args = "plugout"
<1>1. Queue!removeMsg(Queue!removeMsg(m_msgList, "plugout"), "plugin") = << >>
  BY Cancelled DEF QueueTypes
<1>2. /\ noted' = Note("mic")
      /\ m_msgList' = IF "mic" \in plugged THEN Queue!Posted(<< >>, "plugin", MicDelay, Now)
                      ELSE Queue!Posted(<< >>, "plugout", 0, Now)
      /\ sincePlug' = IF "mic" \in plugged THEN 0 ELSE sincePlug
  BY <1>1 DEF MicDet
<1>3. MicDelay \in 0..MicDelay /\ 0 \in 0..MicDelay
  BY DEF MicDelay
<1>4. CASE "mic" \in plugged
  <2>1. m_msgList' \in Seq(Messages) /\ Len(m_msgList') = 1
        /\ m_msgList'[1] = [args |-> "plugin", due |-> MicDelay]
    BY <1>2, <1>3, <1>4, PostedOne
  <2>2. sincePlug' = 0 /\ "mic" \in noted'
    BY <1>2, <1>4 DEF Note
  <2>3. QueueTypes'
    BY <1>3, <2>1, <2>2 DEF QueueTypes
  <2> QED
    BY <1>4, <2>1, <2>2, <2>3
<1>5. CASE "mic" \notin plugged
  <2>1. m_msgList' \in Seq(Messages) /\ Len(m_msgList') = 1
        /\ m_msgList'[1] = [args |-> "plugout", due |-> 0]
    BY <1>2, <1>3, <1>5, PostedOne
  <2>2. sincePlug' = sincePlug
    BY <1>2, <1>5
  <2>3. QueueTypes'
    BY <2>1, <2>2 DEF QueueTypes
  <2>4. m_msgList'[1].args = "plugout"
    BY <2>1
  <2> QED
    BY <1>5, <2>1, <2>3, <2>4
<1> QED
  BY <1>4, <1>5

(* A message that is read was the only one.                                *)
LEMMA GetMsgFacts ==
    ASSUME QueueTypes, GetMsg
    PROVE  /\ QueueTypes' /\ wait' = wait
           /\ \/ m_msgList' = m_msgList /\ muted' = muted
              \/ /\ m_msgList' = << >>
                 /\ 1 \in DOMAIN m_msgList /\ m_msgList[1].due <= 0
                 /\ \/ m_msgList[1].args = "plugin" /\ muted' = muted \ {"mic"}
                    \/ m_msgList[1].args = "plugout" /\ muted' = muted \union {"mic"}
<1>1. CASE Queue!getMsgNone(Now) /\ UNCHANGED muted
  BY <1>1 DEF Queue!getMsgNone, Queue!queue, GetMsg, QueueTypes
<1>2. ASSUME NEW args \in {"plugin", "plugout"}, Queue!getMsg(args, Now),
             muted' = IF args = "plugin" THEN muted \ {"mic"} ELSE muted \union {"mic"}
      PROVE  /\ QueueTypes' /\ wait' = wait /\ m_msgList' = << >>
             /\ 1 \in DOMAIN m_msgList /\ m_msgList[1].due <= 0
             /\ \/ m_msgList[1].args = "plugin" /\ muted' = muted \ {"mic"}
                \/ m_msgList[1].args = "plugout" /\ muted' = muted \union {"mic"}
  <2>1. PICK k \in DOMAIN m_msgList :
            /\ Queue!Due(k, Now) /\ args = m_msgList[k].args
            /\ m_msgList' = Queue!RemoveAt(m_msgList, k) /\ wait' = wait
    BY <1>2 DEF Queue!getMsg
  <2>2. k = 1 /\ m_msgList' = << >>
    BY <2>1, RemovedOne DEF QueueTypes
  <2>3. << >> \in Seq(Messages) /\ Len(<< >>) = 0
    BY EmptySeq
  <2>4. m_msgList[1].due <= 0
    BY <2>1, <2>2 DEF Queue!Due, Now
  <2>5. QueueTypes'
    BY <2>2, <2>3 DEF QueueTypes, GetMsg
  <2>6. \/ m_msgList[1].args = "plugin" /\ muted' = muted \ {"mic"}
        \/ m_msgList[1].args = "plugout" /\ muted' = muted \union {"mic"}
    BY <1>2, <2>1, <2>2
  <2> QED
    BY <2>1, <2>2, <2>4, <2>5, <2>6
<1> QED
  BY <1>1, <1>2 DEF GetMsg

LEMMA AudioTypesInit ==
    ASSUME Init
    PROVE  AudioTypeOK
<1>1. << >> \in Seq(Messages) /\ Len(<< >>) = 0
  BY EmptySeq
<1>2. QueueTypes
  BY <1>1 DEF Init, Queue!InitQueue, QueueTypes, MicDelay
<1>3. conditions \in Circumstances /\ changes \in 0..MaxChanges
  BY AudioAssumption DEF AudioAssumption, Init
<1>4. plugged \subseteq Plugs /\ noted \subseteq Plugs /\ initialised \subseteq Chips /\ muted \subseteq Channels
  BY DEF Init
<1>5. PlainTypes
  BY <1>3, <1>4 DEF Init, Queue!InitQueue, PlainTypes
<1> QED
  BY <1>2, <1>5, TypesSplit

LEMMA AudioTypesStep ==
    ASSUME AudioTypeOK, [Next]_vars
    PROVE  AudioTypeOK'
<1> USE TypesSplit
<1>0. PlainTypes /\ QueueTypes
  OBVIOUS
<1>t. ASSUME PlainTypes', QueueTypes' PROVE AudioTypeOK'
  BY <1>t DEF AudioTypeOK, PlainTypes, QueueTypes
<1>q. ASSUME UNCHANGED <<m_msgList, sincePlug>> PROVE QueueTypes'
  BY <1>0, <1>q DEF QueueTypes
<1>1. CASE UNCHANGED vars
  BY <1>0, <1>1, <1>t DEF vars, outside, thread, PlainTypes, QueueTypes
<1>2. ASSUME NEW plug \in Plugs, Move(plug) PROVE AudioTypeOK'
  <2>1. PlainTypes'
    BY <1>0, <1>2, AudioAssumption DEF Move, thread, PlainTypes
  <2> QED
    BY <1>2, <2>1, <1>q, <1>t DEF Move
<1>3. ASSUME NEW chip \in Chips, Initialise(chip) PROVE AudioTypeOK'
  <2>1. PlainTypes'
    BY <1>0, <1>3 DEF Initialise, thread, PlainTypes
  <2> QED
    BY <1>3, <2>1, <1>q, <1>t DEF Initialise
<1>4. CASE CompleteBoot
  <2>1. PlainTypes'
    BY <1>0, <1>4 DEF CompleteBoot, thread, PlainTypes
  <2> QED
    BY <1>4, <2>1, <1>q, <1>t DEF CompleteBoot
<1>5. CASE SetClock
  <2>1. PlainTypes'
    BY <1>0, <1>5, AudioAssumption DEF SetClock, thread, outside, PlainTypes
  <2> QED
    BY <1>0, <1>5, <2>1, SetClockFacts, <1>t
<1>6. CASE BootUnmute
  <2>1. PlainTypes'
    BY <1>0, <1>6 DEF BootUnmute, outside, PlainTypes, Channels
  <2> QED
    BY <1>6, <2>1, <1>q, <1>t DEF BootUnmute
<1>7. CASE BootTest
  <2>1. PlainTypes'
    BY <1>0, <1>7 DEF BootTest, outside, thread, PlainTypes
  <2> QED
    BY <1>7, <2>1, <1>q, <1>t DEF BootTest
<1>8. CASE MicDet
  <2>1. PlainTypes'
    BY <1>0, <1>8 DEF MicDet, outside, PlainTypes, Note, Plugs
  <2>2. QueueTypes'
    <3>1. CASE Edge("mic")
      BY <1>0, <1>8, <3>1, MicDetFacts
    <3>2. CASE ~Edge("mic")
      BY <1>8, <3>2, <1>q DEF MicDet
    <3> QED
      BY <3>1, <3>2
  <2> QED
    BY <2>1, <2>2, <1>t
<1>9. CASE HpDet
  <2>1. PlainTypes'
    BY <1>0, <1>9 DEF HpDet, outside, PlainTypes, Note, Plugs, Channels
  <2> QED
    BY <1>9, <2>1, <1>q, <1>t DEF HpDet
<1>10. CASE HpOpen
  <2>1. PlainTypes'
    BY <1>0, <1>10 DEF HpOpen, outside, PlainTypes
  <2> QED
    BY <1>0, <1>10, <2>1, SleepFacts, <1>t DEF HpOpen
<1>11. CASE ArcDet
  <2>1. PlainTypes'
    BY <1>0, <1>11 DEF ArcDet, outside, PlainTypes, Note, Plugs, Channels
  <2> QED
    BY <1>11, <2>1, <1>q, <1>t DEF ArcDet
<1>12. CASE GetMsg
  <2>1. QueueTypes' /\ wait' = wait /\ muted' \in {muted, muted \ {"mic"}, muted \union {"mic"}}
    BY <1>0, <1>12, GetMsgFacts
  <2>2. PlainTypes'
    BY <1>0, <1>12, <2>1 DEF GetMsg, outside, PlainTypes, Channels
  <2> QED
    BY <2>1, <2>2, <1>t
<1>13. CASE Rest
  <2>1. PlainTypes'
    BY <1>0, <1>13 DEF Rest, outside, thread, PlainTypes
  <2> QED
    BY <1>0, <1>13, <2>1, SleepFacts, <1>t DEF Rest
<1> QED
  BY <1>1, <1>2, <1>3, <1>4, <1>5, <1>6, <1>7, <1>8, <1>9, <1>10, <1>11, <1>12, <1>13 DEF Next, Poll

(* The types of AudioDetect, and that no more than one message is pending: *)
(* processMicDet cancels what an earlier edge has posted.                  *)
THEOREM AudioTypeCorrect == Spec => []AudioTypeOK
<1>1. Init => AudioTypeOK
  BY AudioTypesInit
<1>2. AudioTypeOK /\ [Next]_vars => AudioTypeOK'
  BY AudioTypesStep
<1> QED
  BY <1>1, <1>2, PTL DEF Spec

-----------------------------------------------------------------------------
(* A message that opens the microphone is of a plug that is still known to *)
(* be in, and waits for what the second since the plug lacks.              *)
MicInv ==
    "clock" \notin conditions =>
        \A k \in DOMAIN m_msgList :
            m_msgList[k].args = "plugin" => "mic" \in noted /\ MicDelay - sincePlug <= m_msgList[k].due

(* All that moves no message and does not note the microphone.             *)
LEMMA MicKept ==
    ASSUME MicInv, UNCHANGED <<conditions, m_msgList, sincePlug>>, "mic" \in noted => "mic" \in noted'
    PROVE  MicInv'
  BY DEF MicInv

LEMMA MicStep ==
    ASSUME AudioTypeOK, MicInv, [Next]_vars
    PROVE  MicInv'
<1>0. QueueTypes /\ noted \subseteq Plugs
  BY DEF AudioTypeOK, QueueTypes
<1>1. CASE UNCHANGED vars
  BY <1>1, MicKept DEF vars, outside, thread
<1>2. ASSUME NEW plug \in Plugs, Move(plug) PROVE MicInv'
  BY <1>2, MicKept DEF Move, thread
<1>3. ASSUME NEW chip \in Chips, Initialise(chip) PROVE MicInv'
  BY <1>3, MicKept DEF Initialise, thread
<1>4. CASE CompleteBoot
  BY <1>4, MicKept DEF CompleteBoot, thread
<1>5. CASE SetClock
  BY <1>5 DEF SetClock, outside, MicInv
<1>6. CASE BootUnmute
  BY <1>6, MicKept DEF BootUnmute, outside
<1>7. CASE BootTest
  BY <1>7, MicKept DEF BootTest, outside, thread
<1>8. CASE MicDet
  <2>1. CASE ~Edge("mic")
    BY <1>8, <2>1, MicKept DEF MicDet, outside
  <2>2. CASE Edge("mic")
    <3>1. /\ QueueTypes' /\ Len(m_msgList') = 1
          /\ "mic" \in plugged =>
                 m_msgList'[1] = [args |-> "plugin", due |-> MicDelay] /\ sincePlug' = 0 /\ "mic" \in noted'
          /\ "mic" \notin plugged => m_msgList'[1].args = "plugout"
      BY <1>0, <1>8, <2>2, MicDetFacts
    <3>2. \A k \in DOMAIN m_msgList' : k = 1
      <4>1. m_msgList' \in Seq(Messages)
        BY <3>1 DEF QueueTypes
      <4>2. DOMAIN m_msgList' = 1..1
        BY <3>1, <4>1, LenProperties
      <4> QED
        BY <4>2
    <3> QED
      BY <3>1, <3>2 DEF MicInv, MicDelay
  <2> QED
    BY <2>1, <2>2
<1>9. CASE HpDet
  BY <1>0, <1>9, MicKept DEF HpDet, outside, Note
<1>10. CASE HpOpen
  BY <1>0, <1>10, SleepFacts DEF HpOpen, outside, MicInv
<1>11. CASE ArcDet
  BY <1>0, <1>11, MicKept DEF ArcDet, outside, Note
<1>12. CASE GetMsg
  <2>1. conditions' = conditions /\ sincePlug' = sincePlug /\ noted' = noted
    BY <1>12 DEF GetMsg, outside
  <2>2. m_msgList' = m_msgList \/ m_msgList' = << >>
    BY <1>0, <1>12, GetMsgFacts
  <2>3. DOMAIN << >> = {}
    OBVIOUS
  <2> QED
    BY <2>1, <2>2, <2>3 DEF MicInv
<1>13. CASE Rest
  BY <1>0, <1>13, SleepFacts DEF Rest, outside, thread, MicInv
<1> QED
  BY <1>1, <1>2, <1>3, <1>4, <1>5, <1>6, <1>7, <1>8, <1>9, <1>10, <1>11, <1>12, <1>13 DEF Next, Poll

(* Only a message opens the microphone.                                    *)
LEMMA OnlyMessageOpens ==
    ASSUME [Next]_vars, "mic" \in muted, "mic" \notin muted'
    PROVE  GetMsg
<1>1. CASE UNCHANGED vars
  BY <1>1 DEF vars, thread
<1>2. ASSUME NEW plug \in Plugs, Move(plug) PROVE FALSE
  BY <1>2 DEF Move, thread
<1>3. ASSUME NEW chip \in Chips, Initialise(chip) PROVE FALSE
  BY <1>3 DEF Initialise, thread
<1>4. ASSUME CompleteBoot \/ SetClock \/ BootTest \/ Rest PROVE FALSE
  BY <1>4 DEF CompleteBoot, SetClock, BootTest, Rest, thread
<1>5. ASSUME BootUnmute PROVE FALSE
  BY <1>5 DEF BootUnmute
<1>6. ASSUME MicDet PROVE FALSE
  BY <1>6 DEF MicDet
<1>7. ASSUME HpDet PROVE FALSE
  BY <1>7 DEF HpDet
<1>8. ASSUME HpOpen PROVE FALSE
  BY <1>8 DEF HpOpen
<1>9. ASSUME ArcDet PROVE FALSE
  BY <1>9 DEF ArcDet
<1> QED
  BY <1>1, <1>2, <1>3, <1>4, <1>5, <1>6, <1>7, <1>8, <1>9 DEF Next, Poll

(* The microphone opens only while it is known to be plugged in and a      *)
(* second after it was, unless somebody set the wall clock.                *)
THEOREM MicNotEarlyTheorem == Spec => MicNotEarly
<1> DEFINE Early == /\ "mic" \in muted /\ "mic" \notin muted'
                    /\ "clock" \notin conditions
                    => "mic" \in noted /\ sincePlug = MicDelay
<1>1. Init => MicInv
  BY DEF Init, Queue!InitQueue, MicInv
<1>2. AudioTypeOK /\ MicInv /\ [Next]_vars => MicInv'
  BY MicStep
<1>3. AudioTypeOK /\ MicInv /\ [Next]_vars => Early
  <2> SUFFICES ASSUME AudioTypeOK, MicInv, [Next]_vars,
                      "mic" \in muted, "mic" \notin muted', "clock" \notin conditions
               PROVE  "mic" \in noted /\ sincePlug = MicDelay
    OBVIOUS
  <2>1. GetMsg
    BY OnlyMessageOpens
  <2>2. QueueTypes
    BY DEF AudioTypeOK, QueueTypes
  <2>3. 1 \in DOMAIN m_msgList /\ m_msgList[1].due <= 0 /\ m_msgList[1].args = "plugin"
    BY <2>1, <2>2, GetMsgFacts
  <2>4. "mic" \in noted /\ MicDelay - sincePlug <= m_msgList[1].due
    BY <2>3 DEF MicInv
  <2>5. m_msgList[1] \in Messages
    BY <2>2, <2>3, LenProperties, ElementOfSeq DEF QueueTypes
  <2> QED
    BY <2>2, <2>3, <2>4, <2>5 DEF QueueTypes, Messages, MicDelay
<1>4. Spec => []AudioTypeOK
  BY AudioTypeCorrect
<1>5. AudioTypeOK /\ MicInv /\ [Next]_vars => [Early]_vars
  BY <1>3
<1> QED
  BY <1>1, <1>2, <1>4, <1>5, PTL DEF Spec, MicNotEarly

-----------------------------------------------------------------------------
(* The message that is pending says what has been noted of the microphone; *)
(* without one, the microphone is open if it is noted to be plugged in.    *)
MicAgrees ==
    IF 1 \in DOMAIN m_msgList
    THEN m_msgList[1].args = IF "mic" \in noted THEN "plugin" ELSE "plugout"
    ELSE "mic" \in muted <=> "mic" \notin noted

(* All that moves neither message nor microphone.                          *)
LEMMA MicAgreesKept ==
    ASSUME MicAgrees,
           DOMAIN m_msgList' = DOMAIN m_msgList,
           \A k \in DOMAIN m_msgList : m_msgList'[k].args = m_msgList[k].args,
           "mic" \in noted' <=> "mic" \in noted, "mic" \in muted' <=> "mic" \in muted
    PROVE  MicAgrees'
  BY DEF MicAgrees

LEMMA MicAgreesStep ==
    ASSUME AudioTypeOK, MicAgrees, [Next]_vars
    PROVE  MicAgrees'
<1>0. QueueTypes /\ noted \subseteq Plugs
  BY DEF AudioTypeOK, QueueTypes
<1>k. ASSUME UNCHANGED m_msgList, "mic" \in noted' <=> "mic" \in noted, "mic" \in muted' <=> "mic" \in muted
      PROVE  MicAgrees'
  BY <1>k DEF MicAgrees
<1>1. CASE UNCHANGED vars
  BY <1>1, <1>k DEF vars, thread
<1>2. ASSUME NEW plug \in Plugs, Move(plug) PROVE MicAgrees'
  BY <1>2, <1>k DEF Move, thread
<1>3. ASSUME NEW chip \in Chips, Initialise(chip) PROVE MicAgrees'
  BY <1>3, <1>k DEF Initialise, thread
<1>4. CASE CompleteBoot \/ BootTest
  BY <1>4, <1>k DEF CompleteBoot, BootTest, thread
<1>5. CASE SetClock
  BY <1>0, <1>5, SetClockFacts, MicAgreesKept DEF SetClock, thread
<1>6. CASE BootUnmute
  BY <1>6, <1>k DEF BootUnmute
<1>7. CASE MicDet
  <2>1. CASE ~Edge("mic")
    BY <1>7, <2>1, <1>k DEF MicDet
  <2>2. CASE Edge("mic")
    <3>1. /\ QueueTypes' /\ Len(m_msgList') = 1
          /\ "mic" \in plugged => m_msgList'[1].args = "plugin"
          /\ "mic" \notin plugged => m_msgList'[1].args = "plugout"
      BY <1>0, <1>7, <2>2, MicDetFacts
    <3>2. 1 \in DOMAIN m_msgList'
      BY <3>1, LenProperties DEF QueueTypes
    <3>3. "mic" \in noted' <=> "mic" \in plugged
      BY <1>7, <2>2 DEF MicDet, Note
    <3> QED
      BY <3>1, <3>2, <3>3 DEF MicAgrees
  <2> QED
    BY <2>1, <2>2
<1>8. CASE HpDet
  BY <1>8, <1>k DEF HpDet, Note
<1>9. CASE HpOpen
  BY <1>0, <1>9, SleepFacts, MicAgreesKept DEF HpOpen
<1>10. CASE ArcDet
  BY <1>10, <1>k DEF ArcDet, Note
<1>11. CASE GetMsg
  <2>1. noted' = noted
    BY <1>11 DEF GetMsg
  <2>2. CASE m_msgList' = m_msgList /\ muted' = muted
    BY <2>1, <2>2, <1>k
  <2>3. CASE /\ m_msgList' = << >> /\ 1 \in DOMAIN m_msgList
             /\ \/ m_msgList[1].args = "plugin" /\ muted' = muted \ {"mic"}
                \/ m_msgList[1].args = "plugout" /\ muted' = muted \union {"mic"}
    <3>1. 1 \notin DOMAIN m_msgList'
      BY <2>3
    <3> QED
      BY <2>1, <2>3, <3>1 DEF MicAgrees
  <2> QED
    BY <1>0, <1>11, <2>2, <2>3, GetMsgFacts
<1>12. CASE Rest
  BY <1>0, <1>12, SleepFacts, MicAgreesKept DEF Rest, thread
<1> QED
  BY <1>1, <1>2, <1>3, <1>4, <1>5, <1>6, <1>7, <1>8, <1>9, <1>10, <1>11, <1>12 DEF Next, Poll

(* However fast the microphone is plugged and unplugged, and whatever the  *)
(* clock does, no message of an earlier state of the plug is ever left: a  *)
(* thread with nothing pending has done what it noted last.  This is what  *)
(* MicFollows rests on.                                                    *)
THEOREM MicAgreesTheorem == Spec => []MicAgrees
<1>1. Init => MicAgrees
  BY DEF Init, Queue!InitQueue, Channels, MicAgrees
<1>2. AudioTypeOK /\ MicAgrees /\ [Next]_vars => MicAgrees'
  BY MicAgreesStep
<1> QED
  BY <1>1, <1>2, AudioTypeCorrect, PTL DEF Spec

-----------------------------------------------------------------------------
(* Whether a headphone closes the speaker of this product.                 *)
Closes == conditions \intersect {"lineout", "fixed"} = {}

(* What closes the speaker now: what is noted, and a headphone that is     *)
(* just being taken out.                                                   *)
Silenced == "arc" \in noted \/ (Closes /\ ("hp" \in noted \/ step = "hpout"))

LEMMA SilencedNoted ==
    ASSUME step # "hpout"
    PROVE  Silenced <=> noted \intersect Silencers # {}
<1>1. CASE Closes
  <2>1. Silencers = {"arc", "hp"}
    BY <1>1 DEF Closes, Silencers
  <2> QED
    BY <1>1, <2>1 DEF Silenced
<1>2. CASE ~Closes
  <2>1. Silencers = {"arc"}
    BY <1>2 DEF Closes, Silencers
  <2> QED
    BY <1>2, <2>1 DEF Silenced
<1> QED
  BY <1>1, <1>2

SpeakerInv ==
    /\ noted \subseteq Plugs /\ shared \in BOOLEAN /\ ampUnmute \in BOOLEAN /\ booted \in BOOLEAN
    /\ SharedInv
    /\ "early" \notin conditions =>
           /\ BootInv
           /\ ampUnmute /\ ~shared =>
                  /\ "speaker" \in muted <=> Silenced
                  /\ step = "hpout" => "hp" \notin noted /\ "arc" \notin noted

LEMMA SpeakerKept ==
    ASSUME SpeakerInv,
           UNCHANGED <<conditions, shared, ampUnmute>>,
           "speaker" \in muted' <=> "speaker" \in muted,
           noted' \in {noted, noted \union {"mic"}, noted \ {"mic"}},
           booted' = booted \/ (booted' = TRUE /\ ("early" \in conditions \/ ampUnmute)),
           \/ step' = step /\ noted' = noted
           \/ step \in {"boot", "completed"} /\ step' \in {"boot", "completed"} /\ noted' = noted
           \/ step = "completed" /\ step' = "mic" /\ booted /\ noted' = noted
           \/ step \notin {"boot", "completed", "hpin", "hpout"} /\ step' \notin {"boot", "completed", "hpin", "hpout"}
    PROVE  SpeakerInv'
<1>1. ("hp" \in noted' <=> "hp" \in noted) /\ ("arc" \in noted' <=> "arc" \in noted) /\ noted' \subseteq Plugs
  BY DEF SpeakerInv, Plugs
<1>2. SharedInv' /\ shared' \in BOOLEAN /\ ampUnmute' \in BOOLEAN /\ booted' \in BOOLEAN
  BY <1>1 DEF SpeakerInv, SharedInv
<1>3. ASSUME "early" \notin conditions PROVE BootInv'
  BY <1>3 DEF SpeakerInv, BootInv
<1>4. step' = "hpout" <=> step = "hpout"
  OBVIOUS
<1>5. Silenced' <=> Silenced
  BY <1>1, <1>4 DEF Silenced, Closes
<1> QED
  BY <1>1, <1>2, <1>3, <1>4, <1>5 DEF SpeakerInv

LEMMA SpeakerStep ==
    ASSUME SpeakerInv, [Next]_vars
    PROVE  SpeakerInv'
<1>1. CASE UNCHANGED vars
  BY <1>1, SpeakerKept DEF vars, outside, thread
<1>2. ASSUME NEW plug \in Plugs, Move(plug) PROVE SpeakerInv'
  BY <1>2, SpeakerKept DEF Move, thread
<1>3. ASSUME NEW chip \in Chips, Initialise(chip) PROVE SpeakerInv'
  BY <1>3, SpeakerKept DEF Initialise, thread
<1>4. CASE CompleteBoot
  BY <1>4, SpeakerKept DEF CompleteBoot, thread
<1>5. CASE SetClock
  BY <1>5, SpeakerKept DEF SetClock, thread, outside
<1>6. CASE BootUnmute
  <2>1. /\ step = "boot" /\ step' = "completed" /\ UNCHANGED <<conditions, noted, shared, booted>>
    BY <1>6 DEF BootUnmute, outside
  <2>2. CASE UNCHANGED <<muted, ampUnmute>>
    BY <2>1, <2>2, SpeakerKept
  <2>3. CASE muted' = (muted \union {"headphone"}) \ {"speaker"} /\ ampUnmute' = TRUE
    <3>1. "speaker" \notin muted'
      BY <2>3
    <3>2. "early" \notin conditions => BootInv' /\ noted = {}
      BY <2>1, <2>3 DEF SpeakerInv, BootInv
    <3>3. "early" \notin conditions => ~Silenced'
      BY <2>1, <3>2 DEF Silenced
    <3> QED
      BY <2>1, <2>3, <3>1, <3>2, <3>3 DEF SpeakerInv, SharedInv
  <2> QED
    BY <1>6, <2>2, <2>3 DEF BootUnmute
<1>7. CASE BootTest
  BY <1>7, SpeakerKept DEF BootTest, outside, thread
<1>8. CASE MicDet
  BY <1>8, SpeakerKept DEF MicDet, outside, Note
<1>9. CASE HpDet
  <2>1. /\ step = "hp" /\ UNCHANGED <<conditions, booted, ampUnmute>>
        /\ noted' = Note("hp") /\ noted' \subseteq Plugs
        /\ "arc" \in noted' <=> "arc" \in noted
        /\ step' \in {"arc", "hpin", "hpout"}
    BY <1>9 DEF HpDet, outside, Note, SpeakerInv, Plugs
  <2>2. shared' \in BOOLEAN /\ (~shared' => ~shared) /\ SharedInv'
    BY <1>9 DEF HpDet, SharedInv, SpeakerInv
  <2>3. ASSUME "early" \notin conditions PROVE BootInv'
    BY <2>1, <2>3 DEF SpeakerInv, BootInv
  <2>4. ASSUME "early" \notin conditions, ampUnmute, ~shared'
        PROVE  /\ "speaker" \in muted' <=> Silenced'
               /\ step' = "hpout" => "hp" \notin noted' /\ "arc" \notin noted'
    <3>1. ("speaker" \in muted <=> Silenced) /\ SharedInv /\ ~shared
      BY <2>2, <2>4 DEF SpeakerInv
    <3>2. Closes' = Closes
      BY <2>1 DEF Closes
    <3>3. CASE ~Edge("hp") \/ ~Detected
      <4>1. step' = "arc" /\ UNCHANGED muted
        BY <1>9, <3>3 DEF HpDet
      <4>2. Closes => ("hp" \in noted' <=> "hp" \in noted)
        BY <2>1, <3>3 DEF Edge, Note, Detected, Closes
      <4> QED
        BY <2>1, <3>1, <3>2, <4>1, <4>2 DEF Silenced
    <3>4. CASE Edge("hp") /\ Detected /\ "hp" \in plugged
      <4>1. /\ step' = "hpin" /\ "hp" \in noted' /\ "hp" \notin noted
            /\ muted' = muted \union (IF "lineout" \in conditions THEN {} ELSE {"speaker"})
        BY <1>9, <3>4 DEF HpDet, Edge, Note
      <4>2. CASE Closes
        BY <4>1, <4>2, <3>2 DEF Silenced, Closes
      <4>3. CASE ~Closes
        <5>1. muted' = muted
          BY <3>4, <4>1, <4>3 DEF Closes, Detected
        <5> QED
          BY <2>1, <3>1, <3>2, <4>1, <4>3, <5>1 DEF Silenced
      <4> QED
        BY <4>2, <4>3
    <3>5. CASE Edge("hp") /\ Detected /\ "hp" \notin plugged
      <4>1. /\ step' = "hpout" /\ "hp" \notin noted' /\ "hp" \in noted
            /\ muted' = muted \union {"headphone"}
        BY <1>9, <3>5 DEF HpDet, Edge, Note
      <4>2. "arc" \notin noted
        BY <3>1, <4>1 DEF SharedInv
      <4> QED
        BY <2>1, <3>1, <3>2, <4>1, <4>2 DEF Silenced
    <3> QED
      BY <3>3, <3>4, <3>5
  <2> QED
    BY <2>1, <2>2, <2>3, <2>4 DEF SpeakerInv
<1>10. CASE HpOpen
  <2>1. /\ step' = "arc" /\ UNCHANGED <<conditions, booted, ampUnmute, noted, shared>>
    BY <1>10 DEF HpOpen, outside
  <2>2. SharedInv'
    BY <2>1 DEF SpeakerInv, SharedInv
  <2>3. ASSUME "early" \notin conditions PROVE BootInv'
    BY <1>10, <2>1, <2>3 DEF HpOpen, SpeakerInv, BootInv
  <2>4. ASSUME "early" \notin conditions, ampUnmute, ~shared PROVE "speaker" \in muted' <=> Silenced'
    <3>1. ("speaker" \in muted <=> Silenced) /\ (step = "hpout" => "hp" \notin noted /\ "arc" \notin noted)
      BY <2>4 DEF SpeakerInv
    <3>2. CASE step = "hpin" /\ muted' = muted \ {"headphone"}
      BY <2>1, <3>1, <3>2 DEF Silenced, Closes
    <3>3. CASE step = "hpout" /\ muted' = muted \ {"speaker"}
      BY <2>1, <3>1, <3>3 DEF Silenced, Closes
    <3> QED
      BY <1>10, <3>2, <3>3 DEF HpOpen
  <2> QED
    BY <2>1, <2>2, <2>3, <2>4 DEF SpeakerInv
<1>11. CASE ArcDet
  <2>1. /\ step = "arc" /\ step' = "get" /\ UNCHANGED <<conditions, booted, ampUnmute>>
        /\ noted' = Note("arc") /\ noted' \subseteq Plugs
        /\ "hp" \in noted' <=> "hp" \in noted
    BY <1>11 DEF ArcDet, outside, Note, SpeakerInv, Plugs
  <2>2. shared' \in BOOLEAN /\ (~shared' => ~shared) /\ SharedInv'
    BY <1>11 DEF ArcDet, SharedInv, SpeakerInv
  <2>3. ASSUME "early" \notin conditions PROVE BootInv'
    BY <2>1, <2>3 DEF SpeakerInv, BootInv
  <2>4. ASSUME "early" \notin conditions, ampUnmute, ~shared' PROVE "speaker" \in muted' <=> Silenced'
    <3>1. ("speaker" \in muted <=> Silenced) /\ SharedInv /\ ~shared
      BY <2>2, <2>4 DEF SpeakerInv
    <3>2. Closes' = Closes
      BY <2>1 DEF Closes
    <3>3. CASE ~Edge("arc")
      <4>1. UNCHANGED muted /\ ("arc" \in noted' <=> "arc" \in noted)
        BY <1>11, <2>1, <3>3 DEF ArcDet, Edge, Note
      <4> QED
        BY <2>1, <3>1, <3>2, <4>1 DEF Silenced
    <3>4. CASE Edge("arc") /\ "arc" \in plugged
      <4>1. "arc" \in noted' /\ "speaker" \in muted'
        BY <1>11, <2>1, <3>4 DEF ArcDet, Note
      <4> QED
        BY <4>1 DEF Silenced
    <3>5. CASE Edge("arc") /\ "arc" \notin plugged
      <4>1. "arc" \in noted /\ "arc" \notin noted' /\ "speaker" \notin muted'
        BY <1>11, <2>1, <3>5 DEF ArcDet, Edge, Note
      <4>2. "hp" \notin noted
        BY <3>1, <4>1 DEF SharedInv
      <4> QED
        BY <2>1, <4>1, <4>2 DEF Silenced
    <3> QED
      BY <3>3, <3>4, <3>5
  <2> QED
    BY <2>1, <2>2, <2>3, <2>4 DEF SpeakerInv
<1>12. CASE GetMsg
  <2>1. "speaker" \in muted' <=> "speaker" \in muted
    BY <1>12 DEF GetMsg
  <2> QED
    BY <1>12, <2>1, SpeakerKept DEF GetMsg, outside
<1>13. CASE Rest
  BY <1>13, SpeakerKept DEF Rest, outside, thread
<1> QED
  BY <1>1, <1>2, <1>3, <1>4, <1>5, <1>6, <1>7, <1>8, <1>9, <1>10, <1>11, <1>12, <1>13 DEF Next, Poll

(* Once it has opened the speaker, the thread keeps it closed while, and   *)
(* only while, it has noted something that closes the speaker, except in   *)
(* the half second in which it takes a headphone out - as long as ARC and  *)
(* a headphone that closes the speaker were never noted together, and the  *)
(* boot did not overtake it.  This is what SpeakerFollows rests on.        *)
SpeakerAgrees ==
    "early" \notin conditions /\ ~shared /\ ampUnmute /\ step # "hpout" =>
        (("speaker" \in muted) = (noted \intersect Silencers # {}))

THEOREM SpeakerAgreesTheorem == Spec => []SpeakerAgrees
<1>1. Init => SpeakerInv
  <2> SUFFICES ASSUME Init PROVE SpeakerInv
    OBVIOUS
  <2>1. noted = {} /\ shared = FALSE /\ ampUnmute = FALSE /\ booted = FALSE /\ step = "boot" /\ "speaker" \in muted
    BY DEF Init, Channels
  <2> QED
    BY <2>1 DEF SpeakerInv, SharedInv, BootInv
<1>2. SpeakerInv /\ [Next]_vars => SpeakerInv'
  BY SpeakerStep
<1>3. SpeakerInv => SpeakerAgrees
  <2> SUFFICES ASSUME SpeakerInv, "early" \notin conditions, ~shared, ampUnmute, step # "hpout"
               PROVE  "speaker" \in muted <=> noted \intersect Silencers # {}
    BY DEF SpeakerAgrees
  <2> QED
    BY SilencedNoted DEF SpeakerInv
<1> QED
  BY <1>1, <1>2, <1>3, PTL DEF Spec
=============================================================================
