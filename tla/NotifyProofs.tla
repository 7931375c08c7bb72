---------------------------- MODULE NotifyProofs ----------------------------
(***************************************************************************)
(* Theorems about Notify for any callbacks, clients and number of events:  *)
(* types, and that the walk through the list does what a list that moves   *)
(* allows.                                                                 *)
(***************************************************************************)
EXTENDS Notify, FiniteSetTheorems, TLAPS

(* The place of a callback in a list, counted from 0. *)
Below(S, c) == {d \in S : d < c}
Rank(S, c) == Cardinality(Below(S, c))

LEMMA Sizes ==
    ASSUME NEW S, S \subseteq Callbacks
    PROVE  /\ IsFiniteSet(S) /\ Cardinality(S) \in Nat /\ Cardinality(S) <= Cardinality(Callbacks)
           /\ Cardinality(Callbacks) \in Nat
           /\ \A c \in Callbacks : Rank(S, c) \in Nat
<1>1. IsFiniteSet(S) /\ Cardinality(S) <= Cardinality(Callbacks)
  BY NotifyAssumption, FS_Subset
<1>2. Cardinality(S) \in Nat /\ Cardinality(Callbacks) \in Nat
  BY <1>1, NotifyAssumption, FS_CardinalityType
<1>3. ASSUME NEW c \in Callbacks PROVE Rank(S, c) \in Nat
  <2>1. Below(S, c) \in SUBSET S
    BY DEF Below
  <2>2. IsFiniteSet(Below(S, c))
    BY <1>1, <2>1, FS_Subset
  <2> QED
    BY <2>2, FS_CardinalityType DEF Rank
<1> QED
  BY <1>1, <1>2, <1>3

(* A part of a set counts no more, and if it is not all, fewer. *)
LEMMA Fewer ==
    ASSUME NEW S, IsFiniteSet(S), NEW T \in SUBSET S
    PROVE  /\ Cardinality(T) \in Nat /\ Cardinality(S) \in Nat
           /\ Cardinality(T) <= Cardinality(S)
           /\ T # S => Cardinality(T) < Cardinality(S)
<1>1. IsFiniteSet(T) /\ Cardinality(T) <= Cardinality(S) /\ (Cardinality(S) = Cardinality(T) => S = T)
  BY FS_Subset
<1>2. Cardinality(T) \in Nat /\ Cardinality(S) \in Nat
  BY <1>1, FS_CardinalityType
<1> QED
  BY <1>1, <1>2

LEMMA RankBelowSize ==
    ASSUME NEW S, S \subseteq Callbacks, NEW c \in S
    PROVE  Rank(S, c) < Cardinality(S)
<1>1. Below(S, c) \in SUBSET S /\ c \notin Below(S, c)
  BY NotifyAssumption DEF Below
<1>2. IsFiniteSet(S)
  BY Sizes
<1> QED
  BY <1>1, <1>2, Fewer DEF Rank

(* No two members are at one place. *)
LEMMA RankIsStrict ==
    ASSUME NEW S, S \subseteq Callbacks, NEW c \in S, NEW t \in S, c # t, Rank(S, t) <= Rank(S, c)
    PROVE  Rank(S, t) < Rank(S, c)
<1>0. c \in Nat /\ t \in Nat
  BY NotifyAssumption
<1>1. CASE t < c
  <2>1. Below(S, t) \in SUBSET Below(S, c) /\ Below(S, t) # Below(S, c)
    <3>1. t \in Below(S, c) /\ t \notin Below(S, t)
      BY <1>0, <1>1 DEF Below
    <3>2. \A d \in Below(S, t) : d \in Below(S, c)
      BY <1>0, <1>1, NotifyAssumption DEF Below
    <3> QED
      BY <3>1, <3>2
  <2>2. IsFiniteSet(Below(S, c))
    BY Sizes, FS_Subset DEF Below
  <2> QED
    BY <2>1, <2>2, Fewer DEF Rank
<1>2. CASE c < t
  <2>1. Below(S, c) \in SUBSET Below(S, t) /\ Below(S, c) # Below(S, t)
    <3>1. c \in Below(S, t) /\ c \notin Below(S, c)
      BY <1>0, <1>2 DEF Below
    <3>2. \A d \in Below(S, c) : d \in Below(S, t)
      BY <1>0, <1>2, NotifyAssumption DEF Below
    <3> QED
      BY <3>1, <3>2
  <2>2. IsFiniteSet(Below(S, t))
    BY Sizes, FS_Subset DEF Below
  <2>3. Rank(S, c) < Rank(S, t) /\ Rank(S, c) \in Nat /\ Rank(S, t) \in Nat
    BY <2>1, <2>2, Fewer DEF Rank
  <2> QED
    BY <2>3
<1> QED
  BY <1>0, <1>1, <1>2

(* A callback that comes moves those above it up, and no other. *)
LEMMA RankAdded ==
    ASSUME NEW S, S \subseteq Callbacks, NEW x \in Callbacks, NEW c \in Callbacks
    PROVE  /\ Rank(S, c) <= Rank(S \union {x}, c)
           /\ c \notin AtOrAbove(x) => Rank(S \union {x}, c) = Rank(S, c)
<1>0. c \in Nat /\ x \in Nat
  BY NotifyAssumption
<1>1. Below(S, c) \in SUBSET Below(S \union {x}, c)
  BY DEF Below
<1>2. S \union {x} \subseteq Callbacks
  OBVIOUS
<1>3. IsFiniteSet(Below(S \union {x}, c))
  BY <1>2, Sizes, FS_Subset DEF Below
<1>4. c \notin AtOrAbove(x) => Below(S \union {x}, c) = Below(S, c)
  BY <1>0 DEF Below, AtOrAbove
<1> QED
  BY <1>1, <1>3, <1>4, Fewer DEF Rank

(* One that goes moves those above it down, and no other. *)
LEMMA RankRemoved ==
    ASSUME NEW S, S \subseteq Callbacks, NEW x \in Callbacks, NEW c \in Callbacks
    PROVE  /\ Rank(S \ {x}, c) <= Rank(S, c)
           /\ c \notin AtOrAbove(x) => Rank(S \ {x}, c) = Rank(S, c)
<1>0. c \in Nat /\ x \in Nat
  BY NotifyAssumption
<1>1. Below(S \ {x}, c) \in SUBSET Below(S, c)
  BY DEF Below
<1>3. IsFiniteSet(Below(S, c))
  BY Sizes, FS_Subset DEF Below
<1>4. c \notin AtOrAbove(x) => Below(S \ {x}, c) = Below(S, c)
  BY <1>0 DEF Below, AtOrAbove
<1> QED
  BY <1>1, <1>3, <1>4, Fewer DEF Rank

-----------------------------------------------------------------------------
(* The parts of NotifyTypeOK. *)
ListType ==
    /\ owner \in [Callbacks -> Processes]
    /\ alive \subseteq Processes /\ linked \subseteq Callbacks
    /\ registering \in Callbacks \union {None}
    /\ mCallback \subseteq mCallbacks /\ mCallbacks \subseteq Callbacks
    /\ steady \subseteq mCallback
    /\ shiftedDown \subseteq Callbacks /\ shiftedUp \subseteq Callbacks

(* The place in the walk never leaves the places there can be; a callback  *)
(* has been called at most once for each place behind.                     *)
WalkType ==
    /\ place \in {"idle", "test", "fetch", "call", "return"}
    /\ target \in Callbacks \union {None}
    /\ place \in {"call", "return"} => target \in Callbacks
    /\ index \in Nat /\ index <= Cardinality(Callbacks)
    /\ place \in {"fetch", "call", "return"} => index < Cardinality(Callbacks)
    /\ calls \in [Callbacks -> Nat]
    /\ \A c \in Callbacks : calls[c] <= index \/ (place = "return" /\ calls[c] <= index + 1)
    /\ events \in 0..MaxEvents /\ crashed \in BOOLEAN

(* The registrations and deaths, which do not touch the walk. *)
Clients ==
    \/ \E c \in Callbacks : RegistCallback(c) \/ ObjectDeath(c)
    \/ AddCallback
    \/ \E p \in Processes : Die(p)

LEMMA ListTypeStep ==
    ASSUME ListType, [Next]_vars
    PROVE  ListType'
<1> USE NotifyAssumption DEF ListType
<1>1. CASE UNCHANGED <<owner, clientVars, lists, shifts>>
  BY <1>1 DEF clientVars, lists, shifts
<1>2. ASSUME NEW c \in Callbacks, RegistCallback(c) PROVE ListType'
  BY <1>2 DEF RegistCallback, lists, shifts
<1>3. ASSUME NEW c \in Callbacks, ObjectDeath(c) PROVE ListType'
  BY <1>3 DEF ObjectDeath, clientVars, AtOrAbove
<1>4. CASE AddCallback
  <2>1. registering \in Callbacks
    BY <1>4 DEF AddCallback
  <2> QED
    BY <1>4, <2>1 DEF AddCallback, AtOrAbove
<1>5. ASSUME NEW p \in Processes, Die(p) PROVE ListType'
  BY <1>5 DEF Die, lists, shifts
<1>6. CASE Event
  BY <1>6 DEF Event, NotifyOnly, clientVars, lists
<1>7. CASE NotifyStep
  BY <1>1, <1>7 DEF NotifyStep, TestEnd, Fetch, Call, Return, NotifyOnly
<1> QED
  BY <1>1, <1>2, <1>3, <1>4, <1>5, <1>6, <1>7 DEF Next, vars

LEMMA WalkTypeStep ==
    ASSUME ListType, WalkType, [Next]_vars
    PROVE  WalkType'
<1> USE NotifyAssumption DEF WalkType
<1>0. /\ mCallback \subseteq Callbacks
      /\ Cardinality(Callbacks) \in Nat
      /\ Cardinality(mCallback) \in Nat /\ Cardinality(mCallback) <= Cardinality(Callbacks)
  BY Sizes DEF ListType
<1>1. CASE UNCHANGED walk /\ crashed' \in BOOLEAN
  BY <1>1 DEF walk
<1>2. CASE Clients
  <2>1. UNCHANGED walk
    BY <1>2 DEF Clients, RegistCallback, ObjectDeath, AddCallback, Die, notifier
  <2>2. crashed' \in {crashed, FALSE, TRUE}
    BY <1>2 DEF Clients, RegistCallback, ObjectDeath, AddCallback, Die, notifier, Race
  <2> QED
    BY <1>1, <2>1, <2>2
<1>3. CASE Event
  <2>1. index' = 0 /\ place' = "test" /\ calls' = [c \in Callbacks |-> 0]
        /\ events' \in 0..MaxEvents /\ UNCHANGED <<target, crashed>>
    BY <1>3 DEF Event
  <2> QED
    BY <1>0, <2>1
<1>4. CASE TestEnd
  BY <1>0, <1>4 DEF TestEnd
<1>5. CASE Fetch
  <2>1. UNCHANGED <<index, events, calls>> /\ place = "fetch" /\ crashed' \in BOOLEAN
    BY <1>5 DEF Fetch
  <2>2. \/ place' = "call" /\ target' \in mCallback
        \/ place' = "fetch" /\ target' = target
    BY <1>5 DEF Fetch
  <2> QED
    BY <1>0, <2>1, <2>2
<1>6. CASE Call
  <2>1. /\ place = "call" /\ place' = "return" /\ calls' = [calls EXCEPT ![target] = @ + 1]
        /\ UNCHANGED <<index, target, events, crashed>>
    BY <1>6 DEF Call
  <2>2. \A c \in Callbacks : calls'[c] = calls[c] \/ calls'[c] = calls[c] + 1
    BY <2>1
  <2>3. \A c \in Callbacks : calls[c] \in Nat /\ calls[c] <= index
    BY <2>1
  <2>4. calls' \in [Callbacks -> Nat]
    BY <2>1, <2>3
  <2> QED
    BY <1>0, <2>1, <2>2, <2>3, <2>4
<1>7. CASE Return
  <2>1. /\ place = "return" /\ place' = "test" /\ index' = index + 1 /\ target' = None
        /\ UNCHANGED <<calls, events, crashed>>
    BY <1>7 DEF Return
  <2> QED
    BY <1>0, <2>1
<1> QED
  BY <1>1, <1>2, <1>3, <1>4, <1>5, <1>6, <1>7 DEF Next, NotifyStep, Clients, vars, notifier

LEMMA Initially ==
    ASSUME Init
    PROVE  ListType /\ WalkType
<1>1. ListType
  BY DEF Init, ListType
<1>2. Cardinality(Callbacks) \in Nat
  BY Sizes
<1>3. place = "idle" /\ index = 0 /\ target = None /\ events = 0 /\ crashed = FALSE
  BY DEF Init
<1>4. calls \in [Callbacks -> Nat] /\ \A c \in Callbacks : calls[c] = 0
  BY DEF Init
<1>5. events \in 0..MaxEvents
  BY <1>3, NotifyAssumption
<1>6. \A c \in Callbacks : calls[c] <= index
  BY <1>3, <1>4
<1>7. WalkType
  <2>1. place \in {"idle", "test", "fetch", "call", "return"} /\ target \in Callbacks \union {None}
        /\ crashed \in BOOLEAN
    BY <1>3
  <2>2. index \in Nat /\ index <= Cardinality(Callbacks)
    BY <1>2, <1>3
  <2>3. place \notin {"fetch", "call", "return"}
    BY <1>3
  <2> QED
    BY <1>4, <1>5, <1>6, <2>1, <2>2, <2>3 DEF WalkType
<1> QED
  BY <1>1, <1>7

(* NotifyTypeOK for any callbacks, clients and number of events.           *)
THEOREM NotifyTypeCorrect == Spec => []NotifyTypeOK
<1>1. Init => ListType /\ WalkType
  BY Initially
<1>2. ListType /\ WalkType /\ [Next]_vars => (ListType /\ WalkType)'
  BY ListTypeStep, WalkTypeStep
<1>3. ListType /\ WalkType => NotifyTypeOK
  <2> SUFFICES ASSUME ListType, WalkType PROVE NotifyTypeOK
    OBVIOUS
  <2>1. Cardinality(Callbacks) \in Nat
    BY Sizes
  <2>2. index \in 0..2 * Cardinality(Callbacks)
    BY <2>1 DEF WalkType
  <2>3. \A c \in Callbacks : calls[c] \in 0..Cardinality(Callbacks)
    BY <2>1 DEF WalkType
  <2>4. calls \in [Callbacks -> 0..Cardinality(Callbacks)]
    BY <2>3 DEF WalkType
  <2> QED
    BY <2>2, <2>4 DEF NotifyTypeOK, ListType, WalkType
<1> QED
  BY <1>1, <1>2, <1>3, PTL DEF Spec

-----------------------------------------------------------------------------
(* A callback of the event that was not called yet is still ahead of the   *)
(* walk, unless one went below it ...                                      *)
Ahead(c) ==
    calls[c] = 0 =>
        /\ index <= Rank(mCallback, c)
        /\ place = "call" => index < Rank(mCallback, c) \/ c = target
        /\ place = "return" => index < Rank(mCallback, c)

(* ... and one that was called is behind it, unless one came below it.     *)
Behind(c) ==
    /\ calls[c] <= 1
    /\ calls[c] = 1 => Rank(mCallback, c) < index
                       \/ (place = "return" /\ Rank(mCallback, c) <= index)
    /\ place = "call" /\ c = target => calls[c] = 0 /\ Rank(mCallback, c) <= index

LowInv == place # "idle" => \A c \in steady \ shiftedDown : Ahead(c)
HighInv == place # "idle" => \A c \in steady \ shiftedUp : Behind(c)

DoneInv ==
    place = "idle" => \A c \in steady : (c \notin shiftedDown => calls[c] >= 1)
                                        /\ (c \notin shiftedUp => calls[c] <= 1)

RangeInv ==
    /\ InRange
    /\ place = "fetch" /\ shiftedDown \union shiftedUp = {} => index < Cardinality(mCallback)

SoundInv == LowInv /\ HighInv /\ DoneInv /\ RangeInv

(* The walk does not see what moves in the list beyond the callbacks that  *)
(* moved with it.                                                          *)
LEMMA SoundAdded ==
    ASSUME ListType, WalkType, SoundInv, AddCallback
    PROVE  SoundInv'
<1> USE NotifyAssumption DEF SoundInv
<1>1. PICK x \in Callbacks : mCallback' = mCallback \union {x} /\ shiftedUp' = shiftedUp \union AtOrAbove(x)
  BY DEF AddCallback, ListType
<1>2. UNCHANGED <<walk, steady, shiftedDown>>
  BY DEF AddCallback
<1>3. mCallback \subseteq Callbacks /\ steady \subseteq Callbacks
  BY DEF ListType
<1>4. \A c \in Callbacks : /\ Rank(mCallback, c) <= Rank(mCallback', c)
                           /\ c \notin AtOrAbove(x) => Rank(mCallback', c) = Rank(mCallback, c)
                           /\ Rank(mCallback, c) \in Nat /\ Rank(mCallback', c) \in Nat
  <2>1. mCallback' \subseteq Callbacks
    BY <1>1, <1>3
  <2> QED
    BY <1>1, <1>3, <2>1, RankAdded, Sizes
<1>5. LowInv'
  <2>1. ASSUME NEW c \in Callbacks, Ahead(c) PROVE Ahead(c)'
    BY <1>2, <1>4, <2>1 DEF Ahead, WalkType, walk
  <2> QED
    BY <1>2, <1>3, <2>1 DEF LowInv, walk
<1>6. HighInv'
  <2>1. ASSUME NEW c \in Callbacks, c \notin AtOrAbove(x), Behind(c) PROVE Behind(c)'
    BY <1>2, <1>4, <2>1 DEF Behind, WalkType, walk
  <2> QED
    BY <1>1, <1>2, <1>3, <2>1 DEF HighInv, walk
<1>7. DoneInv'
  BY <1>1, <1>2 DEF DoneInv, walk
<1>8. RangeInv'
  <2>1. x \in AtOrAbove(x)
    BY DEF AtOrAbove
  <2> QED
    BY <1>1, <2>1 DEF RangeInv, InRange
<1> QED
  BY <1>5, <1>6, <1>7, <1>8

LEMMA SoundRemoved ==
    ASSUME ListType, WalkType, SoundInv, NEW x \in Callbacks, ObjectDeath(x)
    PROVE  SoundInv'
<1> USE NotifyAssumption DEF SoundInv
<1>1. mCallback' = mCallback \ {x} /\ shiftedDown' = shiftedDown \union AtOrAbove(x) /\ steady' = steady \ {x}
  BY DEF ObjectDeath
<1>2. UNCHANGED <<walk, shiftedUp>>
  BY DEF ObjectDeath
<1>3. mCallback \subseteq Callbacks /\ steady \subseteq Callbacks
  BY DEF ListType
<1>4. \A c \in Callbacks : /\ Rank(mCallback', c) <= Rank(mCallback, c)
                           /\ c \notin AtOrAbove(x) => Rank(mCallback', c) = Rank(mCallback, c)
                           /\ Rank(mCallback, c) \in Nat /\ Rank(mCallback', c) \in Nat
  <2>1. mCallback' \subseteq Callbacks
    BY <1>1, <1>3
  <2> QED
    BY <1>1, <1>3, <2>1, RankRemoved, Sizes
<1>5. LowInv'
  <2>1. ASSUME NEW c \in Callbacks, c \notin AtOrAbove(x), Ahead(c) PROVE Ahead(c)'
    BY <1>2, <1>4, <2>1 DEF Ahead, WalkType, walk
  <2> QED
    BY <1>1, <1>2, <1>3, <2>1 DEF LowInv, walk
<1>6. HighInv'
  <2>1. ASSUME NEW c \in Callbacks, Behind(c) PROVE Behind(c)'
    BY <1>2, <1>4, <2>1 DEF Behind, WalkType, walk
  <2> QED
    BY <1>1, <1>2, <1>3, <2>1 DEF HighInv, walk
<1>7. DoneInv'
  BY <1>1, <1>2 DEF DoneInv, walk
<1>8. RangeInv'
  <2>1. x \in AtOrAbove(x)
    BY DEF AtOrAbove
  <2> QED
    BY <1>1, <2>1 DEF RangeInv, InRange
<1> QED
  BY <1>5, <1>6, <1>7, <1>8

(* Every step of the walk. *)
LEMMA SoundWalk ==
    ASSUME ListType, WalkType, SoundInv, Event \/ NotifyStep
    PROVE  SoundInv'
<1> USE NotifyAssumption DEF SoundInv
<1>1. mCallback \subseteq Callbacks /\ steady \subseteq mCallback /\ UNCHANGED mCallback
  BY DEF ListType, Event, NotifyStep, TestEnd, Fetch, Call, Return, NotifyOnly, lists
<1>2. \A c \in Callbacks : Rank(mCallback, c) \in Nat /\ calls[c] \in Nat
  BY <1>1, Sizes DEF WalkType
<1>3. Cardinality(mCallback) \in Nat /\ index \in Nat
  BY <1>1, Sizes DEF WalkType
<1>4. CASE Event
  <2>1. /\ place' = "test" /\ index' = 0 /\ calls' = [c \in Callbacks |-> 0] /\ UNCHANGED crashed
        /\ ~crashed /\ steady' = mCallback
    BY <1>4 DEF Event
  <2>2. \A c \in Callbacks : calls'[c] = 0
    BY <2>1
  <2>3. \A c \in Callbacks : Ahead(c)' /\ Behind(c)'
    BY <1>1, <1>2, <2>1, <2>2 DEF Ahead, Behind
  <2>4. LowInv' /\ HighInv'
    BY <1>1, <2>1, <2>3 DEF LowInv, HighInv
  <2> QED
    BY <2>1, <2>4 DEF DoneInv, RangeInv, InRange
<1>5. CASE TestEnd
  <2>1. /\ place = "test" /\ place' = IF index < Cardinality(mCallback) THEN "fetch" ELSE "idle"
        /\ UNCHANGED <<index, target, calls, crashed, steady, shiftedDown, shiftedUp>>
    BY <1>5 DEF TestEnd, shifts
  <2>2. CASE index < Cardinality(mCallback)
    <3>1. \A c \in Callbacks : (Ahead(c) => Ahead(c)') /\ (Behind(c) => Behind(c)')
      BY <1>1, <2>1, <2>2 DEF Ahead, Behind
    <3>2. LowInv' /\ HighInv'
      BY <1>1, <2>1, <3>1 DEF LowInv, HighInv
    <3> QED
      BY <1>1, <2>1, <2>2, <3>2 DEF DoneInv, RangeInv, InRange
  <2>3. CASE ~(index < Cardinality(mCallback))
    <3>1. ASSUME NEW c \in steady, c \notin shiftedDown PROVE calls[c] >= 1
      <4>1. Ahead(c)
        BY <2>1, <3>1 DEF LowInv
      <4>2. Rank(mCallback, c) < Cardinality(mCallback)
        BY <1>1, RankBelowSize
      <4> QED
        BY <1>1, <1>2, <1>3, <2>3, <4>1, <4>2 DEF Ahead
    <3>2. ASSUME NEW c \in steady, c \notin shiftedUp PROVE calls[c] <= 1
      BY <2>1, <3>2 DEF HighInv, Behind
    <3>3. place' = "idle"
      BY <2>1, <2>3
    <3>4. DoneInv'
      BY <2>1, <3>1, <3>2 DEF DoneInv
    <3> QED
      BY <2>1, <3>3, <3>4 DEF LowInv, HighInv, RangeInv, InRange
  <2> QED
    BY <2>2, <2>3
<1>6. CASE Fetch
  <2>0. /\ place = "fetch" /\ UNCHANGED <<index, calls, steady, shiftedDown, shiftedUp>>
    BY <1>6 DEF Fetch, shifts
  <2>1. CASE index >= Cardinality(mCallback) /\ crashed' = TRUE /\ UNCHANGED <<target, place>>
    <3>1. \A c \in Callbacks : (Ahead(c) => Ahead(c)') /\ (Behind(c) => Behind(c)')
      BY <1>1, <2>0, <2>1 DEF Ahead, Behind
    <3>2. LowInv' /\ HighInv'
      BY <1>1, <2>0, <2>1, <3>1 DEF LowInv, HighInv
    <3>3. shiftedDown \union shiftedUp # {}
      BY <1>3, <2>0, <2>1 DEF RangeInv
    <3> QED
      BY <2>0, <2>1, <3>2, <3>3 DEF DoneInv, RangeInv, InRange
  <2>2. CASE \E t \in mCallback : Rank(mCallback, t) = index /\ target' = t /\ place' = "call" /\ UNCHANGED crashed
    <3>1. PICK t \in mCallback : Rank(mCallback, t) = index /\ target' = t /\ place' = "call" /\ UNCHANGED crashed
      BY <2>2
    <3>2. ASSUME NEW c \in mCallback, Ahead(c) PROVE Ahead(c)'
      <4>1. calls[c] = 0 /\ c # t => Rank(mCallback, t) < Rank(mCallback, c)
        BY <1>1, <3>1, <3>2, RankIsStrict DEF Ahead
      <4> QED
        BY <1>1, <2>0, <3>1, <3>2, <4>1 DEF Ahead
    <3>3. ASSUME NEW c \in mCallback, Behind(c) PROVE Behind(c)'
      <4>1. c = t => calls[c] = 0
        BY <1>1, <1>2, <1>3, <2>0, <3>1, <3>3 DEF Behind
      <4> QED
        BY <1>1, <1>2, <1>3, <2>0, <3>1, <3>3, <4>1 DEF Behind
    <3>4. LowInv' /\ HighInv'
      BY <1>1, <2>0, <3>1, <3>2, <3>3 DEF LowInv, HighInv
    <3> QED
      BY <1>1, <2>0, <3>1, <3>4 DEF DoneInv, RangeInv, InRange
  <2> QED
    BY <1>6, <2>1, <2>2 DEF Fetch, Rank, Below
<1>7. CASE Call
  <2>1. /\ place = "call" /\ place' = "return" /\ calls' = [calls EXCEPT ![target] = @ + 1]
        /\ UNCHANGED <<index, target, crashed, steady, shiftedDown, shiftedUp>>
    BY <1>7 DEF Call, shifts
  <2>2. target \in Callbacks
    BY <2>1 DEF WalkType
  <2>3. \A c \in Callbacks : calls'[c] = IF c = target THEN calls[c] + 1 ELSE calls[c]
    BY <2>1, <2>2 DEF WalkType
  <2>4. ASSUME NEW c \in Callbacks, Ahead(c) PROVE Ahead(c)'
    BY <1>1, <1>2, <1>3, <2>1, <2>3, <2>4 DEF Ahead
  <2>5. ASSUME NEW c \in Callbacks, Behind(c) PROVE Behind(c)'
    BY <1>1, <1>2, <1>3, <2>1, <2>3, <2>5 DEF Behind
  <2>6. LowInv' /\ HighInv'
    BY <1>1, <2>1, <2>4, <2>5 DEF LowInv, HighInv
  <2> QED
    BY <2>1, <2>6 DEF DoneInv, RangeInv, InRange
<1>8. CASE Return
  <2>1. /\ place = "return" /\ place' = "test" /\ index' = index + 1
        /\ UNCHANGED <<calls, crashed, steady, shiftedDown, shiftedUp>>
    BY <1>8 DEF Return, shifts
  <2>2. ASSUME NEW c \in Callbacks, Ahead(c) PROVE Ahead(c)'
    BY <1>1, <1>2, <1>3, <2>1, <2>2 DEF Ahead
  <2>3. ASSUME NEW c \in Callbacks, Behind(c) PROVE Behind(c)'
    BY <1>1, <1>2, <1>3, <2>1, <2>3 DEF Behind
  <2>4. LowInv' /\ HighInv'
    BY <1>1, <2>1, <2>2, <2>3 DEF LowInv, HighInv
  <2> QED
    BY <2>1, <2>4 DEF DoneInv, RangeInv, InRange
<1> QED
  BY <1>4, <1>5, <1>6, <1>7, <1>8 DEF NotifyStep

LEMMA SoundStep ==
    ASSUME ListType, WalkType, SoundInv, [Next]_vars
    PROVE  SoundInv'
<1>1. CASE UNCHANGED <<mCallback, walk, crashed, shifts>>
  BY <1>1 DEF SoundInv, LowInv, HighInv, DoneInv, RangeInv, InRange, Ahead, Behind, walk, shifts
<1>2. ASSUME NEW c \in Callbacks, RegistCallback(c) PROVE SoundInv'
  BY <1>1, <1>2 DEF RegistCallback, lists, notifier
<1>3. ASSUME NEW c \in Callbacks, ObjectDeath(c) PROVE SoundInv'
  BY <1>3, SoundRemoved
<1>4. CASE AddCallback
  BY <1>4, SoundAdded
<1>5. ASSUME NEW p \in Processes, Die(p) PROVE SoundInv'
  BY <1>1, <1>5 DEF Die, lists, notifier
<1>6. CASE Event \/ NotifyStep
  BY <1>6, SoundWalk
<1>7. CASE UNCHANGED vars
  BY <1>1, <1>7 DEF vars, lists, notifier
<1> QED
  BY <1>2, <1>3, <1>4, <1>5, <1>6, <1>7 DEF Next

(* WalkIsSound for any callbacks, clients and number of events: whatever   *)
(* registers and dies while notify() walks, a callback that stays is       *)
(* skipped only if one below it went and doubled only if one below it      *)
(* came, and the walk leaves the list only if the list changed.            *)
THEOREM WalkIsSoundTheorem == Spec => []WalkIsSound
<1> DEFINE Inv == ListType /\ WalkType /\ SoundInv
<1>1. Init => Inv
  <2> SUFFICES ASSUME Init PROVE SoundInv
    BY Initially
  <2>1. place = "idle" /\ steady = {} /\ crashed = FALSE
    BY DEF Init
  <2> QED
    BY <2>1 DEF SoundInv, LowInv, HighInv, DoneInv, RangeInv, InRange
<1>2. Inv /\ [Next]_vars => Inv'
  BY ListTypeStep, WalkTypeStep, SoundStep
<1>3. Inv => WalkIsSound
  BY DEF SoundInv, DoneInv, RangeInv, WalkIsSound, CalledOnce
<1> QED
  BY <1>1, <1>2, <1>3, PTL DEF Spec

-----------------------------------------------------------------------------
(* A callback is in both lists or in neither, and enters them only after   *)
(* XbhHwmw has asked for the notice of its client's death (XbhHwmw.cpp:    *)
(* 113-121), so that a death at any time afterwards will be told, before   *)
(* the callback is in the lists too, and finds it in both (80-97): what is *)
(* left of DeadForgotten when time is not looked at.                       *)
DeathWillBeTold ==
    /\ mCallback = mCallbacks
    /\ mCallbacks \subseteq linked
    /\ registering # None => registering \in linked \ mCallbacks

THEOREM DeathWillBeToldTheorem == Spec => []DeathWillBeTold
<1>1. Init => DeathWillBeTold
  BY DEF Init, DeathWillBeTold
<1>2. DeathWillBeTold /\ [Next]_vars => DeathWillBeTold'
  <2> SUFFICES ASSUME DeathWillBeTold, [Next]_vars PROVE DeathWillBeTold'
    OBVIOUS
  <2> USE DEF DeathWillBeTold
  <2>1. CASE UNCHANGED <<linked, registering, lists>>
    BY <2>1 DEF lists
  <2>2. ASSUME NEW c \in Callbacks, RegistCallback(c) PROVE DeathWillBeTold'
    BY <2>2 DEF RegistCallback, lists
  <2>3. ASSUME NEW c \in Callbacks, ObjectDeath(c) PROVE DeathWillBeTold'
    BY <2>3 DEF ObjectDeath, clientVars
  <2>4. CASE AddCallback
    BY <2>4 DEF AddCallback
  <2>5. ASSUME NEW p \in Processes, Die(p) PROVE DeathWillBeTold'
    BY <2>1, <2>5 DEF Die
  <2>6. CASE Event \/ NotifyStep
    BY <2>1, <2>6 DEF Event, NotifyStep, TestEnd, Fetch, Call, Return, NotifyOnly, clientVars
  <2> QED
    BY <2>1, <2>2, <2>3, <2>4, <2>5, <2>6 DEF Next, vars, clientVars
<1> QED
  BY <1>1, <1>2, PTL DEF Spec
=============================================================================
