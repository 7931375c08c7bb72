------------------------------- MODULE Notify -------------------------------
(***************************************************************************)
(* From the hub to the clients: XbhService::HandleMsg calls every callback *)
(* of mCallback in turn, while XbhHwmw adds the callbacks of new clients   *)
(* and takes out those of dead ones, from binder threads and under a lock  *)
(* of its own.  Nothing keeps the two apart.                               *)
(*                                                                         *)
(* mCallback is sorted by the addresses of the callbacks, here numbers: a  *)
(* set, whose i-th member is the one with i smaller ones.  The vector      *)
(* mCallbacks of XbhHwmw is a set too.                                     *)
(***************************************************************************)
EXTENDS Naturals, FiniteSets

CONSTANTS
    Callbacks,  \* the callback objects: their addresses
    Processes,  \* the clients
    MaxEvents   \* bound: events in a behaviour

ASSUME NotifyAssumption ==
    /\ Callbacks \subseteq Nat \ {0} /\ IsFiniteSet(Callbacks)
    /\ MaxEvents \in Nat

(* XBH_NULL. *)
None == 0

VARIABLES
    owner,        \* whose callback it is; never changes
    alive,        \* the living clients
    linked,       \* callbacks whose death is to be told
    registering,  \* the callback in hwRegistCallback, which holds the lock of XbhHwmw
    mCallbacks,   \* of XbhHwmw
    mCallback,    \* of XbhService
    place, index, target,  \* CbHwNotify: where it is, i, the callback it calls
    events,       \* events so far
    calls,        \* history: how often each callback was called for this event
    steady,       \* history: callbacks in mCallback since the event came
    shiftedDown, shiftedUp,  \* history: those at or below which one went, came meanwhile
    crashed       \* the service has read a freed or a missing place of the list

clientVars == <<alive, linked, registering>>
lists == <<mCallbacks, mCallback>>
walk == <<place, index, target, events, calls>>
notifier == <<walk, crashed>>
shifts == <<steady, shiftedDown, shiftedUp>>
vars == <<owner, clientVars, lists, notifier, shifts>>

NotifyTypeOK ==
    /\ owner \in [Callbacks -> Processes]
    /\ alive \subseteq Processes /\ linked \subseteq Callbacks
    /\ {registering, target} \subseteq Callbacks \union {None}
    /\ mCallback \subseteq mCallbacks /\ mCallbacks \subseteq Callbacks
    /\ place \in {"idle", "test", "fetch", "call", "return"}
    /\ index \in 0..2 * Cardinality(Callbacks)
    /\ events \in 0..MaxEvents
    /\ calls \in [Callbacks -> 0..Cardinality(Callbacks)]
    /\ steady \subseteq mCallback
    /\ shiftedDown \union shiftedUp \subseteq Callbacks
    /\ crashed \in BOOLEAN

Init ==
    /\ owner \in [Callbacks -> Processes]
    /\ alive = Processes /\ linked = {} /\ registering = None
    /\ mCallbacks = {} /\ mCallback = {}
    /\ place = "idle" /\ index = 0 /\ target = None /\ events = 0
    /\ calls = [c \in Callbacks |-> 0]
    /\ steady = {} /\ shiftedDown = {} /\ shiftedUp = {}
    /\ crashed = FALSE

AtOrAbove(c) == {d \in Callbacks : d >= c}

(* Both changes of mCallback may move its storage, under a reader.         *)
Race == crashed' \in {FALSE, place = "fetch"}

-----------------------------------------------------------------------------
(* The clients and XbhHwmw.                                                *)

(* Faulty: the death of the client is not looked for. *)
RegistCallbackUnlinked(c) ==
    /\ registering = None /\ ~crashed
    /\ c \notin linked
    /\ linked' = IF owner[c] \in alive THEN linked \union {c} ELSE linked
    /\ registering' = c
    /\ UNCHANGED <<owner, alive, lists, notifier, shifts>>

(* hwRegistCallback: a client that is dead by now is refused.              *)
RegistCallback(c) ==
    /\ registering = None /\ ~crashed
    /\ c \notin linked
    /\ owner[c] \in alive
    /\ linked' = linked \union {c}
    /\ registering' = c
    /\ UNCHANGED <<owner, alive, lists, notifier, shifts>>

(* Faulty: setCallback takes the lock that notify holds. *)
AddCallbackLocking ==
    /\ registering # None /\ ~crashed
    /\ place = "idle"
    /\ mCallbacks' = mCallbacks \union {registering}
    /\ mCallback' = mCallback \union {registering}
    /\ shiftedUp' = shiftedUp \union AtOrAbove(registering)
    /\ Race
    /\ registering' = None
    /\ UNCHANGED <<owner, alive, linked, walk, steady, shiftedDown>>

(* ... and XbhService::setCallback. *)
AddCallback ==
    /\ registering # None /\ ~crashed
    /\ mCallbacks' = mCallbacks \union {registering}
    /\ mCallback' = mCallback \union {registering}
    /\ shiftedUp' = shiftedUp \union AtOrAbove(registering)
    /\ Race
    /\ registering' = None
    /\ UNCHANGED <<owner, alive, linked, walk, steady, shiftedDown>>

Die(p) ==
    /\ p \in alive /\ ~crashed
    /\ alive' = alive \ {p}
    /\ UNCHANGED <<owner, linked, registering, lists, notifier, shifts>>

(* serviceDied, onObjectDeath and XbhService::disconnect. *)
ObjectDeath(c) ==
    /\ registering = None /\ ~crashed
    /\ c \in linked /\ c \in mCallbacks
    /\ owner[c] \notin alive
    /\ mCallbacks' = mCallbacks \ {c}
    /\ mCallback' = mCallback \ {c}
    /\ steady' = steady \ {c}
    /\ shiftedDown' = shiftedDown \union AtOrAbove(c)
    /\ Race
    /\ UNCHANGED <<owner, clientVars, walk, shiftedUp>>

-----------------------------------------------------------------------------
(* XbhService::notify, on the reader of the hub: one event at a time.      *)
NotifyOnly == UNCHANGED <<owner, clientVars, lists>>

Event ==
    /\ place = "idle" /\ events < MaxEvents /\ ~crashed
    /\ events' = events + 1
    /\ place' = "test" /\ index' = 0
    /\ calls' = [c \in Callbacks |-> 0]
    /\ steady' = mCallback /\ shiftedDown' = {} /\ shiftedUp' = {}
    /\ UNCHANGED <<target, crashed>>
    /\ NotifyOnly

(* Faulty: size() - 1 for size(). *)
TestEndEarly ==
    /\ place = "test" /\ ~crashed
    /\ place' = IF index + 1 < Cardinality(mCallback) THEN "fetch" ELSE "idle"
    /\ UNCHANGED <<index, target, events, calls, crashed, shifts>>
    /\ NotifyOnly

(* CbHwNotify: i < mCallback.size() ... *)
TestEnd ==
    /\ place = "test" /\ ~crashed
    /\ place' = IF index < Cardinality(mCallback) THEN "fetch" ELSE "idle"
    /\ UNCHANGED <<index, target, events, calls, crashed, shifts>>
    /\ NotifyOnly

(* ... and mCallback[i]; beyond the end is what was there before.          *)
Fetch ==
    /\ place = "fetch" /\ ~crashed
    /\ \/ \E c \in mCallback :
             /\ Cardinality({d \in mCallback : d < c}) = index
             /\ target' = c /\ place' = "call"
             /\ UNCHANGED crashed
       \/ /\ index >= Cardinality(mCallback)
          /\ crashed' = TRUE
          /\ UNCHANGED <<target, place>>
    /\ UNCHANGED <<index, events, calls, shifts>>
    /\ NotifyOnly

(* hwNotify reaches the client ... *)
Call ==
    /\ place = "call" /\ ~crashed
    /\ calls' = [calls EXCEPT ![target] = @ + 1]
    /\ place' = "return"
    /\ UNCHANGED <<index, target, events, crashed, shifts>>
    /\ NotifyOnly

(* ... which returns when it is done, with a registration of its own, too, *)
(* or dies; both are a return for the service.                             *)
Return ==
    /\ place = "return" /\ ~crashed
    /\ registering # None => owner[registering] # owner[target]
    /\ index' = index + 1
    /\ target' = None
    /\ place' = "test"
    /\ UNCHANGED <<events, calls, crashed, shifts>>
    /\ NotifyOnly

NotifyStep == TestEnd \/ Fetch \/ Call \/ Return

Next ==
    \/ \E c \in Callbacks : RegistCallback(c) \/ ObjectDeath(c)
    \/ AddCallback
    \/ \E p \in Processes : Die(p)
    \/ Event \/ NotifyStep

(* The reader and the binder threads run; a client returns from a call or  *)
(* dies.                                                                   *)
Spec ==
    /\ Init /\ [][Next]_vars
    /\ WF_vars(NotifyStep) /\ WF_vars(AddCallback)
    /\ \A c \in Callbacks : WF_vars(ObjectDeath(c))

-----------------------------------------------------------------------------
(* A callback that stays registered throughout an event is called for it,  *)
(* unless one below it went meanwhile, and only once, unless one below it  *)
(* came: the loop counts places of a list that moves.                      *)
CalledOnce ==
    place = "idle" /\ ~crashed =>
        \A c \in steady :
            /\ c \notin shiftedDown => calls[c] >= 1
            /\ c \notin shiftedUp => calls[c] <= 1

(* Nothing but a list that changes during the event is read beyond its end *)
(* or after it was freed.                                                  *)
InRange == crashed => shiftedDown \union shiftedUp # {}

(* The walk through the list does what it can in a list that moves.        *)
WalkIsSound == CalledOnce /\ InRange

(* A client that died is forgotten by both lists, wherever its death finds *)
(* its registration.                                                       *)
DeadForgotten ==
    <>[](crashed \/ \A c \in mCallback \union mCallbacks : owner[c] \in alive)

(* No event and no registration waits for ever, though a client may        *)
(* register another callback from within a call.                           *)
NobodyWaits ==
    /\ place # "idle" ~> place = "idle" \/ crashed
    /\ registering # None ~> registering = None \/ crashed
=============================================================================
