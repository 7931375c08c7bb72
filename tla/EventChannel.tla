---------------------------- MODULE EventChannel ----------------------------
(***************************************************************************)
(* What the message center promises its users, without threads, locks or   *)
(* queues: every posted message is handled, once, in the order of posting. *)
(***************************************************************************)
EXTENDS Sequences, Naturals

CONSTANT Messages

VARIABLES posted, handled

chan == <<posted, handled>>

Init == posted = <<>> /\ handled = <<>>

Post(m) == posted' = Append(posted, m) /\ UNCHANGED handled

Handle ==
    /\ Len(handled) < Len(posted)
    /\ handled' = Append(handled, posted[Len(handled) + 1])
    /\ UNCHANGED posted

Next == Handle \/ \E m \in Messages : Post(m)

Safe == Init /\ [][Next]_chan

Spec == Safe /\ WF_chan(Handle)
=============================================================================
