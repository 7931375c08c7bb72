---------------------------- MODULE MCSourcePoll ----------------------------
(***************************************************************************)
(* An instance of SourcePoll: each kind of change with the sources it is   *)
(* about, since all at once are too many states.                           *)
(***************************************************************************)
EXTENDS SourcePoll

CONSTANTS dp, usbc, ops

MCWorlds == {
    [may |-> {"cable"}, asks |-> {"select"}, asked |-> {Android, dp, usbc}, requests |-> 2,
     signal |-> Unknown],
    [may |-> {"signal"}, asks |-> {"select"}, asked |-> {Android, usbc}, requests |-> 2,
     signal |-> "locked"],
    [may |-> {"power"}, asks |-> {"select"}, asked |-> {Android, ops}, requests |-> 2,
     signal |-> "locked"],
    [may |-> {}, asks |-> {"select"}, asked |-> {Android, dp, usbc}, requests |-> 3,
     signal |-> "locked"],
    [may |-> {}, asks |-> {"switch", "usb"}, asked |-> {dp, ops}, requests |-> 3,
     signal |-> "locked"],
    [may |-> {}, asks |-> {"select", "switch", "usb"}, asked |-> {Android, usbc}, requests |-> 2,
     signal |-> "locked"] }
=============================================================================
