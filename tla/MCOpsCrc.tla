------------------------------ MODULE MCOpsCrc ------------------------------
(* OpsCrc for TLC: fewer switches where both modules send copies apart. *)
EXTENDS OpsCrc

Moves == [h \in SUBSET Slots |-> IF h = Slots THEN 1 ELSE 2]
=============================================================================
