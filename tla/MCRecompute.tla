---------------------------- MODULE MCRecompute ----------------------------
(* Three days, a leave over all of them and one over the last.  The night   *)
(* shift is 07:00 to 06:55, and an exit at 06:58 belongs to both days.      *)
EXTENDS Recompute

CONSTANTS exit, trip, rest

NightCapturedAt == [e \in {exit} |-> DayLength + 418]
MCFirst == [l \in {trip, rest} |-> IF l = trip THEN 1 ELSE 3]
MCLast  == [l \in {trip, rest} |-> 3]
=============================================================================
