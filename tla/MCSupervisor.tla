---------------------------- MODULE MCSupervisor ----------------------------
(* One device and two administrators: two requests that interleave, or one  *)
(* with two markings on the stream, or one with a command to the reader.    *)
EXTENDS Supervisor

MCBudgets ==
  {[requests |-> 2, markings |-> 0, commands |-> 0, faults |-> 1],
   [requests |-> 1, markings |-> 2, commands |-> 0, faults |-> 1],
   [requests |-> 1, markings |-> 0, commands |-> 1, faults |-> 1]}

(* One command whose client may go away.                                    *)
MCOneCommand == {[requests |-> 0, markings |-> 0, commands |-> 1, faults |-> 1]}
=============================================================================
