------------------------------ MODULE MCFiles ------------------------------
(* Two captures; one and a crash; one whose photo somebody swaps twice, or  *)
(* once with a fault; or the evidence of two leaves and a crash.            *)
EXTENDS Files

CONSTANTS c1, c2, l1, l2

MCBudgets ==
  {[names |-> {c1, c2}, crashes |-> 0, swaps |-> 0, faults |-> 0],
   [names |-> {c1}, crashes |-> 1, swaps |-> 0, faults |-> 1],
   [names |-> {c1}, crashes |-> 0, swaps |-> 2, faults |-> 0],
   [names |-> {c1}, crashes |-> 0, swaps |-> 1, faults |-> 1],
   [names |-> {l1, l2}, crashes |-> 1, swaps |-> 0, faults |-> 1]}
=============================================================================
