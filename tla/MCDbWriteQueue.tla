-------------------------- MODULE MCDbWriteQueue --------------------------
(* The calls that the TLC instances of DbWriteQueue are made of.           *)
EXTENDS DbWriteQueue

CONSTANTS j1, t1, f1, s1, s2

(* Four of the five calls, the closers, which are alike, in this order.    *)
MaxCalls == 4
Calls ==
  /\ Cardinality({t \in Tasks : pc[t] # "new"}) <= MaxCalls
  /\ pc[s1] = "new" => pc[s2] = "new"
=============================================================================
