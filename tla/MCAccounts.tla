---------------------------- MODULE MCAccounts ----------------------------
(* Two usernames.  A new installation with three requests, or a licence that is *)
(* activated, renewed and crashed; or a staffed one with four requests.     *)
EXTENDS Accounts, TLC

(* No property tells two usernames, tabs, requests or machines apart.       *)
MCSymmetry ==
  UNION {Permutations(S) : S \in {Users, Browsers, Requests, Machines, Activations}}

MCBudgets ==
  {[staffed |-> FALSE, requests |-> 3, activations |-> 0, renewals |-> 0, crashes |-> 1, oddBoots |-> 0],
   [staffed |-> FALSE, requests |-> 0, activations |-> 2, renewals |-> 1, crashes |-> 2, oddBoots |-> 2],
   [staffed |-> TRUE,  requests |-> 4, activations |-> 0, renewals |-> 0, crashes |-> 0, oddBoots |-> 0]}
=============================================================================
