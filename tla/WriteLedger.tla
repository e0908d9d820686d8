---------------------------- MODULE WriteLedger ----------------------------
(***************************************************************************)
(* What DbWriteQueue promises its callers, with no queue, lock or worker:  *)
(* every write is committed at most once, success is answered only for a   *)
(* committed write, and an error only for a write that is not committed    *)
(* and never will be.  A caller that goes away gives up the answer, not    *)
(* the write.                                                              *)
(***************************************************************************)
EXTENDS Sequences

CONSTANTS
  Writes,     \* the calls that change the database
  Breakable,  \* those of them that are not transactions
  Controls    \* flush and close_and_flush

VARIABLES
  log,     \* committed writes, in commit order
  dirty,   \* failed writes that left a part of their effect behind
  answer   \* what each call was told

vars == <<log, dirty, answer>>

Committed == {log[i] : i \in DOMAIN log}
Open(t) == answer[t] \in {"none", "cancelled"}

Init ==
  /\ log = <<>>
  /\ dirty = {}
  /\ answer = [t \in Writes \cup Controls |-> "none"]

Commit(t) ==
  /\ Open(t)
  /\ t \notin Committed \cup dirty
  /\ log' = Append(log, t)
  /\ UNCHANGED <<dirty, answer>>

BreakOff(t) ==
  /\ Open(t)
  /\ t \notin Committed \cup dirty
  /\ dirty' = dirty \cup {t}
  /\ UNCHANGED <<log, answer>>

MayAnswer(t, a) ==
  \/ a = "ok" /\ (t \in Committed \/ t \in Controls)
  \/ a \in {"failed", "stopped"} /\ t \notin Committed
  \/ a \in {"busy", "closed"} /\ t \notin Committed \cup dirty
  \/ a = "cancelled"

Answer(t, a) ==
  /\ answer[t] = "none"
  /\ MayAnswer(t, a)
  /\ answer' = [answer EXCEPT ![t] = a]
  /\ UNCHANGED <<log, dirty>>

Next ==
  \/ \E t \in Writes : Commit(t)
  \/ \E t \in Breakable : BreakOff(t)
  \/ \E t \in Writes \cup Controls :
       \E a \in {"ok", "failed", "stopped", "busy", "closed", "cancelled"} :
         Answer(t, a)

Spec == Init /\ [][Next]_vars
=============================================================================
