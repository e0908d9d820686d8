--------------------------- MODULE EnrollmentSaga ---------------------------
(***************************************************************************)
(* How one employee's face travels to the readers and is taken off them    *)
(* again: enrollments/service.rs, pusher.rs and dispatcher.rs (the pushes  *)
(* of an enrollment, their retry and the recovery of a restart),           *)
(* workers/backfill.rs (a reader registered later) and workers/purge.rs    *)
(* (an employee who leaves).                                               *)
(*                                                                         *)
(* A call to a reader cannot be undone and its answer can be lost, so      *)
(* every call is bracketed by a durable checkpoint:                        *)
(*   prepared -> call -> device_applied -> local rows, checkpoint deleted  *)
(* and a checkpoint whose outcome is unknown becomes manual.               *)
(*                                                                         *)
(* Every write is one transaction that commits or is refused (WriteLedger).*)
(* A refused write, a crash, a panic and a request dropped between two     *)
(* awaits each take one unit of the fault budget.  Timeouts are free: the  *)
(* reader may be silent at any time.                                       *)
(***************************************************************************)
EXTENDS Naturals

CONSTANTS
  Devices,      \* readers
  Enrollments,  \* enrollment sessions of the employee
  MaxCommands,  \* bound: enrollments plus retries, each one dispatch command
  NoOne,        \* the enrollment of an unused command
  Backfill,     \* owner of the "backfill:<device>:<face>" checkpoints
  Purge,        \* owner of the "purge:<mapping>" checkpoints
  Initially,    \* readers registered from the start
  Retirable,    \* readers an administrator may switch off, on, or delete
  MayLeave,     \* whether the employee may be deactivated
  MaxFaults     \* bound: faults in one behaviour

Commands == 1..MaxCommands
Owners == Enrollments \cup {Backfill, Purge}
Keys   == Owners \X Devices

ASSUME SagaAssumption ==
  /\ NoOne \notin Owners
  /\ Backfill \notin Enrollments \cup {Purge}
  /\ Purge \notin Enrollments
  /\ Initially \subseteq Devices
  /\ Retirable \subseteq Devices
  /\ MayLeave \in BOOLEAN
  /\ MaxCommands \in Nat
  /\ MaxFaults \in Nat

VARIABLES
  reg,       \* devices.status and deleted_at, "absent" before the row exists
  leaver,    \* employees.status with the progress of deactivate_employee
  photo,     \* the current enrolment photo is on disk
  status,    \* enrollments.status
  push,      \* enrollment_device_pushes.status
  ckpt,      \* device_operation_checkpoints.state
  mapping,   \* device_face_mappings.state
  face,      \* the reader holds the face
  of,        \* the enrollment a dispatch command belongs to
  driver,    \* the tracked task of the command
  pc,        \* where the command's attempt on a reader is
  call,      \* the attempt's enroll call, seen from the reader
  fill,      \* where the backfill of a reader is
  fillCall,  \* its enroll call
  revoke,    \* where the purge of a mapping is
  revoked,   \* its revoke call
  phase,     \* up, down, or recovering (before any producer starts)
  todo,      \* checkpoints recovery has still to visit
  halfway,   \* the checkpoint of which recovery has made the first write
  faults     \* faults so far

peopleVars  == <<reg, leaver, photo>>
dbVars      == <<status, push, ckpt, mapping>>
attemptVars == <<of, driver, pc, call>>
fillVars    == <<fill, fillCall>>
revokeVars  == <<revoke, revoked>>
bootVars    == <<phase, todo, halfway>>
vars == <<reg, leaver, photo, status, push, ckpt, mapping, face, of, driver,
          pc, call, fill, fillCall, revoke, revoked, phase, todo, halfway, faults>>

Nonterminal == {"pending", "in_progress"}
PushStates  == Nonterminal \cup {"none", "success", "failed"}
CallStates  == {"none", "sent", "applied", "rejected"}
AttemptPcs  == {"none", "start", "call", "sent", "accepted", "complete",
                "manual", "unsaved", "rejected", "catch", "done"}
FillPcs     == {"none", "queued", "admit", "call", "sent", "accepted",
                "complete", "manual", "done"}
RevokePcs   == {"none", "listed", "call", "sent", "accepted", "complete",
                "reject", "manual", "unsure", "pend", "done"}

TypeOK ==
  /\ reg \in [Devices -> {"absent", "active", "paused", "deleted", "revived"}]
  /\ leaver \in {"employed", "inactive", "erased", "queued", "swept"}
  /\ photo \in BOOLEAN
  /\ status \in [Enrollments -> {"none", "in_progress", "success", "partial", "failed"}]
  /\ push \in [Enrollments -> [Devices -> PushStates]]
  /\ ckpt \in [Owners -> [Devices -> {"none", "prepared", "device_applied", "manual"}]]
  /\ mapping \in [Devices -> {"none", "active", "pending_delete"}]
  /\ face \in [Devices -> BOOLEAN]
  /\ of \in [Commands -> Enrollments \cup {NoOne}]
  /\ driver \in [Commands -> {"unused", "running", "over"}]
  /\ pc \in [Commands -> [Devices -> AttemptPcs]]
  /\ call \in [Commands -> [Devices -> CallStates]]
  /\ fill \in [Devices -> FillPcs]
  /\ fillCall \in [Devices -> CallStates]
  /\ revoke \in [Devices -> RevokePcs]
  /\ revoked \in [Devices -> CallStates]
  /\ phase \in {"up", "down", "recovering"}
  /\ todo \subseteq Keys
  /\ halfway \subseteq todo
  /\ faults \in 0..MaxFaults

Init ==
  /\ reg = [d \in Devices |-> IF d \in Initially THEN "active" ELSE "absent"]
  /\ leaver = "employed"
  /\ photo = FALSE
  /\ status = [e \in Enrollments |-> "none"]
  /\ push = [e \in Enrollments |-> [d \in Devices |-> "none"]]
  /\ ckpt = [o \in Owners |-> [d \in Devices |-> "none"]]
  /\ mapping = [d \in Devices |-> "none"]
  /\ face = [d \in Devices |-> FALSE]
  /\ of = [k \in Commands |-> NoOne]
  /\ driver = [k \in Commands |-> "unused"]
  /\ pc = [k \in Commands |-> [d \in Devices |-> "none"]]
  /\ call = [k \in Commands |-> [d \in Devices |-> "none"]]
  /\ fill = [d \in Devices |-> "none"]
  /\ fillCall = [d \in Devices |-> "none"]
  /\ revoke = [d \in Devices |-> "none"]
  /\ revoked = [d \in Devices |-> "none"]
  /\ phase = "up"
  /\ todo = {} /\ halfway = {}
  /\ faults = 0

Fault == faults < MaxFaults /\ faults' = faults + 1

-----------------------------------------------------------------------------
(* The transactions.  Each assigns dbVars.                                  *)

SetCkpt(o, d, s) == ckpt' = [ckpt EXCEPT ![o][d] = s]
SetPush(e, d, s) == push' = [push EXCEPT ![e][d] = s]
SetMapping(d, s) == mapping' = [mapping EXCEPT ![d] = s]

(* UPDATE ... WHERE operation_key: nothing happens to a missing row.        *)
UpdateCkpt(o, d, s) ==
  ckpt' = [ckpt EXCEPT ![o][d] = IF @ = "none" THEN "none" ELSE s]

mark_device_operation(o, d, s) ==
  UpdateCkpt(o, d, s) /\ UNCHANGED <<status, push, mapping>>

(* INSERT OR IGNORE.  Both users run once for a key, so the row is fresh.   *)
admit_device_operation(o, d) ==
  SetCkpt(o, d, "prepared") /\ UNCHANGED <<status, push, mapping>>

mark_push_in_progress(e, d) ==
  SetPush(e, d, "in_progress") /\ UNCHANGED <<status, ckpt, mapping>>

complete_push_success(e, d) ==
  /\ SetPush(e, d, "success")
  /\ SetMapping(d, "active")
  /\ SetCkpt(e, d, "none")
  /\ UNCHANGED status

complete_push_failure(e, d) ==
  /\ SetPush(e, d, "failed")
  /\ SetCkpt(e, d, "none")
  /\ UNCHANGED <<status, mapping>>

(* Mutant: an unknown outcome is filed like a rejection.                    *)
RecordAsRejection(e, d, manual) == complete_push_failure(e, d)

record_push_recovery_failure(e, d, manual) ==
  /\ SetPush(e, d, "failed")
  /\ IF manual THEN UpdateCkpt(e, d, "manual") ELSE UNCHANGED ckpt
  /\ UNCHANGED <<status, mapping>>

(* Mutant: the catch-all deletes a prepared checkpoint.                     *)
TerminalizeClears(e, d) ==
  /\ push' = [push EXCEPT ![e][d] = IF @ \in Nonterminal THEN "failed" ELSE @]
  /\ ckpt' = [ckpt EXCEPT ![e][d] = IF @ = "prepared" THEN "none" ELSE @]
  /\ UNCHANGED <<status, mapping>>

(* Mutant: the catch-all forgets pushes that are still pending.             *)
TerminalizeInProgress(e, d) ==
  /\ push' = [push EXCEPT ![e][d] = IF @ = "in_progress" THEN "failed" ELSE @]
  /\ ckpt' = [ckpt EXCEPT ![e][d] = IF @ = "prepared" THEN "manual" ELSE @]
  /\ UNCHANGED <<status, mapping>>

terminalize_authorized_failure(e, d) ==
  /\ push' = [push EXCEPT ![e][d] = IF @ \in Nonterminal THEN "failed" ELSE @]
  /\ ckpt' = [ckpt EXCEPT ![e][d] = IF @ = "prepared" THEN "manual" ELSE @]
  /\ UNCHANGED <<status, mapping>>

(* The status an enrollment gets once rows, its pushes, are all terminal.   *)
FinalStatus(rows) ==
  LET good == {d \in Devices : rows[d] = "success"}
      bad  == {d \in Devices : rows[d] = "failed"}
  IN  IF good = {} THEN "failed" ELSE IF bad = {} THEN "success" ELSE "partial"

(* Mutant: counts without looking for pushes that are still running.        *)
AggregatedEarly(e, rows) == [status EXCEPT ![e] = FinalStatus(rows)]

(* Mutant: only the first aggregation is written.                           *)
AggregatedOnce(e, rows) ==
  IF status[e] # "in_progress" \/ \E d \in Devices : rows[d] \in Nonterminal THEN status
  ELSE [status EXCEPT ![e] = FinalStatus(rows)]

Aggregated(e, rows) ==
  IF \E d \in Devices : rows[d] \in Nonterminal THEN status
  ELSE [status EXCEPT ![e] = FinalStatus(rows)]

finalize_enrollment(e) ==
  status' = Aggregated(e, push[e]) /\ UNCHANGED <<push, ckpt, mapping>>

complete_recovered_push_success(e, d) ==
  /\ SetPush(e, d, "success")
  /\ SetMapping(d, "active")
  /\ SetCkpt(e, d, "none")
  /\ status' = Aggregated(e, [push[e] EXCEPT ![d] = "success"])

complete_backfill_mapping(d) ==
  /\ SetMapping(d, "active")
  /\ SetCkpt(Backfill, d, "none")
  /\ UNCHANGED <<status, push>>

complete_purge_mapping(d) ==
  /\ SetMapping(d, "none")
  /\ SetCkpt(Purge, d, "none")
  /\ UNCHANGED <<status, push>>

mark_mapping_pending_delete(d) ==
  /\ mapping' = [mapping EXCEPT ![d] = IF @ = "none" THEN "none" ELSE "pending_delete"]
  /\ UNCHANGED <<status, push, ckpt>>

Refused == Fault /\ UNCHANGED dbVars

-----------------------------------------------------------------------------
(* Readers and the employee.                                               *)

(* devices.status = 'active'; deleted_at may be set: a PATCH can switch a   *)
(* deleted reader on again.                                                 *)
Usable(d) == reg[d] \in {"active", "revived"}

(* A reader is created; the handler then sends a backfill request, unless   *)
(* it is dropped at the await in between.                                   *)
create_device(d) ==
  /\ phase = "up" /\ reg[d] = "absent"
  /\ reg' = [reg EXCEPT ![d] = "active"]
  /\ \/ fill' = [fill EXCEPT ![d] = "queued"] /\ UNCHANGED faults
     \/ Fault /\ UNCHANGED fill
  /\ UNCHANGED <<leaver, photo, dbVars, face, attemptVars, fillCall,
                 revokeVars, bootVars>>

(* PATCH status, or DELETE.                                                 *)
switch_device(d) ==
  /\ phase = "up" /\ d \in Retirable
  /\ \/ reg[d] = "active" /\ reg' = [reg EXCEPT ![d] = "paused"]
     \/ reg[d] = "paused" /\ reg' = [reg EXCEPT ![d] = "active"]
     \/ Usable(d) /\ reg' = [reg EXCEPT ![d] = "deleted"]
     \/ reg[d] = "deleted" /\ reg' = [reg EXCEPT ![d] = "revived"]
  /\ UNCHANGED <<leaver, photo, dbVars, face, attemptVars, fillVars,
                 revokeVars, bootVars, faults>>

(* deactivate_employee: the row, the photos, the purge request.  Dropping   *)
(* the request (the caller hangs up) loses what follows.                    *)
deactivate(from, to, gone) ==
  /\ phase = "up" /\ MayLeave /\ leaver = from
  /\ leaver' = to
  /\ photo' = (photo /\ ~gone)
  /\ UNCHANGED <<reg, dbVars, face, attemptVars, fillVars, revokeVars, bootVars>>

deactivate_employee == deactivate("employed", "inactive", FALSE) /\ UNCHANGED faults

purge_enrolled_faces ==
  \/ deactivate("inactive", "erased", TRUE) /\ UNCHANGED faults
  \/ deactivate("inactive", "erased", FALSE) /\ Fault

send_purge_request == deactivate("erased", "queued", FALSE) /\ UNCHANGED faults

drop_request ==
  Fault /\ (\/ deactivate("inactive", "swept", FALSE)
            \/ deactivate("erased", "swept", FALSE))

-----------------------------------------------------------------------------
(* Enrollment and retry: the rows, the checkpoints and the dispatch command *)
(* of one transaction and its after_commit hook.                            *)

(* Commands are taken in order: their names mean nothing.                   *)
Unused(k) == driver[k] = "unused" /\ \A j \in 1..(k - 1) : driver[j] # "unused"

(* The employee need not be active.                                         *)
start_enrollment(e, k) ==
  LET targets == {d \in Devices : reg[d] = "active"} IN
  /\ phase = "up" /\ status[e] = "none" /\ Unused(k)
  /\ status' = [status EXCEPT ![e] = "in_progress"]
  /\ push' = [push EXCEPT ![e] = [d \in Devices |-> IF d \in targets THEN "pending" ELSE "none"]]
  /\ ckpt' = [ckpt EXCEPT ![e] = [d \in Devices |-> IF d \in targets THEN "prepared" ELSE "none"]]
  /\ photo' = TRUE
  /\ of' = [of EXCEPT ![k] = e]
  /\ driver' = [driver EXCEPT ![k] = "running"]
  /\ pc' = [pc EXCEPT ![k] = [d \in Devices |-> IF d \in targets THEN "start" ELSE "none"]]
  /\ UNCHANGED <<reg, leaver, mapping, face, call, fillVars, revokeVars, bootVars, faults>>

(* Mutant: the checkpoint is not looked at.                                 *)
RetryableWhenFailed(e, d) == push[e][d] = "failed"

(* PUSH_NOT_RETRYABLE and PUSH_RECONCILIATION_REQUIRED.                     *)
Retryable(e, d) == push[e][d] = "failed" /\ ckpt[e][d] = "none"

(* The photo and the reader are read before the transaction, which does not *)
(* look at them again: their changing in between is the same as changing    *)
(* after it.                                                                *)
retry_enrollment_push(e, d, k) ==
  /\ phase = "up" /\ Unused(k)
  /\ photo /\ Usable(d)
  /\ Retryable(e, d)
  /\ SetPush(e, d, "pending")
  /\ SetCkpt(e, d, "prepared")
  /\ of' = [of EXCEPT ![k] = e]
  /\ driver' = [driver EXCEPT ![k] = "running"]
  /\ pc' = [pc EXCEPT ![k][d] = "start"]
  /\ UNCHANGED <<peopleVars, status, mapping, face, call, fillVars, revokeVars,
                 bootVars, faults>>

-----------------------------------------------------------------------------
(* push_enrollment_device under the wrapper of                              *)
(* spawn_authorized_enrollment_pushes: every error ends in "catch".         *)

(* The attempt writes tx; a refusal sends it elsewhere.                     *)
Persist(k, d, from, tx, to, otherwise) ==
  /\ phase = "up" /\ pc[k][d] = from
  /\ \/ tx /\ pc' = [pc EXCEPT ![k][d] = to] /\ UNCHANGED faults
     \/ Refused /\ pc' = [pc EXCEPT ![k][d] = otherwise]
  /\ UNCHANGED <<peopleVars, face, of, driver, call, fillVars, revokeVars, bootVars>>

push_starts(k, d) ==
  Persist(k, d, "start", mark_push_in_progress(of[k], d), "call", "manual")
push_applied(k, d) ==
  Persist(k, d, "accepted", mark_device_operation(of[k], d, "device_applied"),
          "complete", "manual")
push_completes(k, d) ==
  Persist(k, d, "complete", complete_push_success(of[k], d), "done", "unsaved")
push_unsaved(k, d) ==
  Persist(k, d, "unsaved", record_push_recovery_failure(of[k], d, FALSE), "catch", "catch")
push_rejected(k, d) ==
  Persist(k, d, "rejected", complete_push_failure(of[k], d), "catch", "catch")
push_manual(k, d) ==
  Persist(k, d, "manual", record_push_recovery_failure(of[k], d, TRUE), "catch", "catch")
push_catch(k, d) ==
  Persist(k, d, "catch", terminalize_authorized_failure(of[k], d), "done", "done")

(* The call of the attempt, with its 30 s timeout.  A transport error is    *)
(* indistinguishable from a timeout: both leave the call with the reader.   *)
enroll(k, d) ==
  /\ phase = "up"
  /\ \/ /\ pc[k][d] = "call"
        /\ pc' = [pc EXCEPT ![k][d] = "sent"]
        /\ call' = [call EXCEPT ![k][d] = "sent"]
     \/ /\ pc[k][d] = "sent" /\ call[k][d] = "applied"
        /\ pc' = [pc EXCEPT ![k][d] = "accepted"]
        /\ UNCHANGED call
     \/ /\ pc[k][d] = "sent" /\ call[k][d] = "sent"
        /\ pc' = [pc EXCEPT ![k][d] = "rejected"]
        /\ call' = [call EXCEPT ![k][d] = "rejected"]
     \/ /\ pc[k][d] = "sent"
        /\ pc' = [pc EXCEPT ![k][d] = "manual"]
        /\ UNCHANGED call
  /\ UNCHANGED <<peopleVars, dbVars, face, of, driver, fillVars, revokeVars,
                 bootVars, faults>>

(* catch_unwind.                                                            *)
push_panics(k, d) ==
  /\ phase = "up" /\ pc[k][d] \notin {"none", "catch", "done"}
  /\ Fault
  /\ pc' = [pc EXCEPT ![k][d] = "catch"]
  /\ UNCHANGED <<peopleVars, dbVars, face, of, driver, call, fillVars,
                 revokeVars, bootVars>>

Attempt(k, d) ==
  \/ push_starts(k, d) \/ enroll(k, d) \/ push_applied(k, d) \/ push_completes(k, d)
  \/ push_unsaved(k, d) \/ push_rejected(k, d) \/ push_manual(k, d) \/ push_catch(k, d)

(* The command's task has joined its targets; its last write is only logged *)
(* when it is refused.                                                      *)
Finish(k) ==
  /\ phase = "up" /\ driver[k] = "running"
  /\ \A d \in Devices : pc[k][d] \in {"none", "done"}
  /\ driver' = [driver EXCEPT ![k] = "over"]
  /\ \/ finalize_enrollment(of[k]) /\ UNCHANGED faults
     \/ Refused
  /\ UNCHANGED <<peopleVars, face, of, pc, call, fillVars, revokeVars, bootVars>>

-----------------------------------------------------------------------------
(* Backfill: one device at a time, push_one_device_for_backfill.            *)

FillFrame == UNCHANGED <<peopleVars, face, attemptVars, revokeVars, bootVars>>

FillWrite(d, from, tx, to) ==
  /\ phase = "up" /\ fill[d] = from
  /\ \/ tx /\ fill' = [fill EXCEPT ![d] = to] /\ UNCHANGED faults
     \/ Refused /\ fill' = [fill EXCEPT ![d] = "done"]
  /\ UNCHANGED fillCall
  /\ FillFrame

(* The worker takes the next device: the employee must be active, the       *)
(* device usable, the photo readable.                                       *)
fill_takes(d) ==
  /\ phase = "up" /\ fill[d] = "queued"
  /\ \A x \in Devices : fill[x] \in {"none", "queued", "done"}
  /\ fill' = [fill EXCEPT ![d] =
       IF leaver = "employed" /\ photo /\ Usable(d) THEN "admit" ELSE "done"]
  /\ UNCHANGED <<dbVars, fillCall, faults>>
  /\ FillFrame

fill_admits(d) ==
  FillWrite(d, "admit", admit_device_operation(Backfill, d), "call")
fill_applied(d) ==
  FillWrite(d, "accepted", mark_device_operation(Backfill, d, "device_applied"), "complete")
fill_completes(d) ==
  FillWrite(d, "complete", complete_backfill_mapping(d), "done")
fill_manual(d) ==
  FillWrite(d, "manual", mark_device_operation(Backfill, d, "manual"), "done")

(* A rejection is filed like a timeout here.                                *)
fill_calls(d) ==
  /\ phase = "up"
  /\ \/ /\ fill[d] = "call"
        /\ fill' = [fill EXCEPT ![d] = "sent"]
        /\ fillCall' = [fillCall EXCEPT ![d] = "sent"]
     \/ /\ fill[d] = "sent" /\ fillCall[d] = "applied"
        /\ fill' = [fill EXCEPT ![d] = "accepted"]
        /\ UNCHANGED fillCall
     \/ /\ fill[d] = "sent" /\ fillCall[d] = "sent"
        /\ fill' = [fill EXCEPT ![d] = "manual"]
        /\ fillCall' = [fillCall EXCEPT ![d] = "rejected"]
     \/ /\ fill[d] = "sent"
        /\ fill' = [fill EXCEPT ![d] = "manual"]
        /\ UNCHANGED fillCall
  /\ UNCHANGED <<dbVars, faults>>
  /\ FillFrame

Backfilling(d) ==
  \/ fill_takes(d) \/ fill_admits(d) \/ fill_calls(d)
  \/ fill_applied(d) \/ fill_completes(d) \/ fill_manual(d)

-----------------------------------------------------------------------------
(* Purge: the mappings of the employee are listed once and revoked one by   *)
(* one.  The worker's re-reads of the employee's status never fire: no code *)
(* makes an inactive employee active again.                                 *)

RevokeFrame == UNCHANGED <<reg, photo, face, attemptVars, fillVars, bootVars>>

RevokeWrite(d, from, tx, to, otherwise) ==
  /\ phase = "up" /\ revoke[d] = from
  /\ \/ tx /\ revoke' = [revoke EXCEPT ![d] = to] /\ UNCHANGED faults
     \/ Refused /\ revoke' = [revoke EXCEPT ![d] = otherwise]
  /\ UNCHANGED <<leaver, revoked>>
  /\ RevokeFrame

process_employee ==
  /\ phase = "up" /\ leaver = "queued"
  /\ leaver' = "swept"
  /\ revoke' = [d \in Devices |-> IF mapping[d] # "none" THEN "listed" ELSE "none"]
  /\ UNCHANGED <<dbVars, revoked, faults>>
  /\ RevokeFrame

(* The next listed mapping: an unusable reader leaves it pending, a refused *)
(* checkpoint leaves it as it is.                                           *)
NextMapping(d) == \A x \in Devices : revoke[x] \in {"none", "listed", "done"}

revoke_skips(d) ==
  /\ NextMapping(d) /\ ~Usable(d)
  /\ RevokeWrite(d, "listed", mark_mapping_pending_delete(d), "done", "done")
revoke_admits(d) ==
  /\ NextMapping(d) /\ Usable(d)
  /\ RevokeWrite(d, "listed", admit_device_operation(Purge, d), "call", "done")
revoke_applied(d) ==
  RevokeWrite(d, "accepted", mark_device_operation(Purge, d, "device_applied"),
              "complete", "unsure")
revoke_completes(d) ==
  RevokeWrite(d, "complete", complete_purge_mapping(d), "done", "pend")
revoke_rejected(d) ==
  RevokeWrite(d, "reject", mark_mapping_pending_delete(d), "manual", "manual")
revoke_manual(d) ==
  RevokeWrite(d, "manual", mark_device_operation(Purge, d, "manual"), "done", "done")
revoke_unsure(d) ==
  RevokeWrite(d, "unsure", mark_device_operation(Purge, d, "manual"), "pend", "pend")
revoke_pends(d) ==
  RevokeWrite(d, "pend", mark_mapping_pending_delete(d), "done", "done")

revoke_calls(d) ==
  /\ phase = "up"
  /\ \/ /\ revoke[d] = "call"
        /\ revoke' = [revoke EXCEPT ![d] = "sent"]
        /\ revoked' = [revoked EXCEPT ![d] = "sent"]
     \/ /\ revoke[d] = "sent" /\ revoked[d] = "applied"
        /\ revoke' = [revoke EXCEPT ![d] = "accepted"]
        /\ UNCHANGED revoked
     \/ /\ revoke[d] = "sent" /\ revoked[d] = "sent"
        /\ revoke' = [revoke EXCEPT ![d] = "reject"]
        /\ revoked' = [revoked EXCEPT ![d] = "rejected"]
     \/ /\ revoke[d] = "sent"
        /\ revoke' = [revoke EXCEPT ![d] = "reject"]
        /\ UNCHANGED revoked
  /\ UNCHANGED <<leaver, dbVars, faults>>
  /\ RevokeFrame

Purging(d) ==
  \/ revoke_skips(d) \/ revoke_admits(d) \/ revoke_calls(d) \/ revoke_applied(d)
  \/ revoke_completes(d) \/ revoke_rejected(d) \/ revoke_manual(d)
  \/ revoke_unsure(d) \/ revoke_pends(d)

-----------------------------------------------------------------------------
(* The reader carries a call out when it likes, also after the caller has   *)
(* timed out or crashed.                                                    *)

ReaderApplies(d) ==
  /\ \/ \E k \in Commands :
          /\ call[k][d] = "sent"
          /\ call' = [call EXCEPT ![k][d] = "applied"]
          /\ face' = [face EXCEPT ![d] = TRUE]
          /\ UNCHANGED <<fillCall, revoked>>
     \/ /\ fillCall[d] = "sent"
        /\ fillCall' = [fillCall EXCEPT ![d] = "applied"]
        /\ face' = [face EXCEPT ![d] = TRUE]
        /\ UNCHANGED <<call, revoked>>
     \/ /\ revoked[d] = "sent"
        /\ revoked' = [revoked EXCEPT ![d] = "applied"]
        /\ face' = [face EXCEPT ![d] = FALSE]
        /\ UNCHANGED <<call, fillCall>>
  /\ UNCHANGED <<peopleVars, dbVars, of, driver, pc, fill, revoke, bootVars, faults>>

-----------------------------------------------------------------------------
(* Crash, restart and recover_startup_checkpoints.                          *)

Stopped(w, idle) == IF w \in idle THEN w ELSE "done"

(* Commands, requests and tasks are in memory; rows and the reader are not. *)
Crash ==
  /\ phase = "up"
  /\ Fault
  /\ phase' = "down"
  /\ driver' = [k \in Commands |-> IF driver[k] = "unused" THEN "unused" ELSE "over"]
  /\ pc' = [k \in Commands |-> [d \in Devices |-> Stopped(pc[k][d], {"none"})]]
  /\ fill' = [d \in Devices |-> Stopped(fill[d], {"none"})]
  /\ revoke' = [d \in Devices |-> Stopped(revoke[d], {"none"})]
  /\ leaver' = IF leaver = "employed" THEN "employed" ELSE "swept"
  /\ UNCHANGED <<reg, photo, dbVars, face, of, call, fillCall, revoked, todo, halfway>>

BootFrame == UNCHANGED <<peopleVars, face, attemptVars, fillVars, revokeVars>>

Restart ==
  /\ phase = "down"
  /\ phase' = "recovering"
  /\ todo' = {key \in Keys : ckpt[key[1]][key[2]] # "none"}
  /\ halfway' = {}
  /\ UNCHANGED <<dbVars, faults>>
  /\ BootFrame

(* Startup gives up, and the service manager starts it again.               *)
Abort == phase' = "down" /\ todo' = {} /\ halfway' = {}

(* Checkpoints are visited in the order of their keys: backfill:,           *)
(* enrollment:, purge:.                                                     *)
Rank(o) == CASE o = Backfill -> 1 [] o = Purge -> 3 [] OTHER -> 2

Visiting(o, d) ==
  /\ phase = "recovering" /\ <<o, d>> \in todo
  /\ halfway \subseteq {<<o, d>>}
  /\ \A key \in todo : Rank(o) <= Rank(key[1])

(* The last write of a visit, or one that another write follows.            *)
RecoveryWrite(key, tx, last) ==
  /\ \/ /\ tx
        /\ todo' = IF last THEN todo \ {key} ELSE todo
        /\ halfway' = IF last THEN {} ELSE {key}
        /\ UNCHANGED <<phase, faults>>
     \/ Refused /\ Abort
  /\ BootFrame

(* Mutant: a prepared checkpoint counts as applied.                         *)
AppliedOrPrepared(o, d) == ckpt[o][d] # "manual"

Applied(o, d) == ckpt[o][d] = "device_applied"

recover_push(e, d) ==
  /\ Visiting(e, d)
  /\ \/ /\ Applied(e, d)
        /\ RecoveryWrite(<<e, d>>, complete_recovered_push_success(e, d), TRUE)
     \/ /\ ~Applied(e, d) /\ halfway = {}
        /\ RecoveryWrite(<<e, d>>, record_push_recovery_failure(e, d, TRUE), FALSE)
     \/ /\ halfway # {}
        /\ RecoveryWrite(<<e, d>>, finalize_enrollment(e), TRUE)

recover_backfill(d) ==
  /\ Visiting(Backfill, d) /\ leaver = "employed"
  /\ RecoveryWrite(<<Backfill, d>>,
       IF Applied(Backfill, d) THEN complete_backfill_mapping(d)
       ELSE mark_device_operation(Backfill, d, "manual"), TRUE)

(* "backfill checkpoint has no active employee"                             *)
recover_bails(d) ==
  /\ Visiting(Backfill, d) /\ leaver # "employed"
  /\ Abort
  /\ UNCHANGED <<dbVars, faults>>
  /\ BootFrame

recover_purge(d) ==
  /\ Visiting(Purge, d)
  /\ \/ /\ Applied(Purge, d)
        /\ RecoveryWrite(<<Purge, d>>, complete_purge_mapping(d), TRUE)
     \/ /\ ~Applied(Purge, d) /\ halfway = {}
        /\ RecoveryWrite(<<Purge, d>>, mark_device_operation(Purge, d, "manual"), FALSE)
     \/ /\ halfway # {}
        /\ RecoveryWrite(<<Purge, d>>, mark_mapping_pending_delete(d), TRUE)

Recovered ==
  /\ phase = "recovering" /\ todo = {}
  /\ phase' = "up"
  /\ UNCHANGED <<dbVars, todo, halfway, faults>>
  /\ BootFrame

Boot ==
  \/ Restart \/ Recovered
  \/ \E d \in Devices : recover_backfill(d) \/ recover_bails(d) \/ recover_purge(d)
  \/ \E e \in Enrollments, d \in Devices : recover_push(e, d)

-----------------------------------------------------------------------------
Administrator ==
  \/ \E d \in Devices : create_device(d) \/ switch_device(d)
  \/ deactivate_employee
  \/ \E e \in Enrollments, k \in Commands : start_enrollment(e, k)
  \/ \E e \in Enrollments, d \in Devices, k \in Commands : retry_enrollment_push(e, d, k)

Leaving == purge_enrolled_faces \/ send_purge_request \/ process_employee

Next ==
  \/ Administrator \/ Leaving \/ drop_request
  \/ \E k \in Commands, d \in Devices : Attempt(k, d) \/ push_panics(k, d)
  \/ \E k \in Commands : Finish(k)
  \/ \E d \in Devices : Backfilling(d) \/ Purging(d) \/ ReaderApplies(d)
  \/ Crash \/ Boot

Spec == Init /\ [][Next]_vars

(* Spawned tasks run; the service manager restarts a dead process.  Nothing *)
(* is asked of administrators and readers.                                  *)
Fairness ==
  /\ \A k \in Commands, d \in Devices : WF_vars(Attempt(k, d))
  /\ \A k \in Commands : WF_vars(Finish(k))
  /\ \A d \in Devices : WF_vars(Backfilling(d)) /\ WF_vars(Purging(d))
  /\ WF_vars(Leaving) /\ WF_vars(Boot)

FairSpec == Spec /\ Fairness

-----------------------------------------------------------------------------
(* A call of the push of e to d that the reader has not rejected: it has    *)
(* been, or may still be, carried out.                                      *)
Standing(k, e, d) == of[k] = e /\ call[k][d] \in {"sent", "applied"}

(* A push never has two calls that its reader has not refused: retry is     *)
(* only open once the reader has said no, whatever timed out, crashed or    *)
(* could not be written.  (Migration 019: a checkpoint is "never permission *)
(* to replay the device call".)                                             *)
NoReplay ==
  \A e \in Enrollments, d \in Devices : \A j, k \in Commands :
    Standing(j, e, d) /\ Standing(k, e, d) => j = k

(* While a call stands and the push is not a success, its checkpoint        *)
(* survives: nothing forgets an outcome it does not know.  A push that is   *)
(* not finished has one too, so that a restart finds it: recovery visits    *)
(* checkpoints, not pushes.                                                 *)
CheckpointIsKept ==
  \A e \in Enrollments, d \in Devices :
    /\ \A k \in Commands :
         Standing(k, e, d) => push[e][d] = "success" \/ ckpt[e][d] # "none"
    /\ push[e][d] \in Nonterminal => ckpt[e][d] # "none"

(* A success, a device_applied checkpoint and a mapping are only written    *)
(* when a reader has carried out such a call.                               *)
SuccessIsReal ==
  /\ TypeOK
  /\ \A e \in Enrollments, d \in Devices :
       push[e][d] = "success" \/ ckpt[e][d] = "device_applied"
         => \E k \in Commands : of[k] = e /\ call[k][d] = "applied"
  /\ \A d \in Devices : mapping[d] # "none"
       => fillCall[d] = "applied" \/ \E k \in Commands : call[k][d] = "applied"

(* An enrollment that reports success has all its pushes there, and for     *)
(* good: no late attempt, retry or recovery takes one back.  Without faults *)
(* it shows the aggregate of its pushes once every command is over.         *)
StatusIsAggregate ==
  /\ \A e \in Enrollments : status[e] = "success" => FinalStatus(push[e]) = "success"
                             /\ \A d \in Devices : push[e][d] \notin Nonterminal
  /\ (faults = 0 /\ \A k \in Commands : driver[k] # "running") =>
       \A e \in Enrollments : status[e] # "none" => status[e] = FinalStatus(push[e])

(* A mapping is only deleted after its reader has carried out a revocation. *)
RevocationIsReal ==
  [][\A d \in Devices : mapping[d] # "none" /\ mapping'[d] = "none"
       => revoked[d] = "applied"]_vars

(* Every push ends, a single fault notwithstanding.  (Two can leave it: a   *)
(* failed write and then the catch-all's.)                                  *)
PushSettles ==
  \A e \in Enrollments, d \in Devices :
    push[e][d] \in Nonterminal
      ~> (push[e][d] \in {"success", "failed"} \/ faults > 1)

-----------------------------------------------------------------------------
(* What the documentation says and the code does not do.                    *)

(* "Employee deactivation = auto-purge from all devices" (D-15): without    *)
(* faults, when all is quiet after the purge no mapping is active.          *)
LeaverIsPurged ==
  (/\ faults = 0 /\ leaver = "swept"
   /\ \A k \in Commands : driver[k] # "running"
   /\ \A d \in Devices : revoke[d] \in {"none", "done"} /\ fill[d] \in {"none", "done"})
    => \A d \in Devices : mapping[d] # "active"
=============================================================================
