------------------------ MODULE EnrollmentSagaProofs ------------------------
(***************************************************************************)
(* Proofs about the enrollment saga, for any number of readers,            *)
(* enrollments, commands and faults.                                       *)
(***************************************************************************)
EXTENDS EnrollmentSaga, TLAPS

(* The attempt of k on d is under way; it is busy until its outcome is      *)
(* recorded, and after that only the catch-all is left to run.              *)
Live(k, d) == pc[k][d] \notin {"none", "done"}
Busy(k, d) == Live(k, d) /\ pc[k][d] # "catch"

-----------------------------------------------------------------------------
(* The inductive invariant.                                                 *)

(* What lives in memory: an unused command has done nothing, a running one  *)
(* belongs to an enrollment, and nothing runs while the process is down.    *)
Memory ==
  /\ \A k \in Commands :
       /\ driver[k] = "unused" =>
            /\ of[k] = NoOne
            /\ \A d \in Devices : pc[k][d] = "none" /\ call[k][d] = "none"
       /\ driver[k] # "unused" => of[k] \in Enrollments
       /\ \A d \in Devices : Live(k, d) => driver[k] = "running" /\ phase = "up"
  /\ \A o \in Owners, d \in Devices :
       <<o, d>> \in todo => phase = "recovering" /\ ckpt[o][d] # "none"

(* What an attempt knows of its call.                                       *)
CallShape ==
  \A k \in Commands, d \in Devices :
    /\ pc[k][d] \in {"start", "call"} => call[k][d] = "none"
    /\ pc[k][d] = "rejected" => call[k][d] = "rejected"
    /\ pc[k][d] \in {"accepted", "complete", "unsaved"} => call[k][d] = "applied"

(* How the three tables agree.                                              *)
Rows ==
  \A e \in Enrollments :
    /\ status[e] = "none" =>
         /\ \A d \in Devices : push[e][d] = "none"
         /\ \A k \in Commands : of[k] # e
    /\ \A d \in Devices :
         /\ push[e][d] \in {"none", "success"} => ckpt[e][d] = "none"
         /\ push[e][d] \in Nonterminal => ckpt[e][d] # "none"

(* The checkpoint belongs to one attempt: it stays while the attempt is     *)
(* busy, no other attempt is, and no other call stands.                     *)
Ownership ==
  \A k \in Commands, d \in Devices : Busy(k, d) =>
    /\ ckpt[of[k]][d] # "none"
    /\ \A j \in Commands : of[j] = of[k] /\ j # k =>
         ~Busy(j, d) /\ call[j][d] \notin {"sent", "applied"}

Kept ==
  \A e \in Enrollments, d \in Devices, k \in Commands :
    Standing(k, e, d) => push[e][d] = "success" \/ ckpt[e][d] # "none"

(* What was written was carried out.                                        *)
Real ==
  /\ \A e \in Enrollments, d \in Devices :
       push[e][d] = "success" \/ ckpt[e][d] = "device_applied"
         => \E k \in Commands : of[k] = e /\ call[k][d] = "applied"
  /\ \A d \in Devices : mapping[d] # "none"
       => fillCall[d] = "applied" \/ \E k \in Commands : call[k][d] = "applied"

(* Backfill and purge of a reader happen once.                              *)
Once ==
  \A d \in Devices :
    /\ reg[d] = "absent" => fill[d] = "none"
    /\ fill[d] \in {"none", "queued", "admit", "call"} => fillCall[d] = "none"
    /\ fill[d] \in {"accepted", "complete"} => fillCall[d] = "applied"
    /\ ckpt[Backfill][d] = "device_applied" => fillCall[d] = "applied"
    /\ leaver # "swept" => revoke[d] = "none"
    /\ revoke[d] \in {"none", "listed", "call"} => revoked[d] = "none"
    /\ revoke[d] \in {"accepted", "complete"} => revoked[d] = "applied"
    /\ ckpt[Purge][d] = "device_applied" => revoked[d] = "applied"

(* Success is final: no push of the enrollment is open any more.            *)
Whole ==
  \A e \in Enrollments : status[e] = "success" =>
    /\ \A d \in Devices : push[e][d] \in {"none", "success"}
    /\ \E d \in Devices : push[e][d] = "success"

(* Without faults an open push has its attempt, and an enrollment without a *)
(* running command shows its aggregate.                                     *)
Calm ==
  faults = 0 =>
    /\ phase = "up"
    /\ \A e \in Enrollments, d \in Devices : push[e][d] \in Nonterminal =>
         \E k \in Commands : of[k] = e /\ Live(k, d)
    /\ \A e \in Enrollments :
         status[e] # "none" /\ (\A k \in Commands : of[k] = e => driver[k] # "running")
           => status[e] = FinalStatus(push[e])

SagaInv ==
  /\ TypeOK /\ Memory /\ CallShape /\ Rows /\ Ownership /\ Kept /\ NoReplay
  /\ Real /\ Once /\ Whole /\ Calm
-----------------------------------------------------------------------------
(* Updates of one cell of a table.                                          *)

(* g is f with v in the cell of row a and column b.                         *)
Put(f, g, S, a, b, v) ==
  /\ \A x \in S, y \in Devices : g[x][y] = IF x = a /\ y = b THEN v ELSE f[x][y]
  /\ \A x \in S : x # a => g[x] = f[x]

CkptStates == {"none", "prepared", "device_applied", "manual"}

(* The update of one cell of a table keeps its type and is a Put.           *)
LEMMA UpdateAt ==
  ASSUME NEW S, NEW V, NEW f \in [S -> [Devices -> V]], NEW a \in S, NEW b \in Devices,
         NEW v \in V
  PROVE  /\ [f EXCEPT ![a][b] = v] \in [S -> [Devices -> V]]
         /\ Put(f, [f EXCEPT ![a][b] = v], S, a, b, v)
BY DEF Put

(* Writing back what a cell holds is no change.                             *)
LEMMA PutSame ==
  ASSUME NEW f, NEW S, NEW a \in S, NEW b \in Devices
  PROVE  Put(f, f, S, a, b, f[a][b])
BY DEF Put

(* SetPush, SetCkpt, UpdateCkpt and the moves of pc and call are Puts.      *)
LEMMA PushUpdate ==
  ASSUME TypeOK, NEW e \in Enrollments, NEW d \in Devices, NEW s \in PushStates,
         SetPush(e, d, s)
  PROVE  /\ push' \in [Enrollments -> [Devices -> PushStates]]
         /\ Put(push, push', Enrollments, e, d, s)
BY UpdateAt DEF TypeOK, SetPush

(* A checkpoint that is written, at its place.                              *)
LEMMA CkptUpdate ==
  ASSUME TypeOK, NEW o \in Owners, NEW d \in Devices, NEW s \in CkptStates, SetCkpt(o, d, s)
  PROVE  /\ ckpt' \in [Owners -> [Devices -> CkptStates]]
         /\ Put(ckpt, ckpt', Owners, o, d, s)
<1>1. ckpt \in [Owners -> [Devices -> CkptStates]] BY DEF TypeOK, CkptStates
<1> QED BY <1>1, UpdateAt DEF SetCkpt

(* An UPDATE of a checkpoint writes it only where there is one.             *)
LEMMA CkptMark ==
  ASSUME TypeOK, NEW o \in Owners, NEW d \in Devices, NEW s \in CkptStates, UpdateCkpt(o, d, s)
  PROVE  /\ ckpt' \in [Owners -> [Devices -> CkptStates]]
         /\ Put(ckpt, ckpt', Owners, o, d, IF ckpt[o][d] = "none" THEN "none" ELSE s)
<1>1. "none" \in CkptStates BY DEF CkptStates
<1>2. ckpt \in [Owners -> [Devices -> CkptStates]] BY DEF TypeOK, CkptStates
<1> QED BY <1>1, <1>2, UpdateAt DEF UpdateCkpt

(* The place of one attempt, written.                                       *)
LEMMA PcUpdate ==
  ASSUME TypeOK, NEW k \in Commands, NEW d \in Devices, NEW s \in AttemptPcs,
         pc' = [pc EXCEPT ![k][d] = s]
  PROVE  pc' \in [Commands -> [Devices -> AttemptPcs]] /\ Put(pc, pc', Commands, k, d, s)
BY UpdateAt DEF TypeOK

(* What happened to one call, written.                                      *)
LEMMA CallUpdate ==
  ASSUME TypeOK, NEW k \in Commands, NEW d \in Devices, NEW s \in CallStates,
         call' = [call EXCEPT ![k][d] = s]
  PROVE  call' \in [Commands -> [Devices -> CallStates]] /\ Put(call, call', Commands, k, d, s)
BY UpdateAt DEF TypeOK

(* A fault is counted within its bound.                                     *)
LEMMA FaultCounted ==
  ASSUME TypeOK, Fault
  PROVE  faults' # 0 /\ faults' \in 0..MaxFaults
<1>1. faults \in Nat /\ faults' = faults + 1 /\ faults' <= MaxFaults
  BY SagaAssumption DEF TypeOK, Fault
<1> QED BY <1>1

-----------------------------------------------------------------------------
(* The attempts.                                                            *)

(* An attempt under way belongs to an enrollment that has started.          *)
LEMMA LiveAttempt ==
  ASSUME SagaInv, NEW k \in Commands, NEW d \in Devices, Live(k, d)
  PROVE  of[k] \in Enrollments /\ of[k] \in Owners /\ status[of[k]] # "none"
         /\ driver[k] = "running" /\ phase = "up"
BY DEF SagaInv, Memory, Rows, Owners

(* One write of an attempt: its push becomes p, its checkpoint c, its       *)
(* program counter to, and the mapping may become active.                   *)
Writes(k, d, p, c, to) ==
  /\ p \in PushStates /\ c \in CkptStates /\ to \in AttemptPcs \ {"none"}
  /\ push' \in [Enrollments -> [Devices -> PushStates]]
  /\ Put(push, push', Enrollments, of[k], d, p)
  /\ ckpt' \in [Owners -> [Devices -> CkptStates]]
  /\ Put(ckpt, ckpt', Owners, of[k], d, c)
  /\ pc' = [pc EXCEPT ![k][d] = to]
  /\ \/ mapping' = mapping
     \/ call[k][d] = "applied" /\ mapping' = [mapping EXCEPT ![d] = "active"]
  /\ faults' = faults \/ (faults' # 0 /\ faults' \in 0..MaxFaults)
  /\ UNCHANGED <<status, peopleVars, face, of, driver, call, fillVars, revokeVars, bootVars>>

(* What the writes of push_enrollment_device have in common.  Where the     *)
(* attempt goes, and what it has heard from the reader by then:             *)
GoesOn(k, d, p, to) ==
  /\ to \notin {"catch", "done"} => Busy(k, d)
  /\ to = "done" => p \notin Nonterminal \/ faults' # 0
  /\ to \in {"start", "call"} => call[k][d] = "none"
  /\ to = "rejected" => call[k][d] = "rejected"
  /\ to \in {"accepted", "complete", "unsaved"} => call[k][d] = "applied"

(* and what it may do to its rows: a checkpoint is only deleted with a      *)
(* success or a rejection, success and device_applied need an answer, and   *)
(* the catch-all only closes what is open.                                  *)
Lawful(k, d, p, c, to) ==
  LET e == of[k] IN
  /\ p \in {"none", "success"} => c = "none"
  /\ p \in Nonterminal => c # "none"
  /\ \/ p = push[e][d]
     \/ p # "none" /\ Busy(k, d)
     \/ p = "failed" /\ push[e][d] \in Nonterminal
  /\ \/ c # "none"
     \/ ckpt[e][d] = "none" /\ p = push[e][d]
     \/ Busy(k, d) /\ to \in {"catch", "done"} /\ (p = "success" \/ call[k][d] = "rejected")
  /\ p = "success" => p = push[e][d] \/ call[k][d] = "applied"
  /\ c = "device_applied" => c = ckpt[e][d] \/ call[k][d] = "applied"

(* Such a write keeps the invariant.  A refused write is one that leaves    *)
(* both rows as they are.                                                   *)
LEMMA AttemptWrites ==
  ASSUME SagaInv, NEW k \in Commands, NEW d \in Devices, Live(k, d), NEW p, NEW c, NEW to,
         Writes(k, d, p, c, to), GoesOn(k, d, p, to), Lawful(k, d, p, c, to)
  PROVE  SagaInv'
<1> DEFINE e == of[k]
<1> USE DEF SagaInv, peopleVars, fillVars, revokeVars, bootVars, Writes, GoesOn, Lawful
<1>0. e \in Enrollments /\ e \in Owners /\ status[e] # "none" /\ driver[k] = "running"
      /\ phase = "up"
  BY LiveAttempt
<1>1. pc' \in [Commands -> [Devices -> AttemptPcs]] /\ Put(pc, pc', Commands, k, d, to)
  BY PcUpdate
<1>2. UNCHANGED <<reg, leaver, photo, status, face, of, driver, call, fill, fillCall,
                  revoke, revoked, phase, todo, halfway>>
  OBVIOUS
<1>3. /\ \A x \in Owners, y \in Devices :
            ckpt'[x][y] = IF x = e /\ y = d THEN c ELSE ckpt[x][y]
      /\ \A x \in Enrollments, y \in Devices :
            push'[x][y] = IF x = e /\ y = d THEN p ELSE push[x][y]
      /\ \A x \in Enrollments : x # e => push'[x] = push[x]
  BY DEF Put
<1>4. \A x \in Commands, y \in Devices : pc'[x][y] = IF x = k /\ y = d THEN to ELSE pc[x][y]
  BY <1>1 DEF Put
<1>5. \A x \in Enrollments : x \in Owners BY DEF Owners
<1>6. Busy(k, d) => ckpt[e][d] # "none" /\ push[e][d] \notin {"none", "success"}
  BY <1>0 DEF Ownership, Rows
<1> HIDE DEF e
<1>7. of[k] = e BY DEF e
<1>8. TypeOK'
  <2>1. mapping' \in [Devices -> {"none", "active", "pending_delete"}] BY DEF TypeOK
  <2>2. faults' \in 0..MaxFaults BY DEF TypeOK
  <2> QED BY <1>1, <1>2, <2>1, <2>2 DEF TypeOK, CkptStates
<1>9. Memory'
  <2>1. \A o \in Owners, y \in Devices : <<o, y>> \notin todo
    BY <1>0 DEF Memory
  <2> QED BY <1>0, <1>2, <1>4, <2>1 DEF Memory, Live
<1>10. CallShape'
  <2>1. ASSUME NEW x \in Commands, NEW y \in Devices
        PROVE  /\ pc'[x][y] \in {"start", "call"} => call[x][y] = "none"
               /\ pc'[x][y] = "rejected" => call[x][y] = "rejected"
               /\ pc'[x][y] \in {"accepted", "complete", "unsaved"} => call[x][y] = "applied"
    <3>1. CASE x = k /\ y = d BY <1>4, <3>1
    <3>2. CASE ~(x = k /\ y = d) BY <1>4, <3>2 DEF CallShape
    <3> QED BY <3>1, <3>2
  <2> QED BY <1>2, <2>1 DEF CallShape
<1>11. Rows'
  <2>1. ASSUME NEW x \in Enrollments, NEW y \in Devices
        PROVE  /\ push'[x][y] \in {"none", "success"} => ckpt'[x][y] = "none"
               /\ push'[x][y] \in Nonterminal => ckpt'[x][y] # "none"
    <3>1. CASE x = e /\ y = d BY <1>3, <1>5, <3>1
    <3>2. CASE ~(x = e /\ y = d)
      <4>1. push'[x][y] = push[x][y] /\ ckpt'[x][y] = ckpt[x][y] BY <1>3, <1>5, <3>2
      <4> QED BY <4>1 DEF Rows
    <3> QED BY <3>1, <3>2
  <2>2. ASSUME NEW x \in Enrollments, status[x] = "none"
        PROVE  (\A y \in Devices : push'[x][y] = "none") /\ (\A j \in Commands : of[j] # x)
    <3>1. x # e BY <1>0, <2>2
    <3> QED BY <1>3, <2>2, <3>1 DEF Rows
  <2> QED BY <1>2, <2>1, <2>2 DEF Rows
<1>12. Ownership'
  <2>1. \A j \in Commands, y \in Devices : Busy(j, y)' => Busy(j, y)
    BY <1>4 DEF Busy, Live
  <2>2. \A j \in Commands, y \in Devices : Live(j, y) => of[j] \in Owners
    BY LiveAttempt
  <2>3. ASSUME NEW j \in Commands, NEW y \in Devices, Busy(j, y)'
        PROVE  ckpt'[of[j]][y] # "none"
    <3>1. Busy(j, y) /\ of[j] \in Owners /\ ckpt[of[j]][y] # "none"
      BY <2>1, <2>2, <2>3 DEF Ownership, Busy
    <3>2. CASE of[j] = e /\ y = d
      <4>1. Busy(k, d) => j = k BY <1>7, <3>1, <3>2 DEF Ownership
      <4>2. Busy(k, d) /\ to \in {"catch", "done"} => ~Busy(j, y)'
        BY <1>4, <4>1, <3>2 DEF Busy, Live
      <4> QED BY <1>3, <1>7, <2>3, <3>1, <3>2, <4>2
    <3> QED BY <1>3, <3>1, <3>2
  <2> QED BY <1>2, <2>1, <2>3 DEF Ownership
<1>13. Kept'
  <2> SUFFICES ASSUME NEW x \in Enrollments, NEW y \in Devices, NEW j \in Commands,
                      Standing(j, x, y)
               PROVE  push'[x][y] = "success" \/ ckpt'[x][y] # "none"
    BY <1>2 DEF Kept, Standing
  <2>1. CASE x = e /\ y = d
    <3>1. call[k][d] = "rejected" /\ Busy(k, d) => FALSE
      BY <1>7, <2>1 DEF Ownership, Standing
    <3>2. ckpt[e][d] = "none" => push[e][d] = "success"
      BY <2>1 DEF Kept
    <3> QED BY <1>0, <1>3, <1>7, <2>1, <3>1, <3>2
  <2> QED BY <1>3, <1>5, <2>1 DEF Kept
<1>14. NoReplay' BY <1>2 DEF NoReplay, Standing
<1>15. Real'
  <2>1. \A y \in Devices : mapping'[y] # "none" => mapping[y] # "none" \/ (y = d /\ call[k][d] = "applied")
    BY DEF TypeOK
  <2> QED BY <1>2, <1>3, <1>5, <1>7, <2>1 DEF Real
<1>16. Once'
  <2>1. Backfill \in Owners /\ Purge \in Owners /\ e # Backfill /\ e # Purge
    BY <1>0, SagaAssumption DEF Owners
  <2> QED BY <1>2, <1>3, <2>1 DEF Once
<1>17. Whole' BY <1>0, <1>2, <1>3, <1>6, <1>7 DEF Whole, Nonterminal
<1>18. Calm'
  <2> SUFFICES ASSUME faults' = 0 PROVE Calm' BY DEF Calm
  <2>1. faults = 0 BY DEF TypeOK
  <2>2. ASSUME NEW x \in Enrollments, NEW y \in Devices, push'[x][y] \in Nonterminal
        PROVE  \E j \in Commands : of[j] = x /\ Live(j, y)'
    <3>1. CASE x = e /\ y = d
      BY <1>3, <1>4, <1>7, <2>2, <3>1 DEF Live
    <3>2. CASE ~(x = e /\ y = d)
      <4>1. PICK j \in Commands : of[j] = x /\ Live(j, y) BY <1>3, <2>1, <2>2, <3>2 DEF Calm
      <4> QED BY <1>4, <1>7, <3>2, <4>1 DEF Live
    <3> QED BY <3>1, <3>2
  <2>3. ASSUME NEW x \in Enrollments, status[x] # "none",
               \A j \in Commands : of[j] = x => driver[j] # "running"
        PROVE  status[x] = FinalStatus(push'[x])
    BY <1>0, <1>3, <1>7, <2>1, <2>3 DEF Calm
  <2> QED BY <1>0, <1>2, <2>1, <2>2, <2>3 DEF Calm
<1> QED BY <1>8, <1>9, <1>10, <1>11, <1>12, <1>13, <1>14, <1>15, <1>16, <1>17, <1>18

(* A refused write of an attempt, and a panic: only the attempt moves.      *)
LEMMA Withdraws ==
  ASSUME SagaInv, NEW k \in Commands, NEW d \in Devices, Live(k, d), Fault,
         NEW to \in {"manual", "catch", "done", "unsaved"},
         to \notin {"catch", "done"} => Busy(k, d),
         to = "unsaved" => pc[k][d] = "complete",
         pc' = [pc EXCEPT ![k][d] = to],
         UNCHANGED <<dbVars, peopleVars, face, of, driver, call, fillVars, revokeVars, bootVars>>
  PROVE  SagaInv'
<1>1. of[k] \in Enrollments /\ of[k] \in Owners BY LiveAttempt
<1>2. /\ push[of[k]][d] \in PushStates /\ ckpt[of[k]][d] \in CkptStates
      /\ push \in [Enrollments -> [Devices -> PushStates]]
      /\ ckpt \in [Owners -> [Devices -> CkptStates]]
  BY <1>1 DEF SagaInv, TypeOK, CkptStates
<1>3. /\ Put(push, push', Enrollments, of[k], d, push[of[k]][d])
      /\ Put(ckpt, ckpt', Owners, of[k], d, ckpt[of[k]][d])
  BY <1>1, PutSame DEF dbVars
<1>4. faults' # 0 /\ faults' \in 0..MaxFaults BY FaultCounted DEF SagaInv
<1>5. to \in {"accepted", "complete", "unsaved"} => call[k][d] = "applied"
  BY DEF SagaInv, CallShape
<1>6. (push[of[k]][d] \in {"none", "success"} => ckpt[of[k]][d] = "none")
      /\ (push[of[k]][d] \in Nonterminal => ckpt[of[k]][d] # "none")
  BY <1>1 DEF SagaInv, Rows
<1>7. to \in AttemptPcs \ {"none"} /\ to # "rejected" BY DEF AttemptPcs
<1>8. Writes(k, d, push[of[k]][d], ckpt[of[k]][d], to)
  BY <1>1, <1>2, <1>3, <1>4, <1>7 DEF Writes, dbVars
<1>9. GoesOn(k, d, push[of[k]][d], to) /\ Lawful(k, d, push[of[k]][d], ckpt[of[k]][d], to)
  BY <1>4, <1>5, <1>6, <1>7 DEF GoesOn, Lawful
<1> QED BY <1>8, <1>9, AttemptWrites

(* The reader call of an attempt: it is sent, or answered, or given up.     *)
LEMMA EnrollStep ==
  ASSUME SagaInv, NEW k \in Commands, NEW d \in Devices, enroll(k, d)
  PROVE  SagaInv'
<1> USE DEF peopleVars, fillVars, revokeVars, bootVars, dbVars
<1>a. Live(k, d) /\ Busy(k, d) /\ phase = "up" BY DEF enroll, Live, Busy
<1>b. /\ of[k] \in Enrollments /\ of[k] \in Owners
      /\ push[of[k]][d] \in PushStates /\ ckpt[of[k]][d] \in CkptStates
      /\ (push[of[k]][d] \in {"none", "success"} => ckpt[of[k]][d] = "none")
      /\ (push[of[k]][d] \in Nonterminal => ckpt[of[k]][d] # "none")
      /\ ckpt[of[k]][d] # "none"
      /\ driver[k] = "running"
  BY <1>a, LiveAttempt DEF SagaInv, TypeOK, CkptStates, Rows, Ownership
<1>c. /\ push \in [Enrollments -> [Devices -> PushStates]]
      /\ ckpt \in [Owners -> [Devices -> CkptStates]]
  BY DEF SagaInv, TypeOK, CkptStates
\* only the attempt moves
<1>1. ASSUME NEW to \in {"accepted", "manual"}, to = "accepted" => call[k][d] = "applied",
             pc' = [pc EXCEPT ![k][d] = to], UNCHANGED call
      PROVE  SagaInv'
  <2>1. /\ Put(push, push', Enrollments, of[k], d, push[of[k]][d])
        /\ Put(ckpt, ckpt', Owners, of[k], d, ckpt[of[k]][d])
    BY <1>b, PutSame DEF enroll
  <2>2. to \in AttemptPcs \ {"none"} BY DEF AttemptPcs
  <2>3. Writes(k, d, push[of[k]][d], ckpt[of[k]][d], to)
    BY <1>1, <1>a, <1>b, <1>c, <2>1, <2>2 DEF enroll, Writes
  <2>4. GoesOn(k, d, push[of[k]][d], to) /\ Lawful(k, d, push[of[k]][d], ckpt[of[k]][d], to)
    BY <1>1, <1>a, <1>b DEF GoesOn, Lawful
  <2> QED BY <1>a, <2>3, <2>4, AttemptWrites
\* the call leaves, or is rejected
<1>2. ASSUME NEW to \in {"sent", "rejected"}, pc[k][d] \in {"call", "sent"},
             to = "sent" => pc[k][d] = "call", to = "rejected" => call[k][d] = "sent",
             pc' = [pc EXCEPT ![k][d] = to], call' = [call EXCEPT ![k][d] = to]
      PROVE  SagaInv'
  <2>1. to \in AttemptPcs /\ to \in CallStates BY DEF AttemptPcs, CallStates
  <2>2. /\ pc' \in [Commands -> [Devices -> AttemptPcs]] /\ Put(pc, pc', Commands, k, d, to)
        /\ call' \in [Commands -> [Devices -> CallStates]] /\ Put(call, call', Commands, k, d, to)
    BY <1>2, <2>1, PcUpdate, CallUpdate DEF SagaInv
  <2>3. \A x \in Commands, y \in Devices :
          /\ pc'[x][y] = IF x = k /\ y = d THEN to ELSE pc[x][y]
          /\ call'[x][y] = IF x = k /\ y = d THEN to ELSE call[x][y]
    BY <2>2 DEF Put
  <2>4. UNCHANGED <<reg, leaver, photo, status, push, ckpt, mapping, face, of, driver, fill,
                    fillCall, revoke, revoked, phase, todo, halfway, faults>>
    BY DEF enroll
  <2>5. \A x \in Commands, y \in Devices : Live(x, y)' = Live(x, y) /\ Busy(x, y)' = Busy(x, y)
    BY <1>2, <1>a, <2>3 DEF Live, Busy
  <2> USE DEF SagaInv
  <2>6. TypeOK' BY <2>2, <2>4 DEF TypeOK
  <2>7. Memory'
    <3>1. \A x \in Commands : driver[x] = "unused" => x # k BY <1>b
    <3> QED BY <2>3, <2>4, <2>5, <3>1 DEF Memory, Live
  <2>8. CallShape'
    <3>1. ASSUME NEW x \in Commands, NEW y \in Devices
          PROVE  /\ pc'[x][y] \in {"start", "call"} => call'[x][y] = "none"
                 /\ pc'[x][y] = "rejected" => call'[x][y] = "rejected"
                 /\ pc'[x][y] \in {"accepted", "complete", "unsaved"} => call'[x][y] = "applied"
      <4>1. CASE x = k /\ y = d BY <2>3, <4>1
      <4>2. CASE ~(x = k /\ y = d) BY <2>3, <4>2 DEF CallShape
      <4> QED BY <4>1, <4>2
    <3> QED BY <3>1 DEF CallShape
  <2>9. Rows' BY <2>4 DEF Rows
  \* no other attempt is busy and no other call stands on the reader of this one
  <2>10. \A j \in Commands : of[j] = of[k] /\ j # k => ~Busy(j, d) /\ call[j][d] \notin {"sent", "applied"}
    BY <1>a DEF Ownership
  <2>11. Ownership'
    <3> SUFFICES ASSUME NEW x \in Commands, NEW y \in Devices, Busy(x, y),
                        NEW j \in Commands, of[j] = of[x], j # x
                 PROVE  ~Busy(j, y) /\ call'[j][y] \notin {"sent", "applied"}
      BY <2>4, <2>5 DEF Ownership
    <3>1. ~Busy(j, y) /\ call[j][y] \notin {"sent", "applied"} BY DEF Ownership
    <3>2. CASE j = k /\ y = d BY <1>a, <3>1, <3>2
    <3>3. CASE ~(j = k /\ y = d) BY <2>3, <3>1, <3>3
    <3> QED BY <3>2, <3>3
  <2>12. Kept'
    <3> SUFFICES ASSUME NEW x \in Enrollments, NEW y \in Devices, NEW j \in Commands, Standing(j, x, y)'
                 PROVE  push[x][y] = "success" \/ ckpt[x][y] # "none"
      BY <2>4 DEF Kept
    <3>1. CASE j = k /\ y = d BY <1>b, <2>4, <3>1 DEF Standing
    <3>2. CASE ~(j = k /\ y = d) BY <2>3, <2>4, <3>2 DEF Kept, Standing
    <3> QED BY <3>1, <3>2
  <2>13. NoReplay'
    <3> SUFFICES ASSUME NEW x \in Enrollments, NEW y \in Devices, NEW i \in Commands, NEW j \in Commands,
                        Standing(i, x, y)', Standing(j, x, y)', i # j
                 PROVE  FALSE
      BY DEF NoReplay
    <3>1. CASE y = d /\ (i = k \/ j = k)
      BY <2>3, <2>4, <2>10, <3>1 DEF Standing
    <3>2. CASE ~(y = d /\ (i = k \/ j = k))
      BY <2>3, <2>4, <3>2 DEF Standing, NoReplay
    <3> QED BY <3>1, <3>2
  \* the call was not applied before
  <2>14. call[k][d] # "applied"
    BY <1>2 DEF CallShape
  <2>15. Real'
    <3>1. \A j \in Commands, y \in Devices : call[j][y] = "applied" => call'[j][y] = "applied"
      BY <2>3, <2>14
    <3> QED BY <2>4, <3>1 DEF Real
  <2>16. Once' /\ Whole' BY <2>4 DEF Once, Whole
  <2>17. Calm' BY <2>4, <2>5 DEF Calm
  <2> QED BY <2>6, <2>7, <2>8, <2>9, <2>11, <2>12, <2>13, <2>15, <2>16, <2>17
<1> QED BY <1>1, <1>2 DEF enroll

(* Every step of push_enrollment_device under its wrapper.                  *)
LEMMA AttemptStep ==
  ASSUME SagaInv, NEW k \in Commands, NEW d \in Devices, Attempt(k, d) \/ push_panics(k, d)
  PROVE  SagaInv'
<1> DEFINE e == of[k]
           Goes(to) == /\ pc' = [pc EXCEPT ![k][d] = to]
                       /\ UNCHANGED <<peopleVars, face, of, driver, fillVars, revokeVars, bootVars>>
                       /\ UNCHANGED <<call>>
<1> USE DEF Goes
<1>a. TypeOK /\ CallShape BY DEF SagaInv
<1>b. Live(k, d) => /\ e \in Enrollments /\ e \in Owners
                    /\ push[e][d] \in PushStates /\ ckpt[e][d] \in CkptStates
                    /\ (push[e][d] \in {"none", "success"} => ckpt[e][d] = "none")
                    /\ (push[e][d] \in Nonterminal => ckpt[e][d] # "none")
                    /\ (Busy(k, d) => ckpt[e][d] # "none")
  BY LiveAttempt DEF SagaInv, TypeOK, CkptStates, Rows, Ownership
<1>c. /\ push \in [Enrollments -> [Devices -> PushStates]]
      /\ ckpt \in [Owners -> [Devices -> CkptStates]]
  BY <1>a DEF TypeOK, CkptStates
<1>1. CASE push_starts(k, d)
  <2>1. Busy(k, d) /\ Live(k, d) /\ call[k][d] = "none"
    BY <1>1, <1>a DEF push_starts, Persist, Busy, Live, CallShape
  <2>2. CASE Refused /\ Goes("manual")
    BY <2>1, <2>2, Withdraws DEF Refused
  <2>3. CASE mark_push_in_progress(e, d) /\ Goes("call") /\ UNCHANGED faults
    <3>1. /\ push' \in [Enrollments -> [Devices -> PushStates]]
          /\ Put(push, push', Enrollments, e, d, "in_progress")
      BY <1>a, <1>b, <2>1, <2>3, PushUpdate DEF mark_push_in_progress, PushStates, Nonterminal
    <3>2. Put(ckpt, ckpt', Owners, e, d, ckpt[e][d]) /\ ckpt' = ckpt
      BY <1>b, <2>1, <2>3, PutSame DEF mark_push_in_progress
    <3>3. "in_progress" \in PushStates /\ "call" \in AttemptPcs
      BY DEF PushStates, Nonterminal, AttemptPcs
    <3>4. Writes(k, d, "in_progress", ckpt[e][d], "call")
      BY <1>b, <1>c, <2>1, <2>3, <3>1, <3>2, <3>3 DEF mark_push_in_progress, Writes
    <3>5. GoesOn(k, d, "in_progress", "call") /\ Lawful(k, d, "in_progress", ckpt[e][d], "call")
      BY <1>b, <2>1, <3>3 DEF GoesOn, Lawful, Nonterminal
    <3> QED BY <2>1, <3>4, <3>5, AttemptWrites
  <2> QED BY <1>1, <2>2, <2>3 DEF push_starts, Persist
<1>2. CASE push_applied(k, d)
  <2>1. Busy(k, d) /\ Live(k, d) /\ call[k][d] = "applied" BY <1>2, <1>a DEF push_applied, Persist, Busy, Live, CallShape
  <2>2. CASE Refused /\ Goes("manual")
    BY <1>2, <2>1, <2>2, Withdraws DEF Refused, push_applied, Persist
  <2>3. CASE mark_device_operation(e, d, "device_applied") /\ Goes("complete") /\ UNCHANGED faults
    <3>1. /\ ckpt' \in [Owners -> [Devices -> CkptStates]]
          /\ Put(ckpt, ckpt', Owners, e, d, "device_applied")
      BY <1>a, <1>b, <2>1, <2>3, CkptMark DEF mark_device_operation, CkptStates
    <3>2. Put(push, push', Enrollments, e, d, push[e][d]) /\ push' = push
      BY <1>b, <2>1, <2>3, PutSame DEF mark_device_operation
    <3>3. "device_applied" \in CkptStates /\ "complete" \in AttemptPcs
      BY DEF CkptStates, AttemptPcs
    <3>4. Writes(k, d, push[e][d], "device_applied", "complete")
      BY <1>b, <1>c, <2>1, <2>3, <3>1, <3>2, <3>3 DEF mark_device_operation, Writes
    <3>5. GoesOn(k, d, push[e][d], "complete") /\ Lawful(k, d, push[e][d], "device_applied", "complete")
      BY <1>b, <2>1, <3>3 DEF GoesOn, Lawful, Nonterminal
    <3> QED BY <2>1, <3>4, <3>5, AttemptWrites
  <2> QED BY <1>2, <2>2, <2>3 DEF push_applied, Persist
<1>3. CASE push_completes(k, d)
  <2>1. Busy(k, d) /\ Live(k, d) /\ call[k][d] = "applied" BY <1>3, <1>a DEF push_completes, Persist, Busy, Live, CallShape
  <2>2. CASE Refused /\ Goes("unsaved")
    BY <1>3, <2>1, <2>2, Withdraws DEF Refused, push_completes, Persist
  <2>3. CASE complete_push_success(e, d) /\ Goes("done") /\ UNCHANGED faults
    <3>1. /\ push' \in [Enrollments -> [Devices -> PushStates]]
          /\ Put(push, push', Enrollments, e, d, "success")
      BY <1>a, <1>b, <2>1, <2>3, PushUpdate DEF complete_push_success, PushStates
    <3>2. /\ ckpt' \in [Owners -> [Devices -> CkptStates]]
          /\ Put(ckpt, ckpt', Owners, e, d, "none")
      BY <1>a, <1>b, <2>1, <2>3, CkptUpdate DEF complete_push_success, CkptStates
    <3>3. "success" \in PushStates /\ "success" \notin Nonterminal /\ "none" \in CkptStates
          /\ "done" \in AttemptPcs
      BY DEF PushStates, Nonterminal, CkptStates, AttemptPcs
    <3>4. Writes(k, d, "success", "none", "done")
      BY <1>b, <2>1, <2>3, <3>1, <3>2, <3>3 DEF complete_push_success, SetMapping, Writes
    <3>5. GoesOn(k, d, "success", "done") /\ Lawful(k, d, "success", "none", "done")
      BY <1>b, <2>1, <3>3 DEF GoesOn, Lawful, Nonterminal
    <3> QED BY <2>1, <3>4, <3>5, AttemptWrites
  <2> QED BY <1>3, <2>2, <2>3 DEF push_completes, Persist
<1>4. CASE push_unsaved(k, d)
  <2>1. Busy(k, d) /\ Live(k, d) BY <1>4 DEF push_unsaved, Persist, Busy, Live
  <2>2. CASE Refused /\ Goes("catch")
    BY <1>4, <2>1, <2>2, Withdraws DEF Refused, push_unsaved, Persist
  <2>3. CASE record_push_recovery_failure(e, d, FALSE) /\ Goes("catch") /\ UNCHANGED faults
    <3>1. /\ push' \in [Enrollments -> [Devices -> PushStates]]
          /\ Put(push, push', Enrollments, e, d, "failed")
      BY <1>a, <1>b, <2>1, <2>3, PushUpdate DEF record_push_recovery_failure, PushStates
    <3>2. Put(ckpt, ckpt', Owners, e, d, ckpt[e][d]) /\ ckpt' = ckpt
      BY <1>b, <2>1, <2>3, PutSame DEF record_push_recovery_failure
    <3>3. "failed" \in PushStates /\ "failed" \notin Nonterminal /\ "catch" \in AttemptPcs
      BY DEF PushStates, Nonterminal, AttemptPcs
    <3>4. Writes(k, d, "failed", ckpt[e][d], "catch")
      BY <1>b, <1>c, <2>1, <2>3, <3>1, <3>2, <3>3 DEF record_push_recovery_failure, Writes
    <3>5. GoesOn(k, d, "failed", "catch") /\ Lawful(k, d, "failed", ckpt[e][d], "catch")
      BY <1>b, <2>1, <3>3 DEF GoesOn, Lawful, Nonterminal
    <3> QED BY <2>1, <3>4, <3>5, AttemptWrites
  <2> QED BY <1>4, <2>2, <2>3 DEF push_unsaved, Persist
<1>5. CASE push_rejected(k, d)
  <2>1. Busy(k, d) /\ Live(k, d) /\ call[k][d] = "rejected" BY <1>5, <1>a DEF push_rejected, Persist, Busy, Live, CallShape
  <2>2. CASE Refused /\ Goes("catch")
    BY <1>5, <2>1, <2>2, Withdraws DEF Refused, push_rejected, Persist
  <2>3. CASE complete_push_failure(e, d) /\ Goes("catch") /\ UNCHANGED faults
    <3>1. /\ push' \in [Enrollments -> [Devices -> PushStates]]
          /\ Put(push, push', Enrollments, e, d, "failed")
      BY <1>a, <1>b, <2>1, <2>3, PushUpdate DEF complete_push_failure, PushStates
    <3>2. /\ ckpt' \in [Owners -> [Devices -> CkptStates]]
          /\ Put(ckpt, ckpt', Owners, e, d, "none")
      BY <1>a, <1>b, <2>1, <2>3, CkptUpdate DEF complete_push_failure, CkptStates
    <3>3. "failed" \in PushStates /\ "failed" \notin Nonterminal /\ "none" \in CkptStates
          /\ "catch" \in AttemptPcs
      BY DEF PushStates, Nonterminal, CkptStates, AttemptPcs
    <3>4. Writes(k, d, "failed", "none", "catch")
      BY <1>b, <2>1, <2>3, <3>1, <3>2, <3>3 DEF complete_push_failure, Writes
    <3>5. GoesOn(k, d, "failed", "catch") /\ Lawful(k, d, "failed", "none", "catch")
      BY <1>b, <2>1, <3>3 DEF GoesOn, Lawful, Nonterminal
    <3> QED BY <2>1, <3>4, <3>5, AttemptWrites
  <2> QED BY <1>5, <2>2, <2>3 DEF push_rejected, Persist
<1>6. CASE push_manual(k, d)
  <2>1. Busy(k, d) /\ Live(k, d) BY <1>6 DEF push_manual, Persist, Busy, Live
  <2>2. CASE Refused /\ Goes("catch")
    BY <1>6, <2>1, <2>2, Withdraws DEF Refused, push_manual, Persist
  <2>3. CASE record_push_recovery_failure(e, d, TRUE) /\ Goes("catch") /\ UNCHANGED faults
    <3>1. /\ push' \in [Enrollments -> [Devices -> PushStates]]
          /\ Put(push, push', Enrollments, e, d, "failed")
      BY <1>a, <1>b, <2>1, <2>3, PushUpdate DEF record_push_recovery_failure, PushStates
    <3>2. /\ ckpt' \in [Owners -> [Devices -> CkptStates]]
          /\ Put(ckpt, ckpt', Owners, e, d, "manual")
      BY <1>a, <1>b, <2>1, <2>3, CkptMark DEF record_push_recovery_failure, CkptStates
    <3>3. "failed" \in PushStates /\ "failed" \notin Nonterminal /\ "manual" \in CkptStates
          /\ "catch" \in AttemptPcs
      BY DEF PushStates, Nonterminal, CkptStates, AttemptPcs
    <3>4. Writes(k, d, "failed", "manual", "catch")
      BY <1>b, <2>1, <2>3, <3>1, <3>2, <3>3 DEF record_push_recovery_failure, Writes
    <3>5. GoesOn(k, d, "failed", "catch") /\ Lawful(k, d, "failed", "manual", "catch")
      BY <1>b, <2>1, <3>3 DEF GoesOn, Lawful, Nonterminal
    <3> QED BY <2>1, <3>4, <3>5, AttemptWrites
  <2> QED BY <1>6, <2>2, <2>3 DEF push_manual, Persist
<1>7. CASE push_catch(k, d)
  <2>1. Live(k, d) BY <1>7 DEF push_catch, Persist, Live
  <2>2. CASE Refused /\ Goes("done")
    BY <2>1, <2>2, Withdraws DEF Refused
  <2>3. CASE terminalize_authorized_failure(e, d) /\ Goes("done") /\ UNCHANGED faults
    <3> DEFINE p == IF push[e][d] \in Nonterminal THEN "failed" ELSE push[e][d]
               c == IF ckpt[e][d] = "prepared" THEN "manual" ELSE ckpt[e][d]
    <3>1. p \in PushStates /\ c \in CkptStates /\ "done" \in AttemptPcs /\ p \notin Nonterminal
      BY <1>b, <2>1 DEF PushStates, Nonterminal, CkptStates, AttemptPcs
    <3>2. /\ push' \in [Enrollments -> [Devices -> PushStates]]
          /\ Put(push, push', Enrollments, e, d, p)
      BY <1>b, <1>c, <2>1, <2>3, <3>1, UpdateAt DEF terminalize_authorized_failure
    <3>3. /\ ckpt' \in [Owners -> [Devices -> CkptStates]]
          /\ Put(ckpt, ckpt', Owners, e, d, c)
      BY <1>b, <1>c, <2>1, <2>3, <3>1, UpdateAt DEF terminalize_authorized_failure
    <3>4. /\ p \in {"none", "success"} => p = push[e][d] /\ c = "none"
          /\ p = push[e][d] \/ (p = "failed" /\ push[e][d] \in Nonterminal)
          /\ c = "none" => ckpt[e][d] = "none" /\ p = push[e][d]
          /\ c = "device_applied" => c = ckpt[e][d]
      BY <1>b, <2>1 DEF Nonterminal
    <3> HIDE DEF p, c
    <3>5. Writes(k, d, p, c, "done")
      BY <1>b, <2>1, <2>3, <3>1, <3>2, <3>3, <3>4 DEF terminalize_authorized_failure, Writes
    <3>6. GoesOn(k, d, p, "done") /\ Lawful(k, d, p, c, "done")
      BY <1>b, <2>1, <3>1, <3>4 DEF GoesOn, Lawful
    <3> QED BY <2>1, <3>5, <3>6, AttemptWrites
  <2> QED BY <1>7, <2>2, <2>3 DEF push_catch, Persist
<1>8. CASE push_panics(k, d)
  BY <1>8, Withdraws DEF push_panics, Live
<1>9. CASE enroll(k, d)
  BY <1>9, EnrollStep
<1> QED BY <1>1, <1>2, <1>3, <1>4, <1>5, <1>6, <1>7, <1>8, <1>9 DEF Attempt

-----------------------------------------------------------------------------
(* Administrators, backfill and purge: steps that leave the enrollments     *)
(* alone.                                                                   *)

(* Of the invariant, all that is about enrollments is kept by such a step,  *)
(* if it only writes a mapping the reader has confirmed.                    *)
LEMMA Aside ==
  ASSUME SagaInv, UNCHANGED <<status, push, of, driver, pc, call, phase, todo>>,
         phase = "up" \/ ckpt' = ckpt,
         faults' = faults \/ faults' # 0,
         \A e \in Enrollments, d \in Devices : ckpt'[e][d] = ckpt[e][d],
         \A d \in Devices : fillCall[d] = "applied" => fillCall'[d] = "applied",
         \A d \in Devices : mapping'[d] # "none" => mapping[d] # "none" \/ fillCall'[d] = "applied"
  PROVE  /\ Memory' /\ CallShape' /\ Rows' /\ Ownership' /\ Kept' /\ NoReplay'
         /\ Real' /\ Whole' /\ Calm'
<1> USE DEF SagaInv
<1>1. Memory'
  <2>1. ASSUME NEW o \in Owners, NEW d \in Devices, <<o, d>> \in todo
        PROVE  phase = "recovering" /\ ckpt'[o][d] # "none"
    <3>1. phase = "recovering" /\ ckpt[o][d] # "none" BY <2>1 DEF Memory
    <3> QED BY <3>1
  <2> QED BY <2>1 DEF Memory, Live
<1>2. CallShape' BY DEF CallShape
<1>3. Rows' BY DEF Rows
<1>4. Ownership'
  <2>1. \A k \in Commands, d \in Devices : Busy(k, d) => of[k] \in Enrollments
    BY LiveAttempt DEF Busy
  <2> QED BY <2>1 DEF Ownership, Busy, Live
<1>5. Kept' /\ NoReplay' BY DEF Kept, NoReplay, Standing
<1>6. Real' BY DEF Real
<1>7. Whole' BY DEF Whole
<1>8. Calm' BY DEF Calm, Live
<1> QED BY <1>1, <1>2, <1>3, <1>4, <1>5, <1>6, <1>7, <1>8

(* The checkpoints of backfill and purge are none of the enrollments'.      *)
LEMMA OwnersApart ==
  /\ Backfill \in Owners /\ Purge \in Owners /\ Backfill # Purge
  /\ \A e \in Enrollments : e # Backfill /\ e # Purge /\ e \in Owners
BY SagaAssumption DEF Owners

(* Readers come and go; the employee leaves.                                *)
LEMMA PeopleStep ==
  ASSUME SagaInv,
         \/ \E d \in Devices : create_device(d) \/ switch_device(d)
         \/ deactivate_employee \/ purge_enrolled_faces \/ send_purge_request
         \/ drop_request \/ process_employee
  PROVE  SagaInv'
<1> USE DEF SagaInv, peopleVars, fillVars, revokeVars, bootVars, dbVars, attemptVars
<1>1. CASE \E d \in Devices : create_device(d)
  <2> SUFFICES ASSUME NEW d \in Devices, create_device(d) PROVE SagaInv' BY <1>1
  <2>1. (faults' = faults \/ faults' # 0) /\ faults' \in 0..MaxFaults
    BY FaultCounted DEF create_device, TypeOK
  <2>2. /\ UNCHANGED <<leaver, photo, status, push, ckpt, mapping, face, of, driver, pc, call,
                       fillCall, revoke, revoked, phase, todo, halfway>>
        /\ phase = "up" /\ reg[d] = "absent" /\ reg' = [reg EXCEPT ![d] = "active"]
        /\ fill' = fill \/ fill' = [fill EXCEPT ![d] = "queued"]
    BY DEF create_device
  <2>3. TypeOK' BY <2>1, <2>2 DEF TypeOK, FillPcs
  <2>4. Once' BY <2>2 DEF Once, TypeOK
  <2> QED BY <2>1, <2>2, <2>3, <2>4, Aside
<1>2. CASE \E d \in Devices : switch_device(d)
  <2> SUFFICES ASSUME NEW d \in Devices, switch_device(d) PROVE SagaInv' BY <1>2
  <2>1. UNCHANGED <<leaver, photo, status, push, ckpt, mapping, face, of, driver, pc, call,
                    fill, fillCall, revoke, revoked, phase, todo, halfway, faults>>
    BY DEF switch_device
  <2>2. \E s \in {"active", "paused", "deleted", "revived"} :
          reg[d] # "absent" /\ reg' = [reg EXCEPT ![d] = s]
    BY DEF switch_device, Usable
  <2>3. TypeOK' BY <2>1, <2>2 DEF TypeOK
  <2>4. Once' BY <2>1, <2>2 DEF Once, TypeOK
  <2> QED BY <2>1, <2>3, <2>4, Aside
<1>3. ASSUME NEW from \in {"employed", "inactive", "erased"},
             NEW to \in {"inactive", "erased", "queued", "swept"}, NEW gone \in BOOLEAN,
             deactivate(from, to, gone), faults' = faults \/ Fault
      PROVE  SagaInv'
  <2>1. (faults' = faults \/ faults' # 0) /\ faults' \in 0..MaxFaults
    BY <1>3, FaultCounted DEF TypeOK
  <2>2. /\ UNCHANGED <<reg, status, push, ckpt, mapping, face, of, driver, pc, call,
                       fill, fillCall, revoke, revoked, phase, todo, halfway>>
        /\ phase = "up" /\ leaver # "swept" /\ leaver' = to /\ photo' \in BOOLEAN
    BY <1>3 DEF deactivate
  <2>3. TypeOK' BY <2>1, <2>2 DEF TypeOK
  <2>4. Once' BY <2>2 DEF Once
  <2> QED BY <2>1, <2>2, <2>3, <2>4, Aside
<1>4. CASE process_employee
  <2>1. /\ UNCHANGED <<reg, photo, status, push, ckpt, mapping, face, of, driver, pc, call,
                       fill, fillCall, revoked, phase, todo, halfway, faults>>
        /\ phase = "up" /\ leaver # "swept" /\ leaver' = "swept"
        /\ revoke' \in [Devices -> {"none", "listed"}]
    BY <1>4 DEF process_employee, RevokeFrame
  <2>2. TypeOK' BY <2>1 DEF TypeOK, RevokePcs
  <2>3. Once' BY <2>1 DEF Once
  <2> QED BY <2>1, <2>2, <2>3, Aside
<1> QED
  BY <1>1, <1>2, <1>3, <1>4
  DEF deactivate_employee, purge_enrolled_faces, send_purge_request, drop_request

(* One step of the backfill of d: it goes to, its call is cs afterwards,    *)
(* its checkpoint may change, and the mapping may become active.            *)
FillMove(d, to, cs) ==
  /\ phase = "up" /\ fill[d] # "none"
  /\ to \in FillPcs \ {"none"} /\ cs \in CallStates
  /\ fill' = [fill EXCEPT ![d] = to]
  /\ fillCall' = [fillCall EXCEPT ![d] = cs]
  /\ fillCall[d] = "applied" => cs = "applied"
  /\ to \in {"queued", "admit", "call"} => cs = "none"
  /\ to \in {"accepted", "complete"} => cs = "applied"
  /\ ckpt' \in [Owners -> [Devices -> CkptStates]]
  /\ \A x \in Owners, y \in Devices : ckpt'[x][y] = ckpt[x][y] \/ (x = Backfill /\ y = d)
  /\ ckpt'[Backfill][d] = "device_applied" => cs = "applied"
  /\ mapping' = mapping \/ (mapping' = [mapping EXCEPT ![d] = "active"] /\ cs = "applied")
  /\ faults' = faults \/ Fault
  /\ UNCHANGED <<status, push>>
  /\ FillFrame

(* A move of the backfill worker keeps the invariant.                       *)
LEMMA FillMoves ==
  ASSUME SagaInv, NEW d \in Devices, NEW to, NEW cs, FillMove(d, to, cs)
  PROVE  SagaInv'
<1> USE DEF SagaInv, FillMove, FillFrame, peopleVars, revokeVars, bootVars, attemptVars
<1>1. (faults' = faults \/ faults' # 0) /\ faults' \in 0..MaxFaults
  BY FaultCounted DEF TypeOK
<1>2. UNCHANGED <<reg, leaver, photo, status, push, face, of, driver, pc, call,
                  revoke, revoked, phase, todo, halfway>>
  OBVIOUS
<1>3. \A y \in Devices : /\ fill'[y] = IF y = d THEN to ELSE fill[y]
                         /\ fillCall'[y] = IF y = d THEN cs ELSE fillCall[y]
                         /\ mapping'[y] # "none" => mapping[y] # "none" \/ fillCall'[y] = "applied"
  BY DEF TypeOK
<1>4. TypeOK' BY <1>1, <1>2 DEF TypeOK, CkptStates
<1>5. Once'
  <2>1. \A y \in Devices : /\ ckpt'[Purge][y] = ckpt[Purge][y]
                           /\ y # d => ckpt'[Backfill][y] = ckpt[Backfill][y]
    BY OwnersApart
  <2>2. reg[d] # "absent" BY DEF Once
  <2>3. \A y \in Devices : fill[y] \in {"none", "queued", "admit", "call"} => fillCall[y] = "none"
    BY DEF Once
  <2> QED BY <1>2, <1>3, <2>1, <2>2, <2>3 DEF Once
<1>6. \A x \in Enrollments, y \in Devices : ckpt'[x][y] = ckpt[x][y]
  BY OwnersApart
<1>7. \A y \in Devices : fillCall[y] = "applied" => fillCall'[y] = "applied"
  BY <1>3
<1> QED BY <1>1, <1>2, <1>3, <1>4, <1>5, <1>6, <1>7, Aside

(* Every step of the backfill worker.                                       *)
LEMMA FillStep ==
  ASSUME SagaInv, NEW d \in Devices, Backfilling(d)
  PROVE  SagaInv'
<1> DEFINE cs == fillCall[d]
           Moves(to) == /\ phase = "up" /\ fill[d] # "none" /\ fill' = [fill EXCEPT ![d] = to]
                        /\ UNCHANGED fillCall /\ FillFrame
<1>a. TypeOK /\ Once BY DEF SagaInv
<1>b. /\ cs \in CallStates /\ fillCall = [fillCall EXCEPT ![d] = cs]
      /\ ckpt \in [Owners -> [Devices -> CkptStates]] /\ Backfill \in Owners
      /\ (ckpt[Backfill][d] = "device_applied" => cs = "applied")
  BY <1>a, OwnersApart DEF TypeOK, CkptStates, Once
\* the checkpoint does not move
<1>c. ASSUME NEW to \in FillPcs \ {"none"}, Moves(to), UNCHANGED <<status, push, ckpt, mapping>>,
             faults' = faults \/ Fault,
             to \in {"queued", "admit", "call"} => cs = "none",
             to \in {"accepted", "complete"} => cs = "applied"
      PROVE  SagaInv'
  <2>1. FillMove(d, to, cs) BY <1>b, <1>c DEF FillMove
  <2> QED BY <2>1, FillMoves
<1>d. ASSUME Refused, Moves("done") PROVE SagaInv'
  BY <1>c, <1>d DEF Refused, dbVars, FillPcs
\* the checkpoint becomes c
<1>e. ASSUME NEW to \in FillPcs \ {"none"}, Moves(to), NEW c \in CkptStates,
             Put(ckpt, ckpt', Owners, Backfill, d, c),
             ckpt' \in [Owners -> [Devices -> CkptStates]],
             c = "device_applied" => cs = "applied",
             \/ mapping' = mapping
             \/ cs = "applied" /\ mapping' = [mapping EXCEPT ![d] = "active"],
             UNCHANGED <<status, push, faults>>,
             to \in {"queued", "admit", "call"} => cs = "none",
             to \in {"accepted", "complete"} => cs = "applied"
      PROVE  SagaInv'
  <2>1. FillMove(d, to, cs) BY <1>b, <1>e DEF FillMove, Put
  <2> QED BY <2>1, FillMoves
<1>1. CASE fill_takes(d)
  <2>1. cs = "none" BY <1>1, <1>a DEF fill_takes, Once
  <2>2. Moves("admit") \/ Moves("done") BY <1>1 DEF fill_takes
  <2> QED BY <1>1, <1>c, <2>1, <2>2 DEF fill_takes, FillPcs, dbVars
<1>2. CASE fill_admits(d)
  <2>1. CASE Refused /\ Moves("done") BY <1>d, <2>1
  <2>2. CASE admit_device_operation(Backfill, d) /\ Moves("call") /\ UNCHANGED faults
    <3>1. /\ ckpt' \in [Owners -> [Devices -> CkptStates]]
          /\ Put(ckpt, ckpt', Owners, Backfill, d, "prepared")
      BY <1>a, <1>b, <2>2, CkptUpdate DEF admit_device_operation, CkptStates
    <3>2. cs = "none" BY <1>2, <1>a DEF fill_admits, FillWrite, Once
    <3>3. "prepared" \in CkptStates /\ "call" \in FillPcs \ {"none"} BY DEF CkptStates, FillPcs
    <3> QED BY <1>e, <2>2, <3>1, <3>2, <3>3 DEF admit_device_operation
  <2> QED BY <1>2, <2>1, <2>2 DEF fill_admits, FillWrite
<1>3. CASE fill_applied(d)
  <2>1. CASE Refused /\ Moves("done") BY <1>d, <2>1
  <2>2. CASE mark_device_operation(Backfill, d, "device_applied") /\ Moves("complete") /\ UNCHANGED faults
    <3> DEFINE c == IF ckpt[Backfill][d] = "none" THEN "none" ELSE "device_applied"
    <3>1. "device_applied" \in CkptStates /\ c \in CkptStates /\ "complete" \in FillPcs \ {"none"}
      BY DEF CkptStates, FillPcs
    <3>2. /\ ckpt' \in [Owners -> [Devices -> CkptStates]]
          /\ Put(ckpt, ckpt', Owners, Backfill, d, c)
      BY <1>a, <1>b, <2>2, <3>1, CkptMark DEF mark_device_operation
    <3>3. cs = "applied" BY <1>3, <1>a DEF fill_applied, FillWrite, Once
    <3> HIDE DEF c
    <3> QED BY <1>e, <2>2, <3>1, <3>2, <3>3 DEF mark_device_operation
  <2> QED BY <1>3, <2>1, <2>2 DEF fill_applied, FillWrite
<1>4. CASE fill_completes(d)
  <2>1. CASE Refused /\ Moves("done") BY <1>d, <2>1
  <2>2. CASE complete_backfill_mapping(d) /\ Moves("done") /\ UNCHANGED faults
    <3>1. /\ ckpt' \in [Owners -> [Devices -> CkptStates]]
          /\ Put(ckpt, ckpt', Owners, Backfill, d, "none")
      BY <1>a, <1>b, <2>2, CkptUpdate DEF complete_backfill_mapping, CkptStates
    <3>2. cs = "applied" BY <1>4, <1>a DEF fill_completes, FillWrite, Once
    <3>3. "none" \in CkptStates /\ "done" \in FillPcs \ {"none"} BY DEF CkptStates, FillPcs
    <3> QED BY <1>e, <2>2, <3>1, <3>2, <3>3 DEF complete_backfill_mapping, SetMapping
  <2> QED BY <1>4, <2>1, <2>2 DEF fill_completes, FillWrite
<1>5. CASE fill_manual(d)
  <2>1. CASE Refused /\ Moves("done") BY <1>d, <2>1
  <2>2. CASE mark_device_operation(Backfill, d, "manual") /\ Moves("done") /\ UNCHANGED faults
    <3> DEFINE c == IF ckpt[Backfill][d] = "none" THEN "none" ELSE "manual"
    <3>1. "manual" \in CkptStates /\ c \in CkptStates /\ "done" \in FillPcs \ {"none"}
          /\ c # "device_applied"
      BY DEF CkptStates, FillPcs
    <3>2. /\ ckpt' \in [Owners -> [Devices -> CkptStates]]
          /\ Put(ckpt, ckpt', Owners, Backfill, d, c)
      BY <1>a, <1>b, <2>2, <3>1, CkptMark DEF mark_device_operation
    <3> HIDE DEF c
    <3> QED BY <1>e, <2>2, <3>1, <3>2 DEF mark_device_operation
  <2> QED BY <1>5, <2>1, <2>2 DEF fill_manual, FillWrite
<1>6. CASE fill_calls(d)
  <2>1. CASE \E to \in {"accepted", "manual"} : Moves(to) /\ (to = "accepted" => cs = "applied")
    BY <1>6, <1>c, <2>1 DEF fill_calls, FillPcs, dbVars
  <2>2. CASE /\ fill[d] = "call" /\ fill' = [fill EXCEPT ![d] = "sent"]
             /\ fillCall' = [fillCall EXCEPT ![d] = "sent"]
    <3>1. cs = "none" BY <1>a, <2>2 DEF Once
    <3>2. FillMove(d, "sent", "sent")
      BY <1>6, <1>b, <2>2, <3>1 DEF FillMove, fill_calls, FillPcs, CallStates, dbVars
    <3> QED BY <3>2, FillMoves
  <2>3. CASE /\ fill[d] = "sent" /\ cs = "sent" /\ fill' = [fill EXCEPT ![d] = "manual"]
             /\ fillCall' = [fillCall EXCEPT ![d] = "rejected"]
    <3>1. FillMove(d, "manual", "rejected")
      BY <1>6, <1>b, <2>3 DEF FillMove, fill_calls, FillPcs, CallStates, dbVars
    <3> QED BY <3>1, FillMoves
  <2> QED BY <1>6, <2>1, <2>2, <2>3 DEF fill_calls
<1> QED BY <1>1, <1>2, <1>3, <1>4, <1>5, <1>6 DEF Backfilling

(* One step of the revocation of d, likewise: its mapping may be marked, or *)
(* deleted once the revocation has been carried out.                        *)
RevokeMove(d, to, cs) ==
  /\ phase = "up" /\ revoke[d] # "none"
  /\ to \in RevokePcs \ {"none", "listed"} /\ cs \in CallStates
  /\ revoke' = [revoke EXCEPT ![d] = to]
  /\ revoked' = [revoked EXCEPT ![d] = cs]
  /\ revoked[d] = "applied" => cs = "applied"
  /\ to = "call" => cs = "none"
  /\ to \in {"accepted", "complete"} => cs = "applied"
  /\ ckpt' \in [Owners -> [Devices -> CkptStates]]
  /\ \A x \in Owners, y \in Devices : ckpt'[x][y] = ckpt[x][y] \/ (x = Purge /\ y = d)
  /\ ckpt'[Purge][d] = "device_applied" => cs = "applied"
  /\ \/ mapping' = mapping
     \/ mapping' = [mapping EXCEPT ![d] = "none"]
     \/ mapping[d] # "none" /\ mapping' = [mapping EXCEPT ![d] = "pending_delete"]
  /\ faults' = faults \/ Fault
  /\ UNCHANGED <<leaver, status, push>>
  /\ RevokeFrame

(* A move of the purge worker keeps the invariant.                          *)
LEMMA RevokeMoves ==
  ASSUME SagaInv, NEW d \in Devices, NEW to, NEW cs, RevokeMove(d, to, cs)
  PROVE  SagaInv'
<1> USE DEF SagaInv, RevokeMove, RevokeFrame, fillVars, bootVars, attemptVars
<1>1. (faults' = faults \/ faults' # 0) /\ faults' \in 0..MaxFaults
  BY FaultCounted DEF TypeOK
<1>2. UNCHANGED <<reg, leaver, photo, status, push, face, of, driver, pc, call,
                  fill, fillCall, phase, todo, halfway>>
  OBVIOUS
<1>3. \A y \in Devices : /\ revoke'[y] = IF y = d THEN to ELSE revoke[y]
                         /\ revoked'[y] = IF y = d THEN cs ELSE revoked[y]
                         /\ mapping'[y] # "none" => mapping[y] # "none"
  BY DEF TypeOK
<1>4. TypeOK'
  <2>1. mapping' \in [Devices -> {"none", "active", "pending_delete"}] BY DEF TypeOK
  <2>2. revoke' \in [Devices -> RevokePcs] /\ revoked' \in [Devices -> CallStates] BY DEF TypeOK
  <2> QED BY <1>1, <1>2, <2>1, <2>2 DEF TypeOK, CkptStates
<1>5. Once'
  <2>1. \A y \in Devices : /\ ckpt'[Backfill][y] = ckpt[Backfill][y]
                           /\ y # d => ckpt'[Purge][y] = ckpt[Purge][y]
    BY OwnersApart
  <2>2. leaver = "swept" BY DEF Once
  <2> QED BY <1>2, <1>3, <2>1, <2>2 DEF Once
<1>6. \A x \in Enrollments, y \in Devices : ckpt'[x][y] = ckpt[x][y]
  BY OwnersApart
<1> QED BY <1>1, <1>2, <1>3, <1>4, <1>5, <1>6, Aside

(* Every step of the purge worker.                                          *)
LEMMA RevokeStep ==
  ASSUME SagaInv, NEW d \in Devices, Purging(d)
  PROVE  SagaInv'
<1> DEFINE cs == revoked[d]
           Moves(to) == /\ phase = "up" /\ revoke[d] # "none" /\ revoke' = [revoke EXCEPT ![d] = to]
                        /\ UNCHANGED <<leaver, revoked>> /\ RevokeFrame
           Marked(s) == IF ckpt[Purge][d] = "none" THEN "none" ELSE s
<1>a. TypeOK /\ Once BY DEF SagaInv
<1>b. /\ cs \in CallStates /\ revoked = [revoked EXCEPT ![d] = cs]
      /\ ckpt \in [Owners -> [Devices -> CkptStates]] /\ Purge \in Owners
      /\ (ckpt[Purge][d] = "device_applied" => cs = "applied")
  BY <1>a, OwnersApart DEF TypeOK, CkptStates, Once
\* the checkpoint does not move
<1>c. ASSUME NEW to \in RevokePcs \ {"none", "listed"}, Moves(to), UNCHANGED <<status, push, ckpt>>,
             mapping' = mapping \/ mark_mapping_pending_delete(d),
             faults' = faults \/ Fault,
             to = "call" => cs = "none",
             to \in {"accepted", "complete"} => cs = "applied"
      PROVE  SagaInv'
  <2>1. \/ mapping' = mapping
        \/ mapping' = [mapping EXCEPT ![d] = "none"]
        \/ mapping[d] # "none" /\ mapping' = [mapping EXCEPT ![d] = "pending_delete"]
    BY <1>c DEF mark_mapping_pending_delete
  <2>2. RevokeMove(d, to, cs) BY <1>b, <1>c, <2>1 DEF RevokeMove
  <2> QED BY <2>2, RevokeMoves
<1>d. ASSUME NEW to \in {"manual", "unsure", "pend", "done"}, Moves(to), Refused PROVE SagaInv'
  BY <1>c, <1>d DEF Refused, dbVars, RevokePcs
<1>e. ASSUME NEW to \in {"manual", "done"}, Moves(to),
             mark_mapping_pending_delete(d), UNCHANGED faults
      PROVE  SagaInv'
  BY <1>c, <1>e DEF RevokePcs, mark_mapping_pending_delete
\* the checkpoint becomes c
<1>f. ASSUME NEW to \in RevokePcs \ {"none", "listed"}, Moves(to), NEW c \in CkptStates,
             Put(ckpt, ckpt', Owners, Purge, d, c),
             ckpt' \in [Owners -> [Devices -> CkptStates]],
             c = "device_applied" => cs = "applied",
             mapping' = mapping \/ mapping' = [mapping EXCEPT ![d] = "none"],
             UNCHANGED <<status, push, faults>>,
             to = "call" => cs = "none",
             to \in {"accepted", "complete"} => cs = "applied"
      PROVE  SagaInv'
  <2>1. RevokeMove(d, to, cs) BY <1>b, <1>f DEF RevokeMove, Put
  <2> QED BY <2>1, RevokeMoves
<1>g. ASSUME NEW to \in {"done", "pend"}, Moves(to),
             mark_device_operation(Purge, d, "manual"), UNCHANGED faults
      PROVE  SagaInv'
  <2>1. "manual" \in CkptStates /\ Marked("manual") \in CkptStates
        /\ to \in RevokePcs \ {"none", "listed"} /\ Marked("manual") # "device_applied"
    BY DEF CkptStates, RevokePcs
  <2>2. /\ ckpt' \in [Owners -> [Devices -> CkptStates]]
        /\ Put(ckpt, ckpt', Owners, Purge, d, Marked("manual"))
    BY <1>a, <1>b, <1>g, <2>1, CkptMark DEF mark_device_operation
  <2> HIDE DEF Marked
  <2> QED BY <1>f, <1>g, <2>1, <2>2 DEF mark_device_operation
<1>1. CASE revoke_skips(d)
  BY <1>1, <1>d, <1>e DEF revoke_skips, RevokeWrite
<1>2. CASE revoke_admits(d)
  <2>1. CASE Refused /\ Moves("done") BY <1>d, <2>1
  <2>2. CASE admit_device_operation(Purge, d) /\ Moves("call") /\ UNCHANGED faults
    <3>1. /\ ckpt' \in [Owners -> [Devices -> CkptStates]]
          /\ Put(ckpt, ckpt', Owners, Purge, d, "prepared")
      BY <1>a, <1>b, <2>2, CkptUpdate DEF admit_device_operation, CkptStates
    <3>2. cs = "none" BY <1>2, <1>a DEF revoke_admits, RevokeWrite, Once
    <3>3. "prepared" \in CkptStates /\ "call" \in RevokePcs \ {"none", "listed"}
      BY DEF CkptStates, RevokePcs
    <3> QED BY <1>f, <2>2, <3>1, <3>2, <3>3 DEF admit_device_operation
  <2> QED BY <1>2, <2>1, <2>2 DEF revoke_admits, RevokeWrite
<1>3. CASE revoke_applied(d)
  <2>1. CASE Refused /\ Moves("unsure") BY <1>d, <2>1
  <2>2. CASE mark_device_operation(Purge, d, "device_applied") /\ Moves("complete") /\ UNCHANGED faults
    <3>1. "device_applied" \in CkptStates /\ Marked("device_applied") \in CkptStates
          /\ "complete" \in RevokePcs \ {"none", "listed"}
      BY DEF CkptStates, RevokePcs
    <3>2. /\ ckpt' \in [Owners -> [Devices -> CkptStates]]
          /\ Put(ckpt, ckpt', Owners, Purge, d, Marked("device_applied"))
      BY <1>a, <1>b, <2>2, <3>1, CkptMark DEF mark_device_operation
    <3>3. cs = "applied" BY <1>3, <1>a DEF revoke_applied, RevokeWrite, Once
    <3> HIDE DEF Marked
    <3> QED BY <1>f, <2>2, <3>1, <3>2, <3>3 DEF mark_device_operation
  <2> QED BY <1>3, <2>1, <2>2 DEF revoke_applied, RevokeWrite
<1>4. CASE revoke_completes(d)
  <2>1. CASE Refused /\ Moves("pend") BY <1>d, <2>1
  <2>2. CASE complete_purge_mapping(d) /\ Moves("done") /\ UNCHANGED faults
    <3>1. /\ ckpt' \in [Owners -> [Devices -> CkptStates]]
          /\ Put(ckpt, ckpt', Owners, Purge, d, "none")
      BY <1>a, <1>b, <2>2, CkptUpdate DEF complete_purge_mapping, CkptStates
    <3>2. "none" \in CkptStates /\ "done" \in RevokePcs \ {"none", "listed"}
      BY DEF CkptStates, RevokePcs
    <3> QED BY <1>f, <2>2, <3>1, <3>2 DEF complete_purge_mapping, SetMapping
  <2> QED BY <1>4, <2>1, <2>2 DEF revoke_completes, RevokeWrite
<1>5. CASE revoke_rejected(d) \/ revoke_pends(d)
  BY <1>5, <1>d, <1>e DEF revoke_rejected, revoke_pends, RevokeWrite
<1>6. CASE revoke_manual(d) \/ revoke_unsure(d)
  BY <1>6, <1>d, <1>g DEF revoke_manual, revoke_unsure, RevokeWrite
<1>7. CASE revoke_calls(d)
  <2>1. CASE \E to \in {"accepted", "reject"} : Moves(to) /\ (to = "accepted" => cs = "applied")
    BY <1>7, <1>c, <2>1 DEF revoke_calls, RevokePcs, dbVars
  <2>2. CASE /\ revoke[d] = "call" /\ revoke' = [revoke EXCEPT ![d] = "sent"]
             /\ revoked' = [revoked EXCEPT ![d] = "sent"]
    <3>1. cs = "none" BY <1>a, <2>2 DEF Once
    <3>2. RevokeMove(d, "sent", "sent")
      BY <1>7, <1>b, <2>2, <3>1 DEF RevokeMove, revoke_calls, RevokePcs, CallStates, dbVars
    <3> QED BY <3>2, RevokeMoves
  <2>3. CASE /\ revoke[d] = "sent" /\ cs = "sent" /\ revoke' = [revoke EXCEPT ![d] = "reject"]
             /\ revoked' = [revoked EXCEPT ![d] = "rejected"]
    <3>1. RevokeMove(d, "reject", "rejected")
      BY <1>7, <1>b, <2>3 DEF RevokeMove, revoke_calls, RevokePcs, CallStates, dbVars
    <3> QED BY <3>1, RevokeMoves
  <2> QED BY <1>7, <2>1, <2>2, <2>3 DEF revoke_calls
<1> QED BY <1>1, <1>2, <1>3, <1>4, <1>5, <1>6, <1>7 DEF Purging

(* The reader carries a call out, in time or late.                          *)
LEMMA ReaderStep ==
  ASSUME SagaInv, NEW d \in Devices, ReaderApplies(d)
  PROVE  SagaInv'
<1> USE DEF SagaInv, peopleVars, dbVars, bootVars
<1>a. UNCHANGED <<reg, leaver, photo, status, push, ckpt, mapping, of, driver, pc, fill,
                  revoke, phase, todo, halfway, faults>>
  BY DEF ReaderApplies
<1>b. \A k \in Commands, y \in Devices : Live(k, y)' = Live(k, y) /\ Busy(k, y)' = Busy(k, y)
  BY <1>a DEF Live, Busy
<1>1. ASSUME NEW k \in Commands, call[k][d] = "sent", call' = [call EXCEPT ![k][d] = "applied"],
             face' = [face EXCEPT ![d] = TRUE], UNCHANGED <<fillCall, revoked>>
      PROVE  SagaInv'
  <2>1. /\ call' \in [Commands -> [Devices -> CallStates]]
        /\ \A x \in Commands, y \in Devices :
             call'[x][y] = IF x = k /\ y = d THEN "applied" ELSE call[x][y]
    <3>1. "applied" \in CallStates BY DEF CallStates
    <3> QED BY ZenonT(60), <1>1, <3>1, CallUpdate DEF Put
  <2>2. TypeOK' BY <1>1, <1>a, <2>1 DEF TypeOK
  <2>3. Memory'
    <3>1. \A x \in Commands : driver[x] = "unused" => x # k BY <1>1 DEF Memory
    <3> QED BY <1>a, <1>b, <2>1, <3>1 DEF Memory, Live
  <2>4. CallShape'
    <3>1. ASSUME NEW x \in Commands, NEW y \in Devices
          PROVE  /\ pc[x][y] \in {"start", "call"} => call'[x][y] = "none"
                 /\ pc[x][y] = "rejected" => call'[x][y] = "rejected"
                 /\ pc[x][y] \in {"accepted", "complete", "unsaved"} => call'[x][y] = "applied"
      BY <1>1, <2>1 DEF CallShape
    <3> QED BY <1>a, <3>1 DEF CallShape
  <2>5. Rows' BY <1>a DEF Rows
  \* a call that was sent was already one that stands
  <2>6. \A x \in Commands, y \in Devices :
          (call'[x][y] \in {"sent", "applied"}) = (call[x][y] \in {"sent", "applied"})
    BY <1>1, <2>1
  <2>7. Ownership' BY <1>a, <1>b, <2>6 DEF Ownership
  <2>8. Kept' /\ NoReplay' BY <1>a, <2>6 DEF Kept, NoReplay, Standing
  <2>9. Real'
    <3>1. \A x \in Commands, y \in Devices : call[x][y] = "applied" => call'[x][y] = "applied"
      BY <2>1
    <3> QED BY <1>1, <1>a, <3>1 DEF Real
  <2>10. Once' /\ Whole' BY <1>1, <1>a DEF Once, Whole
  <2>11. Calm' BY <1>a, <1>b DEF Calm
  <2> QED BY <2>2, <2>3, <2>4, <2>5, <2>7, <2>8, <2>9, <2>10, <2>11
<1>2. ASSUME fillCall[d] = "sent" \/ revoked[d] = "sent",
             \/ /\ fillCall[d] = "sent" /\ fillCall' = [fillCall EXCEPT ![d] = "applied"]
                /\ face' = [face EXCEPT ![d] = TRUE] /\ UNCHANGED revoked
             \/ /\ revoked[d] = "sent" /\ revoked' = [revoked EXCEPT ![d] = "applied"]
                /\ face' = [face EXCEPT ![d] = FALSE] /\ UNCHANGED fillCall,
             UNCHANGED call
      PROVE  SagaInv'
  <2>1. TypeOK' BY ZenonT(60), <1>2, <1>a DEF TypeOK, CallStates
  <2>2. \A y \in Devices : /\ fillCall'[y] = fillCall[y] \/ (fillCall[y] = "sent" /\ fillCall'[y] = "applied")
                           /\ revoked'[y] = revoked[y] \/ (revoked[y] = "sent" /\ revoked'[y] = "applied")
    BY <1>2 DEF TypeOK
  <2>3. Once' BY <1>a, <2>2 DEF Once
  <2> QED BY <1>2, <1>a, <2>1, <2>2, <2>3, Aside
<1> QED BY <1>1, <1>2 DEF ReaderApplies

-----------------------------------------------------------------------------
(* Enrollments start, are retried and end.                                  *)

(* What FinalStatus makes of terminal rows.                                 *)
LEMMA FinalStatusOf ==
  ASSUME NEW rows
  PROVE  /\ FinalStatus(rows) \in {"success", "partial", "failed"}
         /\ FinalStatus(rows) = "success" =>
              /\ \E d \in Devices : rows[d] = "success"
              /\ \A d \in Devices : rows[d] # "failed"
BY DEF FinalStatus

(* The aggregation of an enrollment that has started: what it writes is a   *)
(* status, and success only when every push is one.                         *)
LEMMA AggregatedOf ==
  ASSUME TypeOK, NEW e \in Enrollments, status[e] # "none", NEW rows \in [Devices -> PushStates]
  PROVE  LET s == Aggregated(e, rows) IN
         /\ s \in [Enrollments -> {"none", "in_progress", "success", "partial", "failed"}]
         /\ \A x \in Enrollments : (s[x] = "none") = (status[x] = "none")
         /\ \A x \in Enrollments : x # e => s[x] = status[x]
         /\ \/ s[e] = status[e] /\ \E d \in Devices : rows[d] \in Nonterminal
            \/ s[e] = FinalStatus(rows)
         /\ s[e] = "success" /\ s[e] # status[e] =>
              /\ \A d \in Devices : rows[d] \in {"none", "success"}
              /\ \E d \in Devices : rows[d] = "success"
<1> DEFINE s == Aggregated(e, rows)
<1>1. CASE \E d \in Devices : rows[d] \in Nonterminal
  <2>1. s = status BY <1>1 DEF Aggregated
  <2> QED BY <1>1, <2>1 DEF TypeOK
<1>2. CASE \A d \in Devices : rows[d] \notin Nonterminal
  <2>1. s = [status EXCEPT ![e] = FinalStatus(rows)] BY <1>2 DEF Aggregated
  <2>2. s[e] = FinalStatus(rows) /\ \A x \in Enrollments : x # e => s[x] = status[x]
    BY <2>1 DEF TypeOK
  <2>3. s \in [Enrollments -> {"none", "in_progress", "success", "partial", "failed"}]
    BY <2>1, FinalStatusOf DEF TypeOK
  <2>4. s[e] = "success" => /\ \A d \in Devices : rows[d] \in {"none", "success"}
                            /\ \E d \in Devices : rows[d] = "success"
    BY <1>2, <2>2, FinalStatusOf DEF PushStates, Nonterminal
  <2>5. s[e] # "none" BY <2>2, FinalStatusOf
  <2> QED BY <2>2, <2>3, <2>4, <2>5
<1> QED BY <1>1, <1>2

(* The task of a command ends.                                              *)
LEMMA FinishStep ==
  ASSUME SagaInv, NEW k \in Commands, Finish(k)
  PROVE  SagaInv'
<1> DEFINE e == of[k]
<1> USE DEF SagaInv, peopleVars, fillVars, revokeVars, bootVars
<1>a. /\ UNCHANGED <<reg, leaver, photo, push, ckpt, mapping, face, of, pc, call, fill,
                     fillCall, revoke, revoked, phase, todo, halfway>>
      /\ phase = "up" /\ driver[k] = "running" /\ driver' = [driver EXCEPT ![k] = "over"]
      /\ \A d \in Devices : ~Live(k, d)
  BY DEF Finish, Refused, dbVars, finalize_enrollment, Live
<1>b. e \in Enrollments /\ status[e] # "none"
  BY <1>a DEF Memory, Rows
<1>c. push[e] \in [Devices -> PushStates] BY <1>b DEF TypeOK
<1>d. \/ status' = Aggregated(e, push[e]) /\ faults' = faults
      \/ status' = status /\ Fault
  BY DEF Finish, finalize_enrollment, Refused, dbVars
<1>e. (faults' = faults \/ faults' # 0) /\ faults' \in 0..MaxFaults
  BY <1>d, FaultCounted DEF TypeOK
<1>f. /\ status' \in [Enrollments -> {"none", "in_progress", "success", "partial", "failed"}]
      /\ \A x \in Enrollments : (status'[x] = "none") = (status[x] = "none")
      /\ \A x \in Enrollments : x # e => status'[x] = status[x]
      /\ status'[e] = "success" /\ status'[e] # status[e] =>
           /\ \A d \in Devices : push[e][d] \in {"none", "success"}
           /\ \E d \in Devices : push[e][d] = "success"
  BY <1>b, <1>c, <1>d, AggregatedOf DEF TypeOK
<1>g. /\ driver' \in [Commands -> {"unused", "running", "over"}]
      /\ \A j \in Commands : driver'[j] = IF j = k THEN "over" ELSE driver[j]
  BY <1>a DEF TypeOK
<1>h. \A j \in Commands, d \in Devices : Live(j, d)' = Live(j, d) /\ Busy(j, d)' = Busy(j, d)
  BY <1>a DEF Live, Busy
<1> HIDE DEF e
<1>1. TypeOK' BY <1>a, <1>e, <1>f, <1>g DEF TypeOK
<1>2. Memory'
  <2>1. \A j \in Commands, d \in Devices : Live(j, d) => j # k BY <1>a
  <2>2. \A j \in Commands : (driver'[j] = "unused") = (driver[j] = "unused") BY <1>a, <1>g
  <2>3. \A j \in Commands, d \in Devices : Live(j, d) => driver'[j] = "running"
    BY <1>g, <2>1 DEF Memory
  <2> QED BY <1>a, <1>h, <2>2, <2>3 DEF Memory
<1>3. CallShape' /\ Ownership' BY <1>a, <1>h DEF CallShape, Ownership
<1>4. Rows' BY <1>a, <1>f DEF Rows
<1>5. Kept' /\ NoReplay' /\ Real' /\ Once'
  BY <1>a DEF Kept, NoReplay, Standing, Real, Once
<1>6. Whole' BY <1>a, <1>f DEF Whole
<1>7. Calm'
  <2> SUFFICES ASSUME faults' = 0 PROVE Calm' BY DEF Calm
  <2>1. faults = 0 /\ status' = Aggregated(e, push[e])
    BY <1>d, FaultCounted, <1>e DEF e
  <2>2. \/ status'[e] = status[e] /\ \E d \in Devices : push[e][d] \in Nonterminal
        \/ status'[e] = FinalStatus(push[e])
    BY <1>b, <1>c, <2>1, AggregatedOf
  <2>3. ASSUME NEW x \in Enrollments, status'[x] # "none",
               \A j \in Commands : of[j] = x => driver'[j] # "running"
        PROVE  status'[x] = FinalStatus(push[x])
    <3>1. CASE x = e
      <4>1. ASSUME NEW d \in Devices, push[e][d] \in Nonterminal PROVE FALSE
        <5>1. PICK j \in Commands : of[j] = e /\ Live(j, d) BY <1>b, <2>1, <4>1 DEF Calm
        <5>2. j # k /\ driver[j] = "running" BY <1>a, <5>1 DEF Memory
        <5> QED BY <1>g, <2>3, <3>1, <5>1, <5>2
      <4> QED BY <2>2, <3>1, <4>1
    <3>2. CASE x # e
      <4>1. \A j \in Commands : of[j] = x => driver[j] # "running"
        BY <1>g, <2>3, <3>2 DEF e
      <4> QED BY <1>f, <2>1, <2>3, <3>2, <4>1 DEF Calm
    <3> QED BY <3>1, <3>2
  <2> QED BY <1>a, <1>h, <2>1, <2>3 DEF Calm
<1> QED BY <1>1, <1>2, <1>3, <1>4, <1>5, <1>6, <1>7

(* An enrollment starts: rows, checkpoints and attempts of its targets.     *)
LEMMA StartStep ==
  ASSUME SagaInv, NEW e \in Enrollments, NEW k \in Commands, start_enrollment(e, k)
  PROVE  SagaInv'
<1> DEFINE targets == {d \in Devices : reg[d] = "active"}
<1> USE DEF SagaInv, fillVars, revokeVars, bootVars
<1>a. /\ UNCHANGED <<reg, leaver, mapping, face, call, fill, fillCall, revoke, revoked, phase,
                     todo, halfway, faults>>
      /\ phase = "up" /\ status[e] = "none" /\ driver[k] = "unused" /\ photo' = TRUE
  BY DEF start_enrollment, Unused
<1>b. /\ \A j \in Commands : of[j] # e
      /\ of[k] = NoOne /\ \A d \in Devices : pc[k][d] = "none" /\ call[k][d] = "none"
  BY <1>a DEF Rows, Memory
<1>c. /\ status' = [status EXCEPT ![e] = "in_progress"]
      /\ of' = [of EXCEPT ![k] = e]
      /\ driver' = [driver EXCEPT ![k] = "running"]
      /\ push' = [push EXCEPT ![e] = [d \in Devices |-> IF d \in targets THEN "pending" ELSE "none"]]
      /\ ckpt' = [ckpt EXCEPT ![e] = [d \in Devices |-> IF d \in targets THEN "prepared" ELSE "none"]]
      /\ pc' = [pc EXCEPT ![k] = [d \in Devices |-> IF d \in targets THEN "start" ELSE "none"]]
  BY DEF start_enrollment
<1> HIDE DEF targets
<1>d. /\ \A x \in Enrollments : status'[x] = IF x = e THEN "in_progress" ELSE status[x]
      /\ \A x \in Commands : of'[x] = IF x = k THEN e ELSE of[x]
      /\ \A x \in Commands : driver'[x] = IF x = k THEN "running" ELSE driver[x]
  BY <1>c DEF TypeOK
<1>e. /\ \A x \in Enrollments : x # e => push'[x] = push[x]
      /\ \A d \in Devices : push'[e][d] = IF d \in targets THEN "pending" ELSE "none"
      /\ \A x \in Owners : x # e => ckpt'[x] = ckpt[x]
      /\ \A d \in Devices : ckpt'[e][d] = IF d \in targets THEN "prepared" ELSE "none"
      /\ \A x \in Commands : x # k => pc'[x] = pc[x]
      /\ \A d \in Devices : pc'[k][d] = IF d \in targets THEN "start" ELSE "none"
  BY <1>c, OwnersApart DEF TypeOK
<1>1. TypeOK'
  <2>1. status' \in [Enrollments -> {"none", "in_progress", "success", "partial", "failed"}]
        /\ of' \in [Commands -> Enrollments \cup {NoOne}]
        /\ driver' \in [Commands -> {"unused", "running", "over"}]
    BY <1>c DEF TypeOK
  <2>2. push' \in [Enrollments -> [Devices -> PushStates]]
    BY <1>c DEF TypeOK, PushStates, Nonterminal
  <2>3. ckpt' \in [Owners -> [Devices -> {"none", "prepared", "device_applied", "manual"}]]
    BY <1>c DEF TypeOK
  <2>4. pc' \in [Commands -> [Devices -> AttemptPcs]]
    BY <1>c DEF TypeOK, AttemptPcs
  <2> QED BY <1>a, <2>1, <2>2, <2>3, <2>4 DEF TypeOK
<1>f. /\ \A j \in Commands, d \in Devices : j # k => Live(j, d)' = Live(j, d) /\ Busy(j, d)' = Busy(j, d)
      /\ \A d \in Devices : Live(k, d)' = (d \in targets) /\ Busy(k, d)' = (d \in targets)
      /\ \A d \in Devices : ~Live(k, d)
  BY <1>b, <1>e DEF Live, Busy
<1>2. Memory'
  <2>1. \A o \in Owners, d \in Devices : <<o, d>> \notin todo BY <1>a DEF Memory
  <2>2. ASSUME NEW j \in Commands
        PROVE  /\ driver'[j] = "unused" =>
                    of'[j] = NoOne /\ \A d \in Devices : pc'[j][d] = "none" /\ call[j][d] = "none"
               /\ driver'[j] # "unused" => of'[j] \in Enrollments
               /\ \A d \in Devices : Live(j, d)' => driver'[j] = "running"
    <3>1. CASE j = k BY <1>d, <3>1
    <3>2. CASE j # k BY <1>d, <1>e, <1>f, <3>2 DEF Memory
    <3> QED BY <3>1, <3>2
  <2> QED BY <1>a, <2>1, <2>2 DEF Memory
<1>3. CallShape'
  <2>1. ASSUME NEW j \in Commands, NEW d \in Devices
        PROVE  /\ pc'[j][d] \in {"start", "call"} => call[j][d] = "none"
               /\ pc'[j][d] = "rejected" => call[j][d] = "rejected"
               /\ pc'[j][d] \in {"accepted", "complete", "unsaved"} => call[j][d] = "applied"
    <3>1. CASE j = k BY <1>b, <1>e, <3>1
    <3>2. CASE j # k BY <1>e, <3>2 DEF CallShape
    <3> QED BY <3>1, <3>2
  <2> QED BY <1>a, <2>1 DEF CallShape
<1>4. Rows'
  <2>1. ASSUME NEW x \in Enrollments
        PROVE  /\ status'[x] = "none" => /\ \A d \in Devices : push'[x][d] = "none"
                                         /\ \A j \in Commands : of'[j] # x
               /\ \A d \in Devices : /\ push'[x][d] \in {"none", "success"} => ckpt'[x][d] = "none"
                                     /\ push'[x][d] \in Nonterminal => ckpt'[x][d] # "none"
    <3>1. CASE x = e BY <1>d, <1>e, <3>1 DEF Nonterminal
    <3>2. CASE x # e BY <1>d, <1>e, <3>2, OwnersApart DEF Rows
    <3> QED BY <3>1, <3>2
  <2> QED BY <2>1 DEF Rows
<1>5. Ownership'
  <2> SUFFICES ASSUME NEW i \in Commands, NEW d \in Devices, Busy(i, d)'
               PROVE  /\ ckpt'[of'[i]][d] # "none"
                      /\ \A j \in Commands : of'[j] = of'[i] /\ j # i =>
                           ~Busy(j, d)' /\ call[j][d] \notin {"sent", "applied"}
    BY <1>a DEF Ownership
  <2>1. CASE i = k BY ZenonT(60), <1>b, <1>d, <1>e, <1>f, <2>1
  <2>2. CASE i # k
    <3>1. Busy(i, d) /\ of'[i] = of[i] /\ of[i] # e BY <1>b, <1>d, <1>f, <2>2
    <3>2. of[i] \in Owners BY <3>1, LiveAttempt DEF Busy
    <3> QED BY <1>d, <1>e, <1>f, <2>2, <3>1, <3>2 DEF Ownership
  <2> QED BY <2>1, <2>2
<1>g. \A j \in Commands, x \in Enrollments, d \in Devices :
        Standing(j, x, d)' => Standing(j, x, d) /\ x # e
  BY <1>a, <1>b, <1>d DEF Standing
<1>6. Kept' BY <1>e, <1>g, OwnersApart DEF Kept
<1>7. NoReplay' BY <1>g DEF NoReplay
<1>8. Real'
  <2>1. ASSUME NEW x \in Enrollments, NEW d \in Devices,
               push'[x][d] = "success" \/ ckpt'[x][d] = "device_applied"
        PROVE  \E j \in Commands : of'[j] = x /\ call[j][d] = "applied"
    <3>1. x # e BY <1>e, <2>1
    <3>2. push[x][d] = "success" \/ ckpt[x][d] = "device_applied"
      BY <1>e, <2>1, <3>1, OwnersApart
    <3>3. PICK j \in Commands : of[j] = x /\ call[j][d] = "applied" BY <3>2 DEF Real
    <3>4. j # k BY <1>b, <3>3
    <3> QED BY <1>d, <3>3, <3>4
  <2> QED BY <1>a, <2>1 DEF Real
<1>9. Once'
  <2>1. ckpt'[Backfill] = ckpt[Backfill] /\ ckpt'[Purge] = ckpt[Purge] BY <1>e, OwnersApart
  <2> QED BY <1>a, <2>1 DEF Once
<1>10. Whole' BY <1>d, <1>e DEF Whole
<1>11. Calm'
  <2> SUFFICES ASSUME faults = 0 PROVE Calm' BY <1>a DEF Calm
  <2>1. ASSUME NEW x \in Enrollments, NEW d \in Devices, push'[x][d] \in Nonterminal
        PROVE  \E j \in Commands : of'[j] = x /\ Live(j, d)'
    <3>1. CASE x = e BY <1>d, <1>e, <1>f, <2>1, <3>1 DEF Nonterminal
    <3>2. CASE x # e
      <4>1. PICK j \in Commands : of[j] = x /\ Live(j, d) BY <1>e, <2>1, <3>2 DEF Calm
      <4> QED BY <1>d, <1>f, <4>1
    <3> QED BY <3>1, <3>2
  <2>2. ASSUME NEW x \in Enrollments, status'[x] # "none",
               \A j \in Commands : of'[j] = x => driver'[j] # "running"
        PROVE  status'[x] = FinalStatus(push'[x])
    <3>1. x # e BY <1>d, <2>2
    <3>2. \A j \in Commands : of[j] = x => driver[j] # "running"
      BY <1>a, <1>d, <2>2
    <3> QED BY <1>d, <1>e, <2>2, <3>1, <3>2 DEF Calm
  <2> QED BY <1>a, <2>1, <2>2 DEF Calm
<1> QED BY <1>1, <1>2, <1>3, <1>4, <1>5, <1>6, <1>7, <1>8, <1>9, <1>10, <1>11

(* A failed push without a checkpoint is tried again: no attempt is busy    *)
(* with it, and no call of it stands.                                       *)
LEMMA RetryStep ==
  ASSUME SagaInv, NEW e \in Enrollments, NEW d \in Devices, NEW k \in Commands,
         retry_enrollment_push(e, d, k)
  PROVE  SagaInv'
<1> USE DEF SagaInv, peopleVars, fillVars, revokeVars, bootVars
<1>a. /\ UNCHANGED <<reg, leaver, photo, status, mapping, face, call, fill, fillCall, revoke,
                     revoked, phase, todo, halfway, faults>>
      /\ phase = "up" /\ driver[k] = "unused" /\ push[e][d] = "failed" /\ ckpt[e][d] = "none"
  BY DEF retry_enrollment_push, Unused, Retryable
<1>b. /\ of[k] = NoOne /\ \A y \in Devices : pc[k][y] = "none" /\ call[k][y] = "none"
      /\ NoOne # e /\ e \in Owners
  BY <1>a, SagaAssumption DEF Memory, Owners
<1>c. /\ status[e] # "none"
      /\ \A j \in Commands : of[j] = e => ~Busy(j, d)
      /\ \A j \in Commands : ~Standing(j, e, d)
  BY <1>a DEF Rows, Ownership, Kept
<1>d. /\ of' = [of EXCEPT ![k] = e] /\ driver' = [driver EXCEPT ![k] = "running"]
      /\ pc' = [pc EXCEPT ![k][d] = "start"]
      /\ SetPush(e, d, "pending") /\ SetCkpt(e, d, "prepared")
  BY DEF retry_enrollment_push
<1>e. /\ "pending" \in PushStates /\ "prepared" \in CkptStates /\ "start" \in AttemptPcs
  BY DEF PushStates, Nonterminal, CkptStates, AttemptPcs
<1>f. /\ push' \in [Enrollments -> [Devices -> PushStates]]
      /\ ckpt' \in [Owners -> [Devices -> CkptStates]]
      /\ pc' \in [Commands -> [Devices -> AttemptPcs]]
      /\ \A x \in Enrollments, y \in Devices :
           push'[x][y] = IF x = e /\ y = d THEN "pending" ELSE push[x][y]
      /\ \A x \in Enrollments : x # e => push'[x] = push[x]
      /\ \A x \in Owners, y \in Devices :
           ckpt'[x][y] = IF x = e /\ y = d THEN "prepared" ELSE ckpt[x][y]
      /\ \A x \in Commands, y \in Devices :
           pc'[x][y] = IF x = k /\ y = d THEN "start" ELSE pc[x][y]
  <2>1. /\ push' \in [Enrollments -> [Devices -> PushStates]]
        /\ Put(push, push', Enrollments, e, d, "pending")
    BY <1>d, <1>e, PushUpdate
  <2>2. /\ ckpt' \in [Owners -> [Devices -> CkptStates]]
        /\ Put(ckpt, ckpt', Owners, e, d, "prepared")
    BY <1>b, <1>d, <1>e, CkptUpdate
  <2>3. /\ pc' \in [Commands -> [Devices -> AttemptPcs]]
        /\ Put(pc, pc', Commands, k, d, "start")
    BY <1>d, <1>e, PcUpdate
  <2> QED BY <2>1, <2>2, <2>3 DEF Put
<1>g. /\ of' \in [Commands -> Enrollments \cup {NoOne}]
      /\ driver' \in [Commands -> {"unused", "running", "over"}]
      /\ \A x \in Commands : of'[x] = IF x = k THEN e ELSE of[x]
      /\ \A x \in Commands : driver'[x] = IF x = k THEN "running" ELSE driver[x]
  BY <1>d DEF TypeOK
<1>h. /\ \A j \in Commands, y \in Devices : j # k => Live(j, y)' = Live(j, y) /\ Busy(j, y)' = Busy(j, y)
      /\ \A y \in Devices : Live(k, y)' = (y = d) /\ Busy(k, y)' = (y = d)
      /\ \A y \in Devices : ~Live(k, y)
  BY <1>b, <1>f DEF Live, Busy
<1>1. TypeOK' BY <1>a, <1>f, <1>g DEF TypeOK, CkptStates
<1>2. Memory'
  <2>1. \A o \in Owners, y \in Devices : <<o, y>> \notin todo BY <1>a DEF Memory
  <2>2. ASSUME NEW j \in Commands
        PROVE  /\ driver'[j] = "unused" =>
                    of'[j] = NoOne /\ \A y \in Devices : pc'[j][y] = "none" /\ call[j][y] = "none"
               /\ driver'[j] # "unused" => of'[j] \in Enrollments
               /\ \A y \in Devices : Live(j, y)' => driver'[j] = "running"
    <3>1. CASE j = k BY <1>g, <3>1
    <3>2. CASE j # k
      <4>1. \A y \in Devices : pc'[j][y] = pc[j][y] /\ Live(j, y)' = Live(j, y)
        BY <1>f, <1>h, <3>2
      <4>2. of'[j] = of[j] /\ driver'[j] = driver[j] BY <1>g, <3>2
      <4> QED BY <4>1, <4>2 DEF Memory
    <3> QED BY <3>1, <3>2
  <2> QED BY <1>a, <2>1, <2>2 DEF Memory
<1>3. CallShape'
  <2>1. ASSUME NEW j \in Commands, NEW y \in Devices
        PROVE  /\ pc'[j][y] \in {"start", "call"} => call[j][y] = "none"
               /\ pc'[j][y] = "rejected" => call[j][y] = "rejected"
               /\ pc'[j][y] \in {"accepted", "complete", "unsaved"} => call[j][y] = "applied"
    <3>1. CASE j = k BY <1>b, <1>f, <3>1
    <3>2. CASE j # k BY <1>f, <3>2 DEF CallShape
    <3> QED BY <3>1, <3>2
  <2> QED BY <1>a, <2>1 DEF CallShape
<1>4. Rows'
  <2>1. ASSUME NEW x \in Enrollments, NEW y \in Devices
        PROVE  /\ push'[x][y] \in {"none", "success"} => ckpt'[x][y] = "none"
               /\ push'[x][y] \in Nonterminal => ckpt'[x][y] # "none"
    <3>1. CASE x = e /\ y = d BY <1>b, <1>f, <3>1
    <3>2. CASE ~(x = e /\ y = d) BY SMTT(30), <1>f, <3>2, OwnersApart DEF Rows
    <3> QED BY <3>1, <3>2
  <2>2. ASSUME NEW x \in Enrollments, status[x] = "none"
        PROVE  (\A y \in Devices : push'[x][y] = "none") /\ (\A j \in Commands : of'[j] # x)
    <3>1. x # e BY <1>c, <2>2
    <3>2. (\A y \in Devices : push[x][y] = "none") /\ (\A j \in Commands : of[j] # x)
      BY <2>2 DEF Rows
    <3> QED BY <1>f, <1>g, <3>1, <3>2
  <2> QED BY <1>a, <2>1, <2>2 DEF Rows
<1>5. Ownership'
  <2> SUFFICES ASSUME NEW i \in Commands, NEW y \in Devices, Busy(i, y)'
               PROVE  /\ ckpt'[of'[i]][y] # "none"
                      /\ \A j \in Commands : of'[j] = of'[i] /\ j # i =>
                           ~Busy(j, y)' /\ call[j][y] \notin {"sent", "applied"}
    BY <1>a DEF Ownership
  <2>1. CASE i = k
    <3>1. y = d /\ of'[i] = e BY <1>g, <1>h, <2>1
    <3>2. ASSUME NEW j \in Commands, of'[j] = e, j # k
          PROVE  ~Busy(j, d)' /\ call[j][d] \notin {"sent", "applied"}
      BY <1>c, <1>g, <1>h, <3>2 DEF Standing
    <3> QED BY <1>b, <1>f, <2>1, <3>1, <3>2
  <2>2. CASE i # k
    <3>1. Busy(i, y) /\ of'[i] = of[i] BY <1>g, <1>h, <2>2
    <3>2. of[i] \in Owners /\ ~(of[i] = e /\ y = d) BY <1>c, <3>1, LiveAttempt DEF Busy
    <3>3. ckpt'[of[i]][y] # "none" BY <1>f, <3>1, <3>2 DEF Ownership
    <3>4. ASSUME NEW j \in Commands, of'[j] = of[i], j # i
          PROVE  ~Busy(j, y)' /\ call[j][y] \notin {"sent", "applied"}
      <4>1. CASE j = k BY <1>b, <1>g, <1>h, <3>2, <3>4, <4>1
      <4>2. CASE j # k BY <1>g, <1>h, <3>1, <3>4, <4>2 DEF Ownership
      <4> QED BY <4>1, <4>2
    <3> QED BY <3>1, <3>3, <3>4
  <2> QED BY <2>1, <2>2
<1>i. \A j \in Commands, x \in Enrollments, y \in Devices :
        Standing(j, x, y)' => Standing(j, x, y) /\ ~(x = e /\ y = d)
  BY <1>a, <1>b, <1>c, <1>g DEF Standing
<1>6. Kept' BY <1>f, <1>i, OwnersApart DEF Kept
<1>7. NoReplay' BY <1>i DEF NoReplay
<1>8. Real'
  <2>1. ASSUME NEW x \in Enrollments, NEW y \in Devices,
               push'[x][y] = "success" \/ ckpt'[x][y] = "device_applied"
        PROVE  \E j \in Commands : of'[j] = x /\ call[j][y] = "applied"
    <3>1. push[x][y] = "success" \/ ckpt[x][y] = "device_applied"
      BY <1>f, <2>1, OwnersApart
    <3>2. PICK j \in Commands : of[j] = x /\ call[j][y] = "applied" BY <3>1 DEF Real
    <3>3. j # k BY <1>b, <3>2
    <3> QED BY <1>g, <3>2, <3>3
  <2> QED BY <1>a, <2>1 DEF Real
<1>9. Once'
  <2>1. \A y \in Devices : ckpt'[Backfill][y] = ckpt[Backfill][y] /\ ckpt'[Purge][y] = ckpt[Purge][y]
    BY <1>f, OwnersApart
  <2> QED BY <1>a, <2>1 DEF Once
<1>10. Whole'
  <2>1. status[e] # "success" BY <1>a DEF Whole
  <2> QED BY <1>a, <1>f, <2>1 DEF Whole
<1>11. Calm'
  <2> SUFFICES ASSUME faults = 0 PROVE Calm' BY <1>a DEF Calm
  <2>1. ASSUME NEW x \in Enrollments, NEW y \in Devices, push'[x][y] \in Nonterminal
        PROVE  \E j \in Commands : of'[j] = x /\ Live(j, y)'
    <3>1. CASE x = e /\ y = d BY <1>g, <1>h, <3>1
    <3>2. CASE ~(x = e /\ y = d)
      <4>1. PICK j \in Commands : of[j] = x /\ Live(j, y) BY <1>f, <2>1, <3>2 DEF Calm
      <4> QED BY <1>g, <1>h, <4>1
    <3> QED BY <3>1, <3>2
  <2>2. ASSUME NEW x \in Enrollments, status[x] # "none",
               \A j \in Commands : of'[j] = x => driver'[j] # "running"
        PROVE  status[x] = FinalStatus(push'[x])
    <3>1. x # e BY <1>g, <2>2
    <3>2. \A j \in Commands : of[j] = x => driver[j] # "running"
      BY <1>a, <1>g, <2>2
    <3> QED BY <1>f, <2>2, <3>1, <3>2 DEF Calm
  <2> QED BY <1>a, <2>1, <2>2 DEF Calm
<1> QED BY <1>1, <1>2, <1>3, <1>4, <1>5, <1>6, <1>7, <1>8, <1>9, <1>10, <1>11

-----------------------------------------------------------------------------
(* Crash and recovery.                                                      *)

(* The process dies: nothing that was in memory runs any more.              *)
LEMMA CrashStep ==
  ASSUME SagaInv, Crash
  PROVE  SagaInv'
<1> USE DEF SagaInv, dbVars
<1>a. /\ UNCHANGED <<reg, photo, status, push, ckpt, mapping, face, of, call, fillCall,
                     revoked, todo, halfway>>
      /\ phase = "up" /\ phase' = "down"
      /\ leaver' = IF leaver = "employed" THEN "employed" ELSE "swept"
  BY DEF Crash
<1>b. faults' # 0 /\ faults' \in 0..MaxFaults BY FaultCounted DEF Crash
<1>c. /\ driver' \in [Commands -> {"unused", "over"}]
      /\ \A k \in Commands : driver'[k] = "unused" <=> driver[k] = "unused"
  BY DEF Crash
<1>d. /\ pc' \in [Commands -> [Devices -> {"none", "done"}]]
      /\ \A k \in Commands, d \in Devices : pc[k][d] = "none" => pc'[k][d] = "none"
  BY DEF Crash, Stopped
<1>e. /\ fill' \in [Devices -> {"none", "done"}]
      /\ \A d \in Devices : fill'[d] = "none" <=> fill[d] = "none"
  BY DEF Crash, Stopped
<1>f. /\ revoke' \in [Devices -> {"none", "done"}]
      /\ \A d \in Devices : revoke'[d] = "none" <=> revoke[d] = "none"
  BY DEF Crash, Stopped
<1>g. \A k \in Commands, d \in Devices : ~Live(k, d)' /\ ~Busy(k, d)'
  BY <1>d DEF Live, Busy
<1>1. TypeOK'
  <2>1. /\ driver' \in [Commands -> {"unused", "running", "over"}]
        /\ fill' \in [Devices -> FillPcs] /\ revoke' \in [Devices -> RevokePcs]
    BY <1>c, <1>e, <1>f DEF FillPcs, RevokePcs
  <2>2. pc' \in [Commands -> [Devices -> AttemptPcs]]
    <3>1. \A k \in Commands : pc'[k] \in [Devices -> AttemptPcs] BY <1>d DEF AttemptPcs
    <3> QED BY <1>d, <3>1
  <2> QED BY <1>a, <1>b, <2>1, <2>2 DEF TypeOK
<1>2. Memory'
  <2>1. \A o \in Owners, d \in Devices : <<o, d>> \notin todo BY <1>a DEF Memory
  <2> QED BY <1>a, <1>c, <1>d, <1>g, <2>1 DEF Memory
<1>3. CallShape' BY <1>d DEF CallShape
<1>4. Rows' BY <1>a DEF Rows
<1>5. Ownership' BY <1>g DEF Ownership
<1>6. Kept' /\ NoReplay' BY <1>a DEF Kept, NoReplay, Standing
<1>7. Real' BY <1>a DEF Real
<1>8. Once' BY <1>a, <1>e, <1>f DEF Once
<1>9. Whole' BY <1>a DEF Whole
<1>10. Calm' BY <1>b DEF Calm
<1> QED BY <1>1, <1>2, <1>3, <1>4, <1>5, <1>6, <1>7, <1>8, <1>9, <1>10

(* While the process is not up no attempt is under way, and there has been  *)
(* a fault: what is about attempts is kept.                                 *)
LEMMA NothingRuns ==
  ASSUME SagaInv, phase # "up", faults' = faults \/ Fault, UNCHANGED attemptVars
  PROVE  CallShape' /\ Ownership' /\ NoReplay' /\ Calm'
<1>1. \A k \in Commands, d \in Devices : ~Live(k, d)' /\ ~Busy(k, d)'
  BY DEF SagaInv, Memory, attemptVars, Live, Busy
<1>2. faults' # 0 BY FaultCounted DEF SagaInv, Calm
<1> QED BY <1>1, <1>2
  DEF SagaInv, attemptVars, CallShape, Ownership, NoReplay, Standing, Calm

(* A write of recovery: the push, checkpoint and status of one key.         *)
RecoveryMove(o, d, c) ==
  /\ Visiting(o, d) /\ c \in CkptStates
  /\ ckpt' \in [Owners -> [Devices -> CkptStates]]
  /\ Put(ckpt, ckpt', Owners, o, d, c)
  /\ UNCHANGED <<phase, faults>>
  /\ \/ todo' = todo \ {<<o, d>>} /\ halfway' = {}
     \/ todo' = todo /\ halfway' = {<<o, d>>} /\ c # "none"
  /\ BootFrame

(* What every such write keeps.                                             *)
LEMMA RecoveryMoves ==
  ASSUME SagaInv, NEW o \in Owners, NEW d \in Devices, NEW c, RecoveryMove(o, d, c)
  PROVE  /\ todo' \subseteq Keys /\ halfway' \subseteq todo' /\ Memory'
         /\ CallShape' /\ Ownership' /\ NoReplay' /\ Calm'
<1> USE DEF SagaInv, RecoveryMove, BootFrame, peopleVars, attemptVars, fillVars, revokeVars
<1>1. phase = "recovering" /\ <<o, d>> \in todo BY DEF Visiting
<1>2. todo' \subseteq Keys /\ halfway' \subseteq todo' BY <1>1 DEF TypeOK
<1>3. Memory'
  <2>1. \A k \in Commands, y \in Devices : ~Live(k, y)' BY <1>1 DEF Memory, Live
  <2>2. ASSUME NEW x \in Owners, NEW y \in Devices, <<x, y>> \in todo'
        PROVE  ckpt'[x][y] # "none"
    <3>1. ckpt[x][y] # "none" BY <2>2 DEF Memory
    <3>2. x = o /\ y = d => c # "none" BY <2>2
    <3> QED BY <3>1, <3>2 DEF Put
  <2> QED BY <1>1, <2>1, <2>2 DEF Memory
<1> QED BY <1>1, <1>2, <1>3, NothingRuns

(* Recovery gives up at a refused write.                                    *)
LEMMA AbortStep ==
  ASSUME SagaInv, phase # "up", Abort, faults' = faults \/ Fault, UNCHANGED dbVars, BootFrame
  PROVE  SagaInv'
<1> USE DEF SagaInv, Abort, BootFrame, dbVars, peopleVars, attemptVars, fillVars, revokeVars
<1>1. CallShape' /\ Ownership' /\ NoReplay' /\ Calm' BY NothingRuns
<1>2. faults' \in 0..MaxFaults BY FaultCounted DEF TypeOK
<1>3. TypeOK' BY <1>2 DEF TypeOK, Keys
<1>4. Memory' BY DEF Memory, Live
<1>5. Rows' /\ Kept' /\ Real' /\ Once' /\ Whole'
  BY DEF Rows, Kept, Standing, Real, Once, Whole
<1> QED BY <1>1, <1>3, <1>4, <1>5

(* Recovery of a push: completed when the reader had it, failed otherwise.  *)
LEMMA RecoverPush ==
  ASSUME SagaInv, NEW e \in Enrollments, NEW d \in Devices, recover_push(e, d)
  PROVE  SagaInv'
<1> USE DEF SagaInv
<1>a. /\ Visiting(e, d) /\ phase = "recovering" /\ <<e, d>> \in todo /\ e \in Owners
      /\ ckpt[e][d] # "none"
  BY OwnersApart DEF recover_push, Visiting, Memory
<1>b. push[e][d] \notin {"none", "success"} /\ status[e] # "none"
  BY <1>a DEF Rows
<1>c. /\ ckpt \in [Owners -> [Devices -> CkptStates]] /\ ckpt[e][d] \in CkptStates
      /\ push \in [Enrollments -> [Devices -> PushStates]]
      /\ push[e] \in [Devices -> PushStates]
  BY <1>a DEF TypeOK, CkptStates
<1>d. status[e] # "success" BY <1>b DEF Whole
<1>1. CASE Refused /\ Abort /\ BootFrame
  BY <1>1, <1>a, AbortStep DEF Refused
\* what a write that only touches the rows of e and d has to show
<1>e. ASSUME NEW c, RecoveryMove(e, d, c), NEW p \in {push[e][d], "success", "failed"},
             push' \in [Enrollments -> [Devices -> PushStates]],
             Put(push, push', Enrollments, e, d, p),
             status' \in [Enrollments -> {"none", "in_progress", "success", "partial", "failed"}],
             \A x \in Enrollments : (status'[x] = "none") = (status[x] = "none"),
             \A x \in Enrollments : x # e => status'[x] = status[x],
             status'[e] = "success" => /\ \A y \in Devices : push'[e][y] \in {"none", "success"}
                                       /\ \E y \in Devices : push'[e][y] = "success",
             (p = "success") = (c = "none"),
             \/ mapping' = mapping
             \/ p = "success" /\ mapping' = [mapping EXCEPT ![d] = "active"],
             c = "device_applied" => c = ckpt[e][d],
             p = "success" => ckpt[e][d] = "device_applied"
      PROVE  SagaInv'
  <2> USE DEF RecoveryMove, BootFrame, peopleVars, attemptVars, fillVars, revokeVars
  <2>1. /\ todo' \subseteq Keys /\ halfway' \subseteq todo' /\ Memory'
        /\ CallShape' /\ Ownership' /\ NoReplay' /\ Calm'
    BY <1>a, <1>e, RecoveryMoves
  <2>2. UNCHANGED <<reg, leaver, photo, face, of, driver, pc, call, fill, fillCall, revoke,
                    revoked, phase, faults>>
    BY <1>e
  <2>3. /\ \A x \in Owners, y \in Devices : ckpt'[x][y] = IF x = e /\ y = d THEN c ELSE ckpt[x][y]
        /\ \A x \in Enrollments, y \in Devices :
             push'[x][y] = IF x = e /\ y = d THEN p ELSE push[x][y]
        /\ \A x \in Enrollments : x # e => push'[x] = push[x]
    BY <1>e DEF Put
  <2>4. TypeOK'
    <3>1. mapping' \in [Devices -> {"none", "active", "pending_delete"}] BY ZenonT(60), <1>e DEF TypeOK
    <3> QED BY <1>e, <2>1, <2>2, <3>1 DEF TypeOK, CkptStates
  <2>5. Rows'
    <3>1. ASSUME NEW x \in Enrollments, NEW y \in Devices
          PROVE  /\ push'[x][y] \in {"none", "success"} => ckpt'[x][y] = "none"
                 /\ push'[x][y] \in Nonterminal => ckpt'[x][y] # "none"
      <4>1. CASE x = e /\ y = d
        BY <1>b, <1>e, <1>a, <2>3, <4>1 DEF Nonterminal
      <4>2. CASE ~(x = e /\ y = d)
        <5>1. push'[x][y] = push[x][y] /\ ckpt'[x][y] = ckpt[x][y] BY <2>3, <4>2, OwnersApart
        <5> QED BY <5>1 DEF Rows
      <4> QED BY <4>1, <4>2
    <3>2. ASSUME NEW x \in Enrollments, status[x] = "none"
          PROVE  (\A y \in Devices : push'[x][y] = "none") /\ (\A j \in Commands : of[j] # x)
      <4>1. x # e BY <1>b, <3>2
      <4>2. (\A y \in Devices : push[x][y] = "none") /\ (\A j \in Commands : of[j] # x)
        BY <3>2 DEF Rows
      <4> QED BY <2>3, <4>1, <4>2
    <3> QED BY <1>e, <2>2, <3>1, <3>2 DEF Rows
  <2>6. Kept'
    <3> SUFFICES ASSUME NEW x \in Enrollments, NEW y \in Devices, NEW k \in Commands, Standing(k, x, y)
                 PROVE  push'[x][y] = "success" \/ ckpt'[x][y] # "none"
      BY <2>2 DEF Kept, Standing
    <3>1. CASE x = e /\ y = d BY <1>a, <1>e, <2>3, <3>1
    <3>2. CASE ~(x = e /\ y = d)
      <4>1. push'[x][y] = push[x][y] /\ ckpt'[x][y] = ckpt[x][y] BY <2>3, <3>2, OwnersApart
      <4> QED BY <4>1 DEF Kept
    <3> QED BY <3>1, <3>2
  <2>7. Real'
    <3>1. ASSUME NEW x \in Enrollments, NEW y \in Devices,
                 push'[x][y] = "success" \/ ckpt'[x][y] = "device_applied"
          PROVE  push[x][y] = "success" \/ ckpt[x][y] = "device_applied"
      BY <1>e, <2>3, <3>1, OwnersApart
    <3>2. ASSUME NEW y \in Devices, mapping'[y] # "none"
          PROVE  fillCall[y] = "applied" \/ \E k \in Commands : call[k][y] = "applied"
      <4>1. mapping[y] # "none" \/ (y = d /\ ckpt[e][d] = "device_applied")
        BY <1>e, <3>2 DEF TypeOK
      <4> QED BY <4>1 DEF Real
    <3> QED BY <2>2, <3>1, <3>2 DEF Real
  <2>8. Once'
    <3>1. \A y \in Devices : ckpt'[Backfill][y] = ckpt[Backfill][y] /\ ckpt'[Purge][y] = ckpt[Purge][y]
      BY <2>3, OwnersApart
    <3> QED BY <2>2, <3>1 DEF Once
  <2>9. Whole'
    <3> SUFFICES ASSUME NEW x \in Enrollments, status'[x] = "success"
                 PROVE  /\ \A y \in Devices : push'[x][y] \in {"none", "success"}
                        /\ \E y \in Devices : push'[x][y] = "success"
      BY DEF Whole
    <3>1. CASE x = e BY <1>e, <3>1
    <3>2. CASE x # e
      <4>1. status[x] = "success" /\ push'[x] = push[x] BY <1>e, <2>3, <3>2
      <4> QED BY <4>1 DEF Whole
    <3> QED BY <3>1, <3>2
  <2> QED BY <2>1, <2>4, <2>5, <2>6, <2>7, <2>8, <2>9
<1>2. CASE /\ Applied(e, d) /\ complete_recovered_push_success(e, d)
           /\ todo' = todo \ {<<e, d>>} /\ halfway' = {} /\ UNCHANGED <<phase, faults>> /\ BootFrame
  <2>1. /\ push' \in [Enrollments -> [Devices -> PushStates]]
        /\ Put(push, push', Enrollments, e, d, "success")
    BY <1>2, PushUpdate DEF complete_recovered_push_success, PushStates
  <2>2. /\ ckpt' \in [Owners -> [Devices -> CkptStates]]
        /\ Put(ckpt, ckpt', Owners, e, d, "none")
    BY <1>2, <1>a, CkptUpdate DEF complete_recovered_push_success, CkptStates
  <2>3. RecoveryMove(e, d, "none")
    BY <1>2, <1>a, <2>2 DEF RecoveryMove, CkptStates
  <2>4. push'[e] = [push[e] EXCEPT ![d] = "success"] /\ push'[e] \in [Devices -> PushStates]
    BY <1>2, <1>c, <2>1 DEF complete_recovered_push_success, SetPush
  <2>5. status' = Aggregated(e, push'[e])
    BY <1>2, <2>4 DEF complete_recovered_push_success
  <2>6. /\ status' \in [Enrollments -> {"none", "in_progress", "success", "partial", "failed"}]
        /\ \A x \in Enrollments : (status'[x] = "none") = (status[x] = "none")
        /\ \A x \in Enrollments : x # e => status'[x] = status[x]
        /\ status'[e] = "success" => /\ \A y \in Devices : push'[e][y] \in {"none", "success"}
                                     /\ \E y \in Devices : push'[e][y] = "success"
    BY <1>b, <1>d, <2>4, <2>5, AggregatedOf
  <2>7. ckpt[e][d] = "device_applied" BY <1>2 DEF Applied
  <2>8. mapping' = [mapping EXCEPT ![d] = "active"]
    BY <1>2 DEF complete_recovered_push_success, SetMapping
  <2> QED BY <1>e, <2>1, <2>3, <2>6, <2>7, <2>8
<1>3. CASE /\ ~Applied(e, d) /\ record_push_recovery_failure(e, d, TRUE)
           /\ todo' = todo /\ halfway' = {<<e, d>>} /\ UNCHANGED <<phase, faults>> /\ BootFrame
  <2>1. /\ push' \in [Enrollments -> [Devices -> PushStates]]
        /\ Put(push, push', Enrollments, e, d, "failed")
    BY <1>3, PushUpdate DEF record_push_recovery_failure, PushStates
  <2>2. /\ ckpt' \in [Owners -> [Devices -> CkptStates]]
        /\ Put(ckpt, ckpt', Owners, e, d, "manual")
    BY <1>3, <1>a, CkptMark DEF record_push_recovery_failure, CkptStates
  <2>3. RecoveryMove(e, d, "manual")
    BY <1>3, <1>a, <2>2 DEF RecoveryMove, CkptStates
  <2>4. status' = status /\ mapping' = mapping
    BY <1>3 DEF record_push_recovery_failure
  <2>5. status \in [Enrollments -> {"none", "in_progress", "success", "partial", "failed"}]
    BY DEF TypeOK
  <2> QED BY <1>d, <1>e, <2>1, <2>3, <2>4, <2>5
<1>4. CASE /\ halfway # {} /\ finalize_enrollment(e)
           /\ todo' = todo \ {<<e, d>>} /\ halfway' = {} /\ UNCHANGED <<phase, faults>> /\ BootFrame
  <2>1. Put(push, push', Enrollments, e, d, push[e][d]) /\ Put(ckpt, ckpt', Owners, e, d, ckpt[e][d])
    BY <1>4, <1>a, PutSame DEF finalize_enrollment
  <2>2. UNCHANGED <<push, ckpt, mapping>> /\ status' = Aggregated(e, push[e])
    BY <1>4 DEF finalize_enrollment
  <2>3. RecoveryMove(e, d, ckpt[e][d])
    BY <1>4, <1>a, <1>c, <2>1, <2>2 DEF RecoveryMove
  <2>4. /\ status' \in [Enrollments -> {"none", "in_progress", "success", "partial", "failed"}]
        /\ \A x \in Enrollments : (status'[x] = "none") = (status[x] = "none")
        /\ \A x \in Enrollments : x # e => status'[x] = status[x]
        /\ status'[e] = "success" => /\ \A y \in Devices : push'[e][y] \in {"none", "success"}
                                     /\ \E y \in Devices : push'[e][y] = "success"
    BY <1>b, <1>c, <1>d, <2>2, AggregatedOf
  <2> QED BY <1>a, <1>b, <1>c, <1>e, <2>1, <2>2, <2>3, <2>4
<1> QED BY <1>a, <1>1, <1>2, <1>3, <1>4 DEF recover_push, RecoveryWrite

(* Recovery of a backfill or a purge: the mapping of one reader.            *)
LEMMA RecoverMapping ==
  ASSUME SagaInv, NEW d \in Devices,
         recover_backfill(d) \/ recover_bails(d) \/ recover_purge(d)
  PROVE  SagaInv'
<1> USE DEF SagaInv
<1>a. ckpt \in [Owners -> [Devices -> CkptStates]] BY DEF TypeOK, CkptStates
\* a write to a checkpoint of backfill or purge, and to the mapping
<1>b. ASSUME NEW o \in {Backfill, Purge}, NEW c, RecoveryMove(o, d, c),
             UNCHANGED <<status, push>>,
             mapping' \in [Devices -> {"none", "active", "pending_delete"}],
             \A y \in Devices : mapping'[y] # "none" =>
               mapping[y] # "none" \/ (y = d /\ fillCall[d] = "applied"),
             c = "device_applied" => c = ckpt[o][d]
      PROVE  SagaInv'
  <2> USE DEF RecoveryMove, BootFrame, peopleVars, attemptVars, fillVars, revokeVars
  <2>0. o \in Owners BY OwnersApart
  <2>1. /\ todo' \subseteq Keys /\ halfway' \subseteq todo' /\ Memory'
        /\ CallShape' /\ Ownership' /\ NoReplay' /\ Calm'
    BY <1>b, <2>0, RecoveryMoves
  <2>2. UNCHANGED <<reg, leaver, photo, status, push, face, of, driver, pc, call, fill, fillCall,
                    revoke, revoked, phase, faults>>
    BY <1>b
  <2>3. /\ \A x \in Owners, y \in Devices : ckpt'[x][y] = IF x = o /\ y = d THEN c ELSE ckpt[x][y]
        /\ \A x \in Enrollments, y \in Devices : ckpt'[x][y] = ckpt[x][y]
    BY <1>b, OwnersApart DEF Put
  <2>4. TypeOK' BY <1>b, <2>1, <2>2 DEF TypeOK, CkptStates
  <2>5. Rows' /\ Kept' /\ Whole' BY <2>2, <2>3 DEF Rows, Kept, Standing, Whole
  <2>6. Real'
    <3>1. ASSUME NEW y \in Devices, mapping'[y] # "none"
          PROVE  fillCall[y] = "applied" \/ \E k \in Commands : call[k][y] = "applied"
      BY <1>b, <3>1 DEF Real
    <3> QED BY <2>2, <2>3, <3>1 DEF Real
  <2>7. Once'
    <3>1. \A y \in Devices :
            /\ ckpt'[Backfill][y] = "device_applied" => ckpt[Backfill][y] = "device_applied"
            /\ ckpt'[Purge][y] = "device_applied" => ckpt[Purge][y] = "device_applied"
      BY <1>b, <2>3, OwnersApart
    <3> QED BY <2>2, <3>1 DEF Once
  <2> QED BY <2>1, <2>4, <2>5, <2>6, <2>7
<1>1. CASE Refused /\ Abort /\ BootFrame /\ phase # "up"
  BY <1>1, AbortStep DEF Refused
<1>2. CASE recover_bails(d)
  BY <1>2, AbortStep DEF recover_bails, Visiting
\* the checkpoint is deleted and the mapping written
<1>c. ASSUME NEW o \in {Backfill, Purge}, NEW s \in {"none", "active"}, Visiting(o, d),
             s = "active" => fillCall[d] = "applied",
             SetMapping(d, s), SetCkpt(o, d, "none"), UNCHANGED <<status, push>>,
             todo' = todo \ {<<o, d>>}, halfway' = {}, UNCHANGED <<phase, faults>>, BootFrame
      PROVE  SagaInv'
  <2>1. /\ ckpt' \in [Owners -> [Devices -> CkptStates]]
        /\ Put(ckpt, ckpt', Owners, o, d, "none") /\ "none" \in CkptStates
    BY <1>c, CkptUpdate, OwnersApart DEF CkptStates
  <2>2. RecoveryMove(o, d, "none") BY <1>c, <2>1 DEF RecoveryMove
  <2>3. /\ mapping' \in [Devices -> {"none", "active", "pending_delete"}]
        /\ \A y \in Devices : mapping'[y] = IF y = d THEN s ELSE mapping[y]
    BY <1>c DEF SetMapping, TypeOK
  <2> QED BY <1>b, <1>c, <2>2, <2>3
\* the checkpoint becomes manual
<1>d. ASSUME NEW o \in {Backfill, Purge}, Visiting(o, d),
             mark_device_operation(o, d, "manual"), UNCHANGED <<phase, faults>>, BootFrame,
             \/ todo' = todo \ {<<o, d>>} /\ halfway' = {}
             \/ todo' = todo /\ halfway' = {<<o, d>>}
      PROVE  SagaInv'
  <2>1. "manual" \in CkptStates /\ o \in Owners BY OwnersApart DEF CkptStates
  <2>2. ckpt[o][d] # "none" BY <1>d, <2>1 DEF Visiting, Memory
  <2>3. /\ ckpt' \in [Owners -> [Devices -> CkptStates]]
        /\ Put(ckpt, ckpt', Owners, o, d, "manual")
    BY <1>d, <2>1, <2>2, CkptMark DEF mark_device_operation
  <2>4. RecoveryMove(o, d, "manual") BY <1>d, <2>1, <2>3 DEF RecoveryMove
  <2>5. UNCHANGED <<status, push, mapping>> BY <1>d DEF mark_device_operation
  <2>6. mapping \in [Devices -> {"none", "active", "pending_delete"}] BY DEF TypeOK
  <2> QED BY <1>b, <2>4, <2>5, <2>6
<1>3. CASE recover_backfill(d)
  <2>1. Visiting(Backfill, d) /\ phase # "up" BY <1>3 DEF recover_backfill, Visiting
  <2>2. CASE Refused /\ Abort /\ BootFrame BY <1>1, <2>1, <2>2
  <2>3. CASE /\ IF Applied(Backfill, d) THEN complete_backfill_mapping(d)
                ELSE mark_device_operation(Backfill, d, "manual")
             /\ todo' = todo \ {<<Backfill, d>>} /\ halfway' = {} /\ UNCHANGED <<phase, faults>>
             /\ BootFrame
    <3>1. CASE Applied(Backfill, d)
      <4>1. fillCall[d] = "applied" BY <3>1 DEF Applied, Once
      <4> QED BY <1>c, <2>1, <2>3, <3>1, <4>1 DEF complete_backfill_mapping
    <3>2. CASE ~Applied(Backfill, d) BY <1>d, <2>1, <2>3, <3>2
    <3> QED BY <3>1, <3>2
  <2> QED BY <1>3, <2>2, <2>3 DEF recover_backfill, RecoveryWrite
<1>4. CASE recover_purge(d)
  <2>1. Visiting(Purge, d) /\ phase # "up" BY <1>4 DEF recover_purge, Visiting
  <2>2. CASE Refused /\ Abort /\ BootFrame BY <1>1, <2>1, <2>2
  <2>3. CASE /\ complete_purge_mapping(d) /\ UNCHANGED <<phase, faults>> /\ BootFrame
             /\ todo' = todo \ {<<Purge, d>>} /\ halfway' = {}
    BY <1>c, <2>1, <2>3 DEF complete_purge_mapping
  <2>4. CASE /\ mark_device_operation(Purge, d, "manual") /\ UNCHANGED <<phase, faults>> /\ BootFrame
             /\ todo' = todo /\ halfway' = {<<Purge, d>>}
    BY <1>d, <2>1, <2>4
  <2>5. CASE /\ mark_mapping_pending_delete(d) /\ UNCHANGED <<phase, faults>> /\ BootFrame
             /\ todo' = todo \ {<<Purge, d>>} /\ halfway' = {}
    <3>1. UNCHANGED <<status, push, ckpt>> BY <2>5 DEF mark_mapping_pending_delete
    <3>2. /\ mapping' \in [Devices -> {"none", "active", "pending_delete"}]
          /\ \A y \in Devices : mapping'[y] # "none" => mapping[y] # "none"
      BY <2>5 DEF mark_mapping_pending_delete, TypeOK
    <3>3. Put(ckpt, ckpt', Owners, Purge, d, ckpt[Purge][d]) /\ ckpt[Purge][d] \in CkptStates
      BY <1>a, <3>1, PutSame, OwnersApart
    <3>4. RecoveryMove(Purge, d, ckpt[Purge][d])
      BY <1>a, <2>1, <2>5, <3>1, <3>3 DEF RecoveryMove
    <3> QED BY <1>b, <3>1, <3>2, <3>4
  <2> QED BY <1>4, <2>2, <2>3, <2>4, <2>5 DEF recover_purge, RecoveryWrite
<1> QED BY <1>2, <1>3, <1>4

(* Every step of recovery.                                                  *)
LEMMA BootStep ==
  ASSUME SagaInv, Boot
  PROVE  SagaInv'
<1> USE DEF SagaInv
<1>1. CASE Restart \/ Recovered
  <2> USE DEF BootFrame, peopleVars, attemptVars, fillVars, revokeVars, dbVars
  <2>1. phase # "up" /\ UNCHANGED <<reg, leaver, photo, status, push, ckpt, mapping, face, of,
                                    driver, pc, call, fill, fillCall, revoke, revoked, faults>>
    BY <1>1 DEF Restart, Recovered
  <2>2. CallShape' /\ Ownership' /\ NoReplay' /\ Calm' BY <2>1, NothingRuns
  <2>3. /\ phase' \in {"up", "down", "recovering"} /\ todo' \subseteq Keys /\ halfway' \subseteq todo'
        /\ \A o \in Owners, d \in Devices :
             <<o, d>> \in todo' => phase' = "recovering" /\ ckpt[o][d] # "none"
    BY <1>1 DEF Restart, Recovered, TypeOK, Keys
  <2>4. TypeOK' BY <2>1, <2>3 DEF TypeOK
  <2>5. \A k \in Commands, d \in Devices : ~Live(k, d)' BY <2>1 DEF Memory, Live
  <2>6. Memory' BY <2>1, <2>3, <2>5 DEF Memory
  <2>7. Rows' /\ Kept' /\ Real' /\ Once' /\ Whole'
    BY <2>1 DEF Rows, Kept, Standing, Real, Once, Whole
  <2> QED BY <2>2, <2>4, <2>6, <2>7
<1> QED BY <1>1, RecoverPush, RecoverMapping DEF Boot

-----------------------------------------------------------------------------
(* The invariant holds at the start and after every step.                   *)

(* At the start there is no push, no call and no checkpoint.                *)
LEMMA SagaInit == Init => SagaInv
<1> SUFFICES ASSUME Init PROVE SagaInv
  OBVIOUS
<1> USE SagaAssumption DEF Init
<1>1. TypeOK
  <2>1. faults \in 0..MaxFaults OBVIOUS
  <2> QED BY <2>1 DEF TypeOK, PushStates, CallStates, AttemptPcs, FillPcs, RevokePcs
<1>2. Memory BY DEF Memory, Live
<1>3. CallShape BY DEF CallShape
<1>4. Rows BY OwnersApart DEF Rows, Nonterminal
<1>5. Ownership BY DEF Ownership, Busy, Live
<1>6. Kept /\ NoReplay BY DEF Kept, NoReplay, Standing
<1>7. Real BY OwnersApart DEF Real
<1>8. Once BY OwnersApart DEF Once
<1>9. Whole BY DEF Whole
<1>10. Calm BY DEF Calm, Nonterminal
<1> QED BY <1>1, <1>2, <1>3, <1>4, <1>5, <1>6, <1>7, <1>8, <1>9, <1>10 DEF SagaInv

(* One case per action: of attempts, workers, people, readers and startup.  *)
LEMMA SagaStep == SagaInv /\ [Next]_vars => SagaInv'
<1> SUFFICES ASSUME SagaInv, [Next]_vars PROVE SagaInv'
  OBVIOUS
<1>1. CASE Administrator BY <1>1, PeopleStep, StartStep, RetryStep DEF Administrator
<1>2. CASE Leaving \/ drop_request BY <1>2, PeopleStep DEF Leaving
<1>3. CASE \E k \in Commands, d \in Devices : Attempt(k, d) \/ push_panics(k, d)
  BY <1>3, AttemptStep
<1>4. CASE \E k \in Commands : Finish(k) BY <1>4, FinishStep
<1>5. CASE \E d \in Devices : Backfilling(d) \/ Purging(d) \/ ReaderApplies(d)
  BY <1>5, FillStep, RevokeStep, ReaderStep
<1>6. CASE Crash \/ Boot BY <1>6, CrashStep, BootStep
<1>7. CASE UNCHANGED vars
  BY <1>7
  DEF vars, SagaInv, TypeOK, Memory, CallShape, Rows, Ownership, Kept, NoReplay, Standing,
      Real, Once, Whole, Calm, Busy, Live
<1> QED BY <1>1, <1>2, <1>3, <1>4, <1>5, <1>6, <1>7 DEF Next

(* The inductive invariant holds in every behaviour: the three tables, the  *)
(* calls and the attempts of any number of commands stay in step.           *)
THEOREM SagaIsInvariant == Spec => []SagaInv
<1> QED BY SagaInit, SagaStep, PTL DEF Spec

(* The variables keep their types.                                          *)
THEOREM SagaTypes == Spec => []TypeOK
<1>1. SagaInv => TypeOK BY DEF SagaInv
<1> QED BY <1>1, SagaIsInvariant, PTL

(* No push has two calls its reader has not refused, whatever is retried,   *)
(* times out, panics or crashes (retry_enrollment_push, migration 019).     *)
THEOREM NoReplayHolds == Spec => []NoReplay
<1>1. SagaInv => NoReplay BY DEF SagaInv
<1> QED BY <1>1, SagaIsInvariant, PTL

(* A call that may have been carried out, or a push that is not finished,   *)
(* keeps its row of device_operation_checkpoints.                           *)
THEOREM CheckpointIsKeptHolds == Spec => []CheckpointIsKept
<1>1. SagaInv => CheckpointIsKept BY DEF SagaInv, CheckpointIsKept, Kept, Rows
<1> QED BY <1>1, SagaIsInvariant, PTL

(* A success, a device_applied checkpoint and a mapping were each preceded  *)
(* by a call its reader carried out (complete_push_success and recovery).   *)
THEOREM SuccessIsRealHolds == Spec => []SuccessIsReal
<1>1. SagaInv => SuccessIsReal BY DEF SagaInv, SuccessIsReal, Real
<1> QED BY <1>1, SagaIsInvariant, PTL

(* An enrollment that says success has all its pushes there for good, and   *)
(* without faults its status is the aggregate when its commands are over    *)
(* (finalize_enrollment).                                                   *)
THEOREM StatusIsAggregateHolds == Spec => []StatusIsAggregate
<1>1. SagaInv => StatusIsAggregate
  <2> SUFFICES ASSUME SagaInv PROVE StatusIsAggregate
    OBVIOUS
  <2>1. ASSUME NEW e \in Enrollments, status[e] = "success"
        PROVE  FinalStatus(push[e]) = "success" /\ \A d \in Devices : push[e][d] \notin Nonterminal
    <3>1. /\ \A d \in Devices : push[e][d] \in {"none", "success"}
          /\ \E d \in Devices : push[e][d] = "success"
      BY <2>1 DEF SagaInv, Whole
    <3> QED BY <3>1 DEF FinalStatus, Nonterminal
  <2>2. ASSUME faults = 0, \A k \in Commands : driver[k] # "running",
               NEW e \in Enrollments, status[e] # "none"
        PROVE  status[e] = FinalStatus(push[e])
    BY <2>2 DEF SagaInv, Calm
  <2> QED BY <2>1, <2>2 DEF StatusIsAggregate
<1> QED BY <1>1, SagaIsInvariant, PTL

(* Only complete_purge_mapping deletes a mapping, and it is only reached    *)
(* with the revocation carried out: in the worker once the reader has       *)
(* answered, in recovery from a device_applied checkpoint.                  *)
THEOREM RevocationIsRealHolds == Spec => RevocationIsReal
<1> DEFINE Deleted == \E d \in Devices : mapping[d] # "none" /\ mapping'[d] = "none"
           Safe == \A d \in Devices : mapping[d] # "none" /\ mapping'[d] = "none"
                     => revoked[d] = "applied"
<1>1. SagaInv /\ [Next]_vars => Safe
  <2> SUFFICES ASSUME SagaInv, [Next]_vars, Deleted PROVE Safe
    OBVIOUS
  <2>a. mapping \in [Devices -> {"none", "active", "pending_delete"}] BY DEF SagaInv, TypeOK
  <2>b. mapping' # mapping OBVIOUS
  <2>c. ASSUME NEW d \in Devices, SetMapping(d, "active") PROVE FALSE
    BY <2>a, <2>c DEF SetMapping
  <2>d. ASSUME NEW d \in Devices, mark_mapping_pending_delete(d) PROVE FALSE
    BY <2>a, <2>d DEF mark_mapping_pending_delete
  <2>e. ASSUME NEW d \in Devices, SetMapping(d, "none"), revoked[d] = "applied" PROVE Safe
    BY <2>a, <2>e DEF SetMapping
  <2> HIDE DEF Deleted, Safe
  <2> USE DEF dbVars
  <2>1. CASE Administrator \/ Leaving \/ drop_request
    BY <2>1, <2>b
    DEF Administrator, Leaving, drop_request, create_device, switch_device, deactivate,
        deactivate_employee, purge_enrolled_faces, send_purge_request, process_employee,
        start_enrollment, retry_enrollment_push
  <2>2. ASSUME NEW k \in Commands, NEW d \in Devices, Attempt(k, d) \/ push_panics(k, d)
        PROVE  FALSE
    BY <2>2, <2>b, <2>c
    DEF Attempt, push_starts, push_applied, push_completes, push_unsaved, push_rejected,
        push_manual, push_catch, enroll, push_panics, Persist, Refused, mark_push_in_progress,
        mark_device_operation, complete_push_success, record_push_recovery_failure,
        complete_push_failure, terminalize_authorized_failure
  <2>3. CASE \E k \in Commands : Finish(k)
    BY <2>3, <2>b DEF Finish, finalize_enrollment, Refused
  <2>4. ASSUME NEW d \in Devices, Backfilling(d) \/ ReaderApplies(d)
        PROVE  FALSE
    BY <2>4, <2>b, <2>c
    DEF Backfilling, fill_takes, fill_admits, fill_calls, fill_applied, fill_completes,
        fill_manual, FillWrite, Refused, admit_device_operation, mark_device_operation,
        complete_backfill_mapping, ReaderApplies
  <2>5. ASSUME NEW d \in Devices, Purging(d) PROVE Safe
    <3>1. CASE revoke_completes(d)
      <4>1. revoked[d] = "applied"
        BY <3>1 DEF revoke_completes, RevokeWrite, SagaInv, Once
      <4> QED BY <3>1, <4>1, <2>b, <2>e
              DEF revoke_completes, RevokeWrite, Refused, complete_purge_mapping
    <3> QED BY <3>1, <2>5, <2>b, <2>d
            DEF Purging, revoke_skips, revoke_admits, revoke_calls, revoke_applied,
                revoke_rejected, revoke_manual, revoke_unsure, revoke_pends, RevokeWrite, Refused,
                admit_device_operation, mark_device_operation
  <2>6. CASE Crash BY <2>6, <2>b DEF Crash
  <2>7. CASE Boot
    <3>1. CASE Restart \/ Recovered BY <3>1, <2>b DEF Restart, Recovered
    <3>2. ASSUME NEW d \in Devices, NEW e \in Enrollments, recover_push(e, d) PROVE FALSE
      BY <3>2, <2>b, <2>c
      DEF recover_push, RecoveryWrite, Refused, complete_recovered_push_success,
          record_push_recovery_failure, finalize_enrollment
    <3>3. ASSUME NEW d \in Devices, recover_backfill(d) \/ recover_bails(d) PROVE FALSE
      BY <3>3, <2>b, <2>c
      DEF recover_backfill, recover_bails, RecoveryWrite, Refused, complete_backfill_mapping,
          mark_device_operation
    <3>4. ASSUME NEW d \in Devices, recover_purge(d) PROVE Safe
      <4>1. CASE Applied(Purge, d) /\ complete_purge_mapping(d)
        <5>1. revoked[d] = "applied" BY <4>1 DEF Applied, SagaInv, Once
        <5> QED BY <4>1, <5>1, <2>e DEF complete_purge_mapping
      <4> QED BY <4>1, <3>4, <2>b, <2>d
              DEF recover_purge, RecoveryWrite, Refused, mark_device_operation
    <3> QED BY <2>7, <3>1, <3>2, <3>3, <3>4 DEF Boot
  <2>8. CASE UNCHANGED vars BY <2>8, <2>b DEF vars
  <2> QED BY <2>1, <2>2, <2>3, <2>4, <2>5, <2>6, <2>7, <2>8 DEF Next
<1>2. Spec => [][Safe]_vars
  BY <1>1, SagaIsInvariant, PTL DEF Spec
<1> QED BY <1>2 DEF RevocationIsReal
=============================================================================
