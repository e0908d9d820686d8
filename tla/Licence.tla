------------------------------ MODULE Licence ------------------------------
(***************************************************************************)
(* The licence of an installation: license/service.rs, the activation      *)
(* handler of setup/handlers.rs and the boot of main.rs.  A licence is a   *)
(* signed token that names a machine; it is kept in one file, and the      *)
(* process keeps one flag, license_valid, that the gate of                 *)
(* license/middleware.rs reads on every protected request.                 *)
(*                                                                         *)
(* The licence server and the disk are outside: the server answers what it *)
(* likes, and a crash may come between any two steps.                      *)
(***************************************************************************)
EXTENDS Naturals, FiniteSets

CONSTANTS
  Machines,     \* hardware fingerprints
  Activations,  \* activation requests that may be open at the same time
  Budgets       \* bounds of a behaviour: activations, renewals, crashes, odd
                \* boots, and those of the module that extends this one

ASSUME LicenceAssumption ==
  /\ Machines # {} /\ IsFiniteSet(Machines)
  /\ \A b \in Budgets : {b.activations, b.renewals, b.crashes, b.oddBoots} \subseteq Nat

VARIABLES
  budget,      \* the bounds of this behaviour
  flags,       \* CRONOMETRIX_E2E and CRONOMETRIX_LICENSE_BYPASS
  up,          \* the process runs
  machine,     \* the hardware it runs on
  blind,       \* the fingerprint could not be read at this boot
  valid,       \* license_valid
  file,        \* the licence file
  activation,  \* activation requests
  renewal,     \* the renewal task
  activated,   \* activations so far
  renewals,    \* renewals so far
  crashes,     \* crashes so far
  oddBoots,    \* boots on other hardware, or that could not read it
  held         \* a licence was in force once, other than by the bypass

licence == <<flags, up, machine, blind, valid, file, activation, renewal,
             activated, renewals, crashes, oddBoots, held>>

NoFile == [kind |-> "none"]
Torn == [kind |-> "torn"]
(* A signed token; old is true in the last 30 days before it expires, and   *)
(* after.                                                                   *)
Token(m, old) == [kind |-> "token", machine |-> m, old |-> old]
Tokens == {Token(m, old) : m \in Machines, old \in BOOLEAN}
Forged == [kind |-> "forged"]

Idle == [pc |-> "idle", machine |-> "none", token |-> NoFile]

-----------------------------------------------------------------------------
(* VERIFICATION                                                             *)

(* verify_license_jwt: the signature only; expiry is not looked at.         *)
verify_license_jwt(t) == t \in Tokens

(* Mutant: the claim is not compared with this machine.                     *)
AcceptsAnySigned(t, m) == verify_license_jwt(t)
(* The checks before a token is persisted, in activation and in renewal.    *)
AcceptedFor(t, m) == verify_license_jwt(t) /\ t.machine = m

(* load_and_validate_license, at boot.                                      *)
load_and_validate_license(f, m, fpUnreadable) ==
  verify_license_jwt(f) /\ ~fpUnreadable /\ f.machine = m

evaluate_bypass(e2e, bypass) ==
  CASE e2e /\ bypass  -> "AllowBypass"
    [] ~e2e /\ bypass -> "AbortMisconfigured"
    [] OTHER          -> "NormalPath"
Bypassed == evaluate_bypass(flags.e2e, flags.bypass) = "AllowBypass"

(* require_license.                                                         *)
Licensed == up /\ valid

-----------------------------------------------------------------------------
(* BOOT AND CRASH                                                           *)

Hold(v) == held' = (held \/ (v /\ ~Bypassed))

(* main, up to the listener.  A misconfigured bypass ends the process.  The *)
(* disk may have been moved to another machine meanwhile.                   *)
Boot(m, fpUnreadable) ==
  LET decision == evaluate_bypass(flags.e2e, flags.bypass)
      ok == \/ decision = "AllowBypass"
            \/ load_and_validate_license(file, m, fpUnreadable)
  IN  /\ ~up /\ decision # "AbortMisconfigured"
      /\ oddBoots' = oddBoots + (IF m # machine \/ fpUnreadable THEN 1 ELSE 0)
      /\ oddBoots' <= budget.oddBoots
      /\ up' = TRUE /\ machine' = m /\ blind' = fpUnreadable
      /\ valid' = ok /\ Hold(ok)
      /\ renewal' = Idle
      /\ UNCHANGED <<budget, flags, file, activation, activated, renewals,
                     crashes>>

Crash ==
  /\ up /\ crashes < budget.crashes
  /\ crashes' = crashes + 1
  /\ up' = FALSE /\ valid' = FALSE
  /\ activation' = [a \in Activations |-> Idle] /\ renewal' = Idle
  /\ UNCHANGED <<budget, flags, machine, blind, file, activated, renewals,
                 oddBoots, held>>

(* The last 30 days of the token begin; only a renewal can tell.            *)
Age ==
  /\ renewals < budget.renewals /\ file \in Tokens /\ ~file.old
  /\ file' = [file EXCEPT !.old = TRUE]
  /\ UNCHANGED <<budget, flags, up, machine, blind, valid, activation, renewal,
                 activated, renewals, crashes, oddBoots, held>>

-----------------------------------------------------------------------------
(* ACTIVATION                                                               *)

Act(a, r) ==
  /\ activation' = [activation EXCEPT ![a] = r]
  /\ UNCHANGED <<budget, flags, up, machine, blind, renewal, renewals, crashes,
                 oddBoots>>

(* setup_activate up to the call of the server: refused once licensed.  A   *)
(* fingerprint that cannot be read is an error before the call.             *)
setup_activate(a) ==
  /\ up /\ ~valid /\ ~blind /\ activation[a].pc = "idle"
  /\ activated < budget.activations /\ activated' = activated + 1
  /\ Act(a, [Idle EXCEPT !.pc = "sent", !.machine = machine])
  /\ UNCHANGED <<valid, file, held>>

(* Mutant: the file itself is truncated and written.                        *)
WrittenInPlace == file' = Torn
(* persist_license_token writes and syncs a temporary file beside it.       *)
WrittenAside == UNCHANGED file

(* The answer.  404, 409, another status, a timeout or a malformed body end *)
(* the request, and so do a token that is not accepted and a failed write.  *)
ActivationAnswered(a) ==
  LET r == activation[a] IN
  /\ r.pc = "sent"
  /\ \/ Act(a, Idle) /\ UNCHANGED file
     \/ \E t \in Tokens \cup {Forged} :
          /\ AcceptedFor(t, r.machine)
          /\ Act(a, [r EXCEPT !.pc = "written", !.token = t])
          /\ WrittenAside
  /\ UNCHANGED <<valid, activated, held>>

(* The rename; the temporary file is removed when it fails.                 *)
ActivationPersisted(a) ==
  LET r == activation[a] IN
  /\ r.pc = "written"
  /\ \/ Act(a, [r EXCEPT !.pc = "granted"]) /\ file' = r.token
     \/ Act(a, Idle) /\ UNCHANGED file
  /\ UNCHANGED <<valid, activated, held>>

(* The flag, last.                                                          *)
ActivationGranted(a) ==
  /\ activation[a].pc = "granted"
  /\ valid' = TRUE /\ Hold(TRUE)
  /\ Act(a, Idle)
  /\ UNCHANGED <<file, activated>>

-----------------------------------------------------------------------------
(* RENEWAL                                                                  *)

Renew(r) ==
  /\ renewal' = r
  /\ UNCHANGED <<budget, flags, up, machine, blind, valid, activation, activated,
                 crashes, oddBoots, held>>

(* renewal_task, every 24 hours: only when licensed, and only a token in    *)
(* its last 30 days.                                                        *)
try_renew ==
  /\ up /\ valid /\ renewal.pc = "idle"
  /\ renewals < budget.renewals /\ renewals' = renewals + 1
  /\ verify_license_jwt(file) /\ file.old /\ ~blind
  /\ Renew([Idle EXCEPT !.pc = "sent", !.machine = machine])
  /\ UNCHANGED file

RenewalAnswered ==
  /\ renewal.pc = "sent"
  /\ \/ Renew(Idle) /\ UNCHANGED file
     \/ \E t \in Tokens \cup {Forged} :
          /\ AcceptedFor(t, renewal.machine)
          /\ Renew([renewal EXCEPT !.pc = "written", !.token = t])
          /\ WrittenAside
  /\ UNCHANGED renewals

RenewalPersisted ==
  /\ renewal.pc = "written"
  /\ Renew(Idle)
  /\ \/ file' = renewal.token
     \/ UNCHANGED file
  /\ UNCHANGED renewals

-----------------------------------------------------------------------------
(* A new installation, or one whose licence was issued earlier.             *)
LicenceInit ==
  /\ budget \in Budgets
  /\ flags \in [e2e : BOOLEAN, bypass : BOOLEAN]
  /\ up = FALSE /\ machine \in Machines /\ blind = FALSE /\ valid = FALSE
  /\ file \in {NoFile, Token(machine, FALSE)}
  /\ activation = [a \in Activations |-> Idle] /\ renewal = Idle
  /\ activated = 0 /\ renewals = 0 /\ crashes = 0 /\ oddBoots = 0
  /\ held = FALSE

LicenceNext ==
  \/ \E m \in Machines, fpUnreadable \in BOOLEAN : Boot(m, fpUnreadable)
  \/ Age
  \/ \E a \in Activations :
       \/ setup_activate(a) \/ ActivationAnswered(a)
       \/ ActivationPersisted(a) \/ ActivationGranted(a)
  \/ try_renew \/ RenewalAnswered \/ RenewalPersisted

LicenceTypeOK ==
  /\ budget \in Budgets /\ flags \in [e2e : BOOLEAN, bypass : BOOLEAN]
  /\ {up, blind, valid, held} \subseteq BOOLEAN /\ machine \in Machines
  /\ file \in Tokens \cup {NoFile, Torn}
  /\ \A r \in {activation[a] : a \in Activations} \cup {renewal} :
       /\ r.pc \in {"idle", "sent", "written", "granted"}
       /\ r.machine \in Machines \cup {"none"} /\ r.token \in Tokens \cup {NoFile}
  /\ {activated, renewals, crashes, oddBoots} \subseteq Nat

(* No request is served as licensed unless the file on disk holds a token   *)
(* signed for the machine that serves it: neither an activation nor a       *)
(* renewal that races it or fails in any step sets the flag of              *)
(* license/service.rs without the proof, the bypass of the tests apart.     *)
(* Once a licence has been in force the file holds a whole token at every   *)
(* moment, so that a crash in the middle of persist_license_token never     *)
(* makes the next boot on that hardware fall back to the setup.             *)
LicenceIsProven ==
  /\ Licensed /\ ~Bypassed => file \in Tokens /\ file.machine = machine
  /\ held => file \in Tokens
=============================================================================
