------------------------------ MODULE Accounts ------------------------------
(***************************************************************************)
(* Who may use the system: the accounts of users/service.rs, the sessions  *)
(* of auth/handlers.rs, the first administrator of setup/handlers.rs, and  *)
(* the licence that gates them (module Licence).                           *)
(*                                                                         *)
(* Every statement goes through the write queue and is one step; what a    *)
(* handler read or verified before it is carried in its request.  A user   *)
(* stands for a username.  A refresh token is its place in issued: tokens  *)
(* carry a random jti, so no two are equal, and neither are their hashes.  *)
(***************************************************************************)
EXTENDS Licence, Sequences

CONSTANTS
  Users,     \* usernames
  Browsers,  \* cookie jars; two requests of one browser are two tabs
  Requests   \* requests that may be open at the same time

ASSUME AccountsAssumption ==
  \A b \in Budgets : b.requests \in Nat /\ b.staffed \in BOOLEAN

Roles == {"admin", "viewer"}
NoToken == 0

VARIABLES
  rows,    \* the users table; ended counts the commits that must end the
           \* sessions of the user: a new password, a deactivation
  issued,  \* refresh tokens in the order they were stored
  jar,     \* the refresh cookie of each browser
  access,  \* the claims of each browser's access token
  reqs,    \* requests
  asked,   \* requests so far
  initialised,  \* rows created by setup_init
  usurped  \* an account was changed on claims that were no longer true

accounts == <<rows, issued, jar, access, reqs, asked, initialised, usurped>>
vars == <<budget, licence, accounts>>

NoRow == [status |-> "absent", role |-> "viewer", ended |-> 0,
          hash |-> NoToken, version |-> 0]
NewRow(role) == [NoRow EXCEPT !.status = "active", !.role = role, !.version = 1]
NoClaims == [user |-> "none", role |-> "viewer"]
NoRequest == [pc |-> "idle", op |-> "none", browser |-> "none", user |-> "none",
              actor |-> "none", token |-> NoToken, role |-> "viewer", ended |-> 0,
              version |-> 0, value |-> "none"]

(* A new installation, or one whose two administrators are signed in.       *)
Init ==
  /\ LicenceInit
  /\ rows = [u \in Users |-> IF budget.staffed THEN NewRow("admin") ELSE NoRow]
  /\ issued = <<>>
  /\ jar = [b \in Browsers |-> NoToken]
  /\ access \in IF budget.staffed
                  THEN {[b \in Browsers |-> [user |-> f[b], role |-> "admin"]] :
                          f \in [Browsers -> Users]}
                  ELSE {[b \in Browsers |-> NoClaims]}
  /\ budget.staffed => file # NoFile /\ flags = [e2e |-> FALSE, bypass |-> FALSE]
  /\ reqs = [r \in Requests |-> NoRequest] /\ asked = 0
  /\ initialised = 0 /\ usurped = FALSE

-----------------------------------------------------------------------------
(* REQUESTS                                                                 *)

Ask(r, request) ==
  /\ up /\ reqs[r] = NoRequest /\ asked < budget.requests
  /\ asked' = asked + 1
  /\ reqs' = [reqs EXCEPT ![r] = request]
  /\ UNCHANGED <<budget, licence, rows, issued, jar, access, initialised, usurped>>

Commit(r, newRows, tokens, request) ==
  /\ rows' = newRows /\ issued' = issued \o tokens
  /\ reqs' = [reqs EXCEPT ![r] = request]
  /\ UNCHANGED <<budget, licence, jar, access, asked>>

Refuse(r) ==
  /\ reqs' = [reqs EXCEPT ![r] = NoRequest]
  /\ UNCHANGED <<budget, licence, rows, issued, jar, access, asked, initialised,
                 usurped>>

(* The answer reaches the browser, or is lost with the connection: the      *)
(* statement is committed either way.                                       *)
Answer(r) ==
  LET q == reqs[r] IN
  /\ q.pc = "answer"
  /\ reqs' = [reqs EXCEPT ![r] = NoRequest]
  /\ \/ UNCHANGED <<jar, access>>
     \/ /\ jar' = [jar EXCEPT ![q.browser] = q.token]
        /\ access' = [access EXCEPT ![q.browser] =
             IF q.token = NoToken THEN NoClaims ELSE [user |-> q.user, role |-> q.role]]
  /\ UNCHANGED <<budget, licence, rows, issued, asked, initialised, usurped>>

(* An access token lives 20 minutes, a refresh cookie 7 days.               *)
Expire(b) ==
  /\ \/ access[b] # NoClaims /\ access' = [access EXCEPT ![b] = NoClaims] /\ UNCHANGED jar
     \/ jar[b] # NoToken /\ jar' = [jar EXCEPT ![b] = NoToken] /\ UNCHANGED access
  /\ UNCHANGED <<budget, licence, rows, issued, reqs, asked, initialised, usurped>>

-----------------------------------------------------------------------------
(* SESSIONS                                                                 *)

(* A token remembers the token it was exchanged for, and what the user had  *)
(* behind it when the password was verified.                                *)
issue_refresh_token(u, parent, ended, late) ==
  [user |-> u, parent |-> parent, ended |-> ended, late |-> late]

(* login, up to the verified password; a wrong one ends the request.        *)
login(r, b, u) ==
  /\ rows[u].status = "active"
  /\ Ask(r, [NoRequest EXCEPT !.pc = "verified", !.op = "login", !.browser = b,
               !.user = u, !.role = rows[u].role, !.ended = rows[u].ended])

(* login, the UPDATE: by id only.                                           *)
LoginStored(r) ==
  LET q == reqs[r]
      t == Len(issued) + 1
  IN  /\ q.pc = "verified" /\ q.op = "login"
      /\ Commit(r, [rows EXCEPT ![q.user].hash = t],
                <<issue_refresh_token(q.user, NoToken, q.ended,
                                      q.ended # rows[q.user].ended)>>,
                [q EXCEPT !.pc = "answer", !.token = t])
      /\ UNCHANGED <<initialised, usurped>>

(* refresh, up to the row: the cookie is verified and the user is active.   *)
refresh(r, b) ==
  LET t == jar[b] IN
  /\ Licensed /\ t # NoToken
  /\ rows[issued[t].user].status = "active"
  /\ Ask(r, [NoRequest EXCEPT !.pc = "verified", !.op = "refresh", !.browser = b,
               !.user = issued[t].user, !.token = t, !.role = rows[issued[t].user].role])

(* Mutant: the UPDATE names the id and the status only.                     *)
AnyTokenRotates(q) == rows[q.user].status = "active"
(* refresh, the compare-and-set on the hash.                                *)
Rotates(q) == rows[q.user].hash = q.token /\ rows[q.user].status = "active"

RefreshStored(r) ==
  LET q == reqs[r]
      t == Len(issued) + 1
      old == issued[q.token]
  IN  /\ q.pc = "verified" /\ q.op = "refresh"
      /\ \/ /\ Rotates(q)
            /\ Commit(r, [rows EXCEPT ![q.user].hash = t],
                      <<issue_refresh_token(q.user, q.token, old.ended, old.late)>>,
                      [q EXCEPT !.pc = "answer", !.token = t])
            /\ UNCHANGED <<initialised, usurped>>
         \/ ~Rotates(q) /\ Refuse(r)

(* logout: the cookie is verified, then the hash is cleared if it is still  *)
(* this token's; the answer expires the cookie in any case.                 *)
logout(r, b) ==
  /\ Licensed /\ jar[b] # NoToken
  /\ Ask(r, [NoRequest EXCEPT !.pc = "verified", !.op = "logout", !.browser = b,
               !.user = issued[jar[b]].user, !.token = jar[b]])

LogoutStored(r) ==
  LET q == reqs[r]
      cleared == IF rows[q.user].hash = q.token THEN NoToken ELSE rows[q.user].hash
  IN  /\ q.pc = "verified" /\ q.op = "logout"
      /\ Commit(r, [rows EXCEPT ![q.user].hash = cleared], <<>>,
                [q EXCEPT !.pc = "answer", !.token = NoToken])
      /\ UNCHANGED <<initialised, usurped>>

-----------------------------------------------------------------------------
(* ACCOUNTS                                                                 *)

(* require_admin looks at the claims only.                                  *)
require_admin(b) == Licensed /\ access[b].role = "admin"

(* Mutant: an administrator may act on their own account.                   *)
SelfAllowed(actor, u, op, value) == TRUE
(* The own role, and the own deactivation, are refused.                     *)
NotOneself(actor, u, op, value) ==
  actor = u => op \notin {"role", "delete"} /\ value # "inactive"

(* create_user, update_user, deactivate_user: the request, with the version *)
(* its administrator saw.                                                   *)
AdminRequest(r, b, u, op, value) ==
  /\ require_admin(b)
  /\ NotOneself(access[b].user, u, op, value)
  /\ Ask(r, [NoRequest EXCEPT !.pc = "checked", !.op = op, !.browser = b, !.user = u,
               !.actor = access[b].user, !.version = rows[u].version, !.value = value])

AdminRequests(r, b, u) ==
  \/ AdminRequest(r, b, u, "delete", "none")
  \/ \E role \in Roles :
       AdminRequest(r, b, u, IF rows[u].status = "absent" THEN "create" ELSE "role", role)
  \/ \E status \in {"active", "inactive"} : AdminRequest(r, b, u, "status", status)
  \/ AdminRequest(r, b, u, "password", "none")

(* Mutant: the sessions survive a new password.                             *)
OnlyPasswordSet(row) == [row EXCEPT !.ended = @ + 1]
(* A new password clears the stored hash.                                   *)
PasswordSet(row) == [row EXCEPT !.ended = @ + 1, !.hash = NoToken]

Changed(row, q) ==
  LET r == CASE q.op = "role"     -> [row EXCEPT !.role = q.value]
             [] q.op = "status"   -> [row EXCEPT !.status = q.value]
             [] q.op = "password" -> PasswordSet(row)
             [] q.op = "delete"   -> [row EXCEPT !.status = "inactive",
                                        !.ended = @ + 1, !.hash = NoToken]
  IN  [r EXCEPT !.version = @ + 1]

(* The actor's row, when an account is changed in its name.                 *)
StillAdmin(actor) == rows[actor].status = "active" /\ rows[actor].role = "admin"

(* The statement: an INSERT, which a taken username refuses, or an UPDATE   *)
(* guarded by the version.                                                  *)
AdminStored(r) ==
  LET q == reqs[r]
      row == rows[q.user]
      new == IF q.op = "create" THEN NewRow(q.value) ELSE Changed(row, q)
      applies == row.version = q.version /\ (q.op = "create" <=> row.status = "absent")
  IN  /\ q.pc = "checked"
      /\ \/ /\ applies
            /\ Commit(r, [rows EXCEPT ![q.user] = new], <<>>, NoRequest)
            /\ usurped' = (usurped \/ ~StillAdmin(q.actor))
            /\ UNCHANGED initialised
         \/ ~applies /\ Refuse(r)

-----------------------------------------------------------------------------
(* SETUP                                                                    *)

Empty == \A u \in Users : rows[u].status = "absent"

(* setup_init, the count before the password is hashed.                     *)
setup_init(r, u) ==
  /\ Empty
  /\ Ask(r, [NoRequest EXCEPT !.pc = "hashed", !.op = "init", !.user = u])

(* Mutant: the first count is trusted.                                      *)
PrecheckTrusted(u) == rows[u].status = "absent"
(* The count in the transaction of the INSERT.                              *)
StillEmpty(u) == Empty

SetupStored(r) ==
  LET u == reqs[r].user IN
  /\ reqs[r].pc = "hashed"
  /\ \/ /\ StillEmpty(u)
        /\ Commit(r, [rows EXCEPT ![u] = NewRow("admin")], <<>>, NoRequest)
        /\ initialised' = initialised + 1
        /\ UNCHANGED usurped
     \/ ~StillEmpty(u) /\ Refuse(r)

-----------------------------------------------------------------------------
(* The process dies with its requests; a statement in the queue may or may  *)
(* not have been committed, which is the crash before or after its step.    *)
ProcessCrash ==
  /\ Crash
  /\ reqs' = [r \in Requests |-> NoRequest]
  /\ UNCHANGED <<rows, issued, jar, access, asked, initialised, usurped>>

Next ==
  \/ LicenceNext /\ UNCHANGED accounts
  \/ ProcessCrash
  \/ \E r \in Requests :
       \/ Answer(r)
       \/ \E b \in Browsers, u \in Users : login(r, b, u) \/ AdminRequests(r, b, u)
       \/ LoginStored(r)
       \/ \E b \in Browsers : refresh(r, b) \/ logout(r, b)
       \/ RefreshStored(r) \/ LogoutStored(r)
       \/ AdminStored(r)
       \/ (\E u \in Users : setup_init(r, u)) \/ SetupStored(r)
  \/ \E b \in Browsers : Expire(b)

Spec == Init /\ [][Next]_vars

-----------------------------------------------------------------------------
RowType == [status : {"absent", "active", "inactive"}, role : Roles, ended : Nat,
            hash : 0..Len(issued), version : Nat]

TypeOK ==
  /\ LicenceTypeOK
  /\ rows \in [Users -> RowType]
  /\ \A i \in DOMAIN issued : issued[i].user \in Users /\ issued[i].parent \in 0..(i - 1)
  /\ jar \in [Browsers -> 0..Len(issued)]
  /\ \A b \in Browsers : access[b].user \in Users \cup {"none"} /\ access[b].role \in Roles
  /\ \A r \in Requests :
       /\ reqs[r].pc \in {"idle", "verified", "checked", "hashed", "answer"}
       /\ reqs[r].user \in Users \cup {"none"} /\ reqs[r].token \in 0..Len(issued)
  /\ asked \in Nat /\ initialised \in Nat /\ usurped \in BOOLEAN

(* A refresh token is exchanged at most once, whatever tabs race with it,   *)
(* whatever answers are lost and whatever the account goes through          *)
(* meanwhile (auth/handlers.rs, refresh).                                   *)
RotatedOnce ==
  \A i, j \in DOMAIN issued :
    issued[i].parent = issued[j].parent /\ issued[i].parent # NoToken => i = j

(* The session that can be continued was opened after the last password     *)
(* change and the last DELETE of its account, however refreshes and logouts *)
(* interleave with them (users/service.rs; a PATCH of the status leaves the *)
(* hash, and refresh checks the status).  The one exception is a login      *)
(* whose password was verified before and stored after.                     *)
SessionsEnd ==
  \A u \in Users :
    LET t == rows[u].hash IN
    t # NoToken => issued[t].ended = rows[u].ended \/ issued[t].late

(* The unauthenticated setup creates one account in the life of the system, *)
(* however many requests race through the hashing of the password           *)
(* (setup_init).  From then on an active administrator remains, unless an   *)
(* account was changed by someone who had already lost the right: the       *)
(* claims of an access token are trusted for 20 minutes (auth/rbac.rs), and *)
(* nothing else counts the administrators.                                  *)
AdminRemains ==
  /\ TypeOK
  /\ initialised <= 1
  /\ ~Empty /\ ~usurped =>
       \E u \in Users : rows[u].status = "active" /\ rows[u].role = "admin"
=============================================================================
