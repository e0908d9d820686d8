--------------------------- MODULE AccountsProofs ---------------------------
(***************************************************************************)
(* Proofs about accounts, sessions and the licence, for any users,         *)
(* browsers, requests, machines and activations.                           *)
(***************************************************************************)
EXTENDS Accounts, SequenceTheorems, TLAPS

-----------------------------------------------------------------------------
(* The inductive invariant of the licence.                                  *)

Exchanges == [pc : {"idle", "sent", "written", "granted"},
              machine : Machines \cup {"none"}, token : Tokens \cup {NoFile}]

LicenceTypes ==
  /\ budget \in Budgets /\ flags \in [e2e : BOOLEAN, bypass : BOOLEAN]
  /\ up \in BOOLEAN /\ blind \in BOOLEAN /\ valid \in BOOLEAN /\ held \in BOOLEAN
  /\ machine \in Machines /\ file \in Tokens \cup {NoFile}
  /\ activation \in [Activations -> Exchanges] /\ renewal \in Exchanges
  /\ activated \in Nat /\ renewals \in Nat /\ crashes \in Nat /\ oddBoots \in Nat

(* The file holds a token for the hardware the process runs on.             *)
Proven(f) == f \in Tokens /\ f.machine = machine

(* An exchange with the licence server is for this machine, and a token is  *)
(* only written and granted when it is too.                                 *)
Sound(x) ==
  /\ x.pc # "idle" => up /\ x.machine = machine
  /\ x.pc = "written" => Proven(x.token)

LicenceInv ==
  /\ LicenceTypes
  /\ \A a \in Activations :
       Sound(activation[a]) /\ (activation[a].pc = "granted" => Proven(file))
  /\ Sound(renewal)
  /\ LicenceIsProven

-----------------------------------------------------------------------------
(* The inductive invariant of the accounts.                                 *)

RefreshTokens == [user : Users, parent : Nat, ended : Nat, late : BOOLEAN]
Claims == [user : Users \cup {"none"}, role : Roles]
AllRequests ==
  [pc : {"idle", "verified", "checked", "hashed", "answer"},
   op : {"none", "login", "refresh", "logout", "delete", "create", "role", "status",
         "password", "init"},
   browser : Browsers \cup {"none"}, user : Users \cup {"none"},
   actor : Users \cup {"none"}, token : Nat, role : Roles, ended : Nat, version : Nat,
   value : Roles \cup {"active", "inactive", "none"}]
Rows == [status : {"absent", "active", "inactive"}, role : Roles, ended : Nat,
         hash : Nat, version : Nat]

AccountTypes ==
  /\ rows \in [Users -> Rows]
  /\ issued \in Seq(RefreshTokens)
  /\ jar \in [Browsers -> Nat]
  /\ access \in [Browsers -> Claims]
  /\ reqs \in [Requests -> AllRequests]
  /\ asked \in Nat /\ initialised \in Nat /\ usurped \in BOOLEAN

(* A cookie, a claim and a request name what has been issued, and a request *)
(* of an administrator one that is not about their own right.               *)
Named ==
  /\ \A b \in Browsers : jar[b] <= Len(issued)
  /\ \A b \in Browsers : access[b].role = "admin" => access[b].user \in Users
  /\ \A i \in 1..Len(issued) : issued[i].parent < i

Asked(q) ==
  /\ q.token <= Len(issued)
  /\ q.pc # "idle" => q.user \in Users
  /\ q.pc = "verified" /\ q.op = "refresh" =>
       q.token # NoToken /\ issued[q.token].user = q.user
  /\ q.pc = "checked" =>
       /\ q.actor \in Users /\ NotOneself(q.actor, q.user, q.op, q.value)
       /\ q.op \in {"delete", "create", "role", "status", "password"}
       /\ q.op \in {"create", "role"} => q.value \in Roles
       /\ q.op = "status" => q.value \in {"active", "inactive"}
  /\ q.pc \in {"verified", "answer"} => q.browser \in Browsers

(* The stored hash is the newest token of its session, and of its user.     *)
Newest ==
  \A u \in Users : LET t == rows[u].hash IN
    /\ t <= Len(issued)
    /\ t # NoToken => /\ issued[t].user = u
                      /\ \A i \in 1..Len(issued) : issued[i].parent # t

(* What the administrators leave behind.                                    *)
Staffed ==
  /\ initialised <= 1
  /\ initialised = 1 => ~Empty
  /\ ~Empty /\ ~usurped => \E u \in Users : StillAdmin(u)

AccountInv ==
  /\ AccountTypes /\ Named /\ (\A r \in Requests : Asked(reqs[r]))
  /\ Newest /\ RotatedOnce /\ SessionsEnd /\ Staffed

AccountsInv == LicenceInv /\ AccountInv

-----------------------------------------------------------------------------
(* The licence.                                                             *)

(* What a token is, and what ageing leaves of it.                           *)
LEMMA TokenFacts ==
  /\ \A t \in Tokens : t.machine \in Machines /\ t.kind = "token"
  /\ \A t \in Tokens : [t EXCEPT !.old = TRUE] \in Tokens
                       /\ [t EXCEPT !.old = TRUE].machine = t.machine
  /\ \A m \in Machines : Token(m, FALSE) \in Tokens /\ Token(m, FALSE).machine = m
  /\ NoFile \notin Tokens /\ Forged \notin Tokens
<1>1. \A t \in Tokens : \E m \in Machines, old \in BOOLEAN :
        t = [kind |-> "token", machine |-> m, old |-> old]
  BY DEF Tokens, Token
<1>2. \A m \in Machines, old \in BOOLEAN : [kind |-> "token", machine |-> m, old |-> old] \in Tokens
  BY DEF Tokens, Token
<1>3. \A t \in Tokens : t.machine \in Machines /\ t.kind = "token" BY <1>1
<1>4. \A t \in Tokens : [t EXCEPT !.old = TRUE] \in Tokens
                       /\ [t EXCEPT !.old = TRUE].machine = t.machine
  <2> TAKE t \in Tokens
  <2>1. PICK m \in Machines, old \in BOOLEAN : t = [kind |-> "token", machine |-> m, old |-> old]
    BY <1>1
  <2>2. t \in [kind : {"token"}, machine : Machines, old : BOOLEAN] BY <2>1
  <2>3. [t EXCEPT !.old = TRUE] \in [kind : {"token"}, machine : Machines, old : BOOLEAN]
        /\ [t EXCEPT !.old = TRUE].machine = t.machine
    BY <2>2
  <2>4. \A x \in [kind : {"token"}, machine : Machines, old : BOOLEAN] : x \in Tokens
    BY <1>2
  <2> QED BY <2>3, <2>4
<1>5. \A m \in Machines : Token(m, FALSE) \in Tokens /\ Token(m, FALSE).machine = m
  BY <1>2 DEF Token
<1>6. NoFile.kind = "none" /\ Forged.kind = "forged" BY DEF NoFile, Forged
<1> QED BY <1>3, <1>4, <1>5, <1>6

(* Steps of the exchanges with the licence server.                          *)
LEMMA IdleExchange == Idle \in Exchanges /\ Idle.pc = "idle"
BY DEF Idle, Exchanges

(* Every step of the licence, and its absence, keeps its invariant: the     *)
(* boot and the crash of main.rs, the three steps of an activation, those   *)
(* of a renewal, and the ageing of a token.                                 *)
LEMMA LicenceStep ==
  ASSUME LicenceInv, LicenceNext \/ Crash \/ UNCHANGED <<budget, licence>>
  PROVE  LicenceInv'
<1> USE DEF LicenceInv
<1> USE IdleExchange
<1>a. file \in Tokens => file.machine \in Machines BY TokenFacts
<1>1. ASSUME NEW m \in Machines, NEW fpUnreadable \in BOOLEAN, Boot(m, fpUnreadable)
      PROVE  LicenceInv'
  <2>1. /\ UNCHANGED <<budget, flags, file, activation, activated, renewals, crashes>>
        /\ ~up /\ up' = TRUE /\ machine' = m /\ blind' = fpUnreadable /\ renewal' = Idle
        /\ valid' = (Bypassed \/ load_and_validate_license(file, m, fpUnreadable))
        /\ held' = (held \/ (valid' /\ ~Bypassed))
    BY <1>1 DEF Boot, Hold, Bypassed
  <2>2. oddBoots' \in Nat BY <1>1 DEF Boot, LicenceTypes
  <2>3. valid' \in BOOLEAN /\ held' \in BOOLEAN
    BY <2>1 DEF Bypassed, load_and_validate_license, LicenceTypes
  <2>4. LicenceTypes' BY <2>1, <2>2, <2>3 DEF LicenceTypes
  <2>5. \A a \in Activations : activation'[a].pc = "idle" BY <2>1 DEF Sound
  <2>6. \A a \in Activations : Sound(activation[a])' BY <2>5 DEF Sound
  <2>7. Sound(renewal)' BY <2>1 DEF Sound
  <2>8. Bypassed' = Bypassed BY <2>1 DEF Bypassed
  <2>9. LicenceIsProven'
    <3>1. valid' /\ ~Bypassed => file \in Tokens /\ file.machine = m
      BY <2>1 DEF load_and_validate_license, verify_license_jwt
    <3>2. held' => file \in Tokens
      BY <2>1, <3>1 DEF LicenceIsProven
    <3> QED BY <2>1, <2>8, <3>1, <3>2 DEF LicenceIsProven, Licensed
  <2> QED BY <2>4, <2>5, <2>6, <2>7, <2>9
<1>2. CASE Crash
  <2>1. /\ UNCHANGED <<budget, flags, machine, blind, file, activated, renewals, oddBoots, held>>
        /\ up' = FALSE /\ valid' = FALSE /\ renewal' = Idle
        /\ activation' = [a \in Activations |-> Idle] /\ crashes' \in Nat
    BY <1>2 DEF Crash, LicenceTypes
  <2>2. LicenceTypes' BY <2>1 DEF LicenceTypes
  <2>3. (\A a \in Activations : activation'[a].pc = "idle") /\ renewal'.pc = "idle" BY <2>1
  <2>4. LicenceIsProven' BY <2>1 DEF LicenceIsProven, Licensed
  <2> QED BY <2>2, <2>3, <2>4 DEF Sound
<1>3. CASE Age
  <2>1. /\ UNCHANGED <<budget, flags, up, machine, blind, valid, activation, renewal,
                       activated, renewals, crashes, oddBoots, held>>
        /\ file \in Tokens /\ file' \in Tokens /\ file'.machine = file.machine
    BY <1>3, TokenFacts DEF Age
  <2>2. LicenceTypes' BY <2>1 DEF LicenceTypes
  <2>3. \A x : Sound(x)' <=> Sound(x) BY <2>1 DEF Sound, Proven
  <2>4. LicenceIsProven' BY <2>1 DEF LicenceIsProven, Licensed, Bypassed
  <2> QED BY <2>1, <2>2, <2>3, <2>4 DEF Proven
\* an activation moves to x, and the file stays provable
<1>b. ASSUME NEW a \in Activations, NEW x \in Exchanges, Act(a, x),
             Sound(x), x.pc = "granted" => Proven(file'),
             file' = file \/ Proven(file'), file' \in Tokens \cup {NoFile},
             activated' \in Nat,
             \/ UNCHANGED <<valid, held>>
             \/ valid' = TRUE /\ held' = (held \/ ~Bypassed) /\ Proven(file')
      PROVE  LicenceInv'
  <2>1. /\ UNCHANGED <<budget, flags, up, machine, blind, renewal, renewals, crashes, oddBoots>>
        /\ \A y \in Activations : activation'[y] = IF y = a THEN x ELSE activation[y]
        /\ activation' \in [Activations -> Exchanges]
    BY <1>b DEF Act, LicenceTypes
  <2>2. valid' \in BOOLEAN /\ held' \in BOOLEAN BY <1>b DEF LicenceTypes
  <2>3. LicenceTypes' BY <1>b, <2>1, <2>2 DEF LicenceTypes
  <2>4. (\A y : Sound(y)' <=> Sound(y)) /\ (Bypassed' <=> Bypassed) /\ (\A y : Proven(y)' <=> Proven(y))
    BY <2>1 DEF Sound, Proven, Bypassed
  <2>5. \A y \in Activations :
          Sound(activation[y])' /\ (activation'[y].pc = "granted" => Proven(file'))
    BY <1>b, <2>1, <2>4
  <2>6. LicenceIsProven'
    <3>1. valid' /\ up /\ ~Bypassed => Proven(file')
      BY <1>b DEF LicenceIsProven, Licensed, Proven
    <3>2. held' => file' \in Tokens
      BY <1>b DEF LicenceIsProven, Proven
    <3> QED BY <2>1, <2>4, <3>1, <3>2 DEF LicenceIsProven, Licensed, Proven
  <2> QED BY <2>1, <2>3, <2>4, <2>5, <2>6
\* the renewal moves to x, likewise
<1>c. ASSUME NEW x \in Exchanges, Renew(x), Sound(x),
             file' = file \/ Proven(file'), file' \in Tokens \cup {NoFile}, renewals' \in Nat
      PROVE  LicenceInv'
  <2>1. /\ UNCHANGED <<budget, flags, up, machine, blind, valid, activation, activated,
                       crashes, oddBoots, held>>
        /\ renewal' = x
    BY <1>c DEF Renew
  <2>2. LicenceTypes' BY <1>c, <2>1 DEF LicenceTypes
  <2>3. (\A y : Sound(y)' <=> Sound(y)) /\ (Bypassed' <=> Bypassed) /\ (\A y : Proven(y)' <=> Proven(y))
    BY <2>1 DEF Sound, Proven, Bypassed
  <2>4. LicenceIsProven'
    BY <1>c, <2>1, <2>3 DEF LicenceIsProven, Licensed, Proven
  <2> QED BY <1>c, <2>1, <2>2, <2>3, <2>4
<1>d. file \in Tokens \cup {NoFile} /\ activated \in Nat /\ renewals \in Nat /\ machine \in Machines
  BY DEF LicenceTypes
<1>e. Sound(Idle) BY DEF Sound
<1>4. ASSUME NEW a \in Activations, setup_activate(a) PROVE LicenceInv'
  <2> DEFINE x == [Idle EXCEPT !.pc = "sent", !.machine = machine]
  <2>1. x \in Exchanges /\ x.pc = "sent" /\ x.machine = machine
    BY <1>d DEF Idle, Exchanges
  <2>2. up /\ Act(a, x) /\ UNCHANGED <<valid, file, held>> /\ activated' \in Nat
    BY <1>4, <1>d DEF setup_activate
  <2> HIDE DEF x
  <2>3. Sound(x) BY <2>1, <2>2 DEF Sound
  <2> QED BY <1>b, <1>d, <2>1, <2>2, <2>3
<1>f. ASSUME NEW r \in Exchanges, Sound(r), r.pc = "sent",
             NEW t \in Tokens \cup {Forged}, AcceptedFor(t, r.machine)
      PROVE  LET x == [r EXCEPT !.pc = "written", !.token = t] IN x \in Exchanges /\ Sound(x)
  <2> DEFINE x == [r EXCEPT !.pc = "written", !.token = t]
  <2>1. t \in Tokens /\ t.machine = r.machine BY <1>f DEF AcceptedFor, verify_license_jwt
  <2>2. x \in Exchanges /\ x.pc = "written" /\ x.token = t /\ x.machine = r.machine
    BY <2>1 DEF Exchanges
  <2> HIDE DEF x
  <2>3. Sound(x) BY <1>f, <2>1, <2>2 DEF Sound, Proven
  <2> QED BY <2>2, <2>3 DEF x
<1>5. ASSUME NEW a \in Activations, ActivationAnswered(a) PROVE LicenceInv'
  <2> DEFINE r == activation[a]
  <2>1. r \in Exchanges /\ Sound(r) /\ r.pc = "sent" /\ UNCHANGED <<valid, activated, held>>
    BY <1>5 DEF ActivationAnswered, LicenceTypes
  <2>2. CASE Act(a, Idle) /\ UNCHANGED file
    BY <1>b, <1>d, <1>e, <2>1, <2>2
  <2>3. ASSUME NEW t \in Tokens \cup {Forged}, AcceptedFor(t, r.machine), UNCHANGED file,
               Act(a, [r EXCEPT !.pc = "written", !.token = t])
        PROVE  LicenceInv'
    <3> DEFINE x == [r EXCEPT !.pc = "written", !.token = t]
    <3>1. x \in Exchanges /\ Sound(x) BY <1>f, <2>1, <2>3
    <3>2. x.pc = "written" BY <2>1 DEF Exchanges
    <3> HIDE DEF r
    <3>3. Act(a, x) BY <2>3
    <3> HIDE DEF x
    <3> QED BY <1>b, <1>d, <2>1, <2>3, <3>1, <3>2, <3>3
  <2> HIDE DEF r
  <2>4. \/ Act(a, Idle) /\ UNCHANGED file
        \/ \E t \in Tokens \cup {Forged} :
             AcceptedFor(t, r.machine) /\ UNCHANGED file /\ Act(a, [r EXCEPT !.pc = "written", !.token = t])
    BY <1>5 DEF ActivationAnswered, WrittenAside, r
  <2> QED BY <2>2, <2>3, <2>4
<1>6. ASSUME NEW a \in Activations, ActivationPersisted(a) PROVE LicenceInv'
  <2> DEFINE r == activation[a]
             x == [r EXCEPT !.pc = "granted"]
  <2>1. /\ r \in Exchanges /\ Sound(r) /\ r.pc = "written"
        /\ UNCHANGED <<valid, activated, held>>
        /\ \/ Act(a, x) /\ file' = r.token
           \/ Act(a, Idle) /\ UNCHANGED file
    BY <1>6 DEF ActivationPersisted, LicenceTypes
  <2>2. x \in Exchanges /\ x.pc = "granted" /\ x.machine = r.machine BY <2>1 DEF Exchanges
  <2> HIDE DEF r, x
  <2>3. Sound(x) /\ Proven(r.token) BY <2>1, <2>2 DEF Sound
  <2> QED BY <1>b, <1>d, <1>e, <2>1, <2>2, <2>3 DEF Proven
<1>7. ASSUME NEW a \in Activations, ActivationGranted(a) PROVE LicenceInv'
  <2>1. Proven(file) /\ file' = file BY <1>7 DEF ActivationGranted
  <2>2. valid' = TRUE /\ held' = (held \/ ~Bypassed) /\ Act(a, Idle) /\ activated' = activated
    BY <1>7 DEF ActivationGranted, Hold
  <2> QED BY <1>b, <1>d, <1>e, <2>1, <2>2
<1>8. CASE try_renew
  <2> DEFINE x == [Idle EXCEPT !.pc = "sent", !.machine = machine]
  <2>1. x \in Exchanges /\ x.pc = "sent" /\ x.machine = machine
    BY <1>d DEF Idle, Exchanges
  <2>2. up /\ Renew(x) /\ UNCHANGED file /\ renewals' \in Nat
    BY <1>8, <1>d DEF try_renew
  <2> HIDE DEF x
  <2>3. Sound(x) BY <2>1, <2>2 DEF Sound
  <2> QED BY <1>c, <1>d, <2>1, <2>2, <2>3
<1>9. CASE RenewalAnswered
  <2>1. renewal \in Exchanges /\ renewal.pc = "sent" /\ renewals' = renewals
    BY <1>9 DEF RenewalAnswered, LicenceTypes
  <2>2. CASE Renew(Idle) /\ UNCHANGED file
    BY <1>c, <1>d, <1>e, <2>1, <2>2
  <2>3. ASSUME NEW t \in Tokens \cup {Forged}, AcceptedFor(t, renewal.machine), UNCHANGED file,
               Renew([renewal EXCEPT !.pc = "written", !.token = t])
        PROVE  LicenceInv'
    <3> DEFINE x == [renewal EXCEPT !.pc = "written", !.token = t]
    <3>1. x \in Exchanges /\ Sound(x) BY <1>f, <2>1, <2>3
    <3>2. Renew(x) BY <2>3
    <3> HIDE DEF x
    <3> QED BY <1>c, <1>d, <2>1, <2>3, <3>1, <3>2
  <2> QED BY <1>9, <2>2, <2>3 DEF RenewalAnswered, WrittenAside
<1>10. CASE RenewalPersisted
  <2>1. renewal.pc = "written" /\ Renew(Idle) /\ (file' = renewal.token \/ file' = file)
        /\ renewals' = renewals
    BY <1>10 DEF RenewalPersisted
  <2>2. Proven(renewal.token) BY <2>1 DEF Sound
  <2> QED BY <1>c, <1>d, <1>e, <2>1, <2>2 DEF Proven
<1>11. CASE UNCHANGED <<budget, licence>>
  BY <1>11 DEF licence, LicenceTypes, Sound, Proven, LicenceIsProven, Licensed, Bypassed
<1> QED BY <1>1, <1>2, <1>3, <1>4, <1>5, <1>6, <1>7, <1>8, <1>9, <1>10, <1>11 DEF LicenceNext

-----------------------------------------------------------------------------
(* Requests.                                                                *)

(* What one more refresh token makes of the list.                           *)
LEMMA Issue ==
  ASSUME issued \in Seq(RefreshTokens), NEW t \in RefreshTokens, issued' = issued \o <<t>>
  PROVE  /\ issued' \in Seq(RefreshTokens) /\ Len(issued') = Len(issued) + 1
         /\ issued'[Len(issued) + 1] = t
         /\ \A i \in 1..Len(issued) : issued'[i] = issued[i]
<1>1. <<t>> \in Seq(RefreshTokens) /\ Len(<<t>>) = 1 /\ <<t>>[1] = t OBVIOUS
<1> QED BY <1>1, ConcatProperties

(* A commit that issues no token leaves the list.                           *)
LEMMA IssueNone ==
  ASSUME issued \in Seq(RefreshTokens)
  PROVE  issued \o <<>> = issued
BY ConcatEmptySeq

(* A request stays what it is while tokens are only added.                  *)
LEMMA AskedStays ==
  ASSUME issued \in Seq(RefreshTokens), Len(issued') \in Nat, Len(issued) <= Len(issued'),
         \A i \in 1..Len(issued) : issued'[i] = issued[i],
         NEW q \in AllRequests, Asked(q)
  PROVE  Asked(q)'
<1>1. q.token \in Nat /\ Len(issued) \in Nat BY DEF AllRequests
<1>2. q.token <= Len(issued') BY <1>1 DEF Asked
<1>3. q.token # NoToken => issued'[q.token] = issued[q.token]
  BY <1>1 DEF Asked, NoToken
<1> QED BY <1>2, <1>3 DEF Asked

(* A request that has ended is one that can be, whatever the step does.     *)
LEMMA NoRequestAsked == AccountTypes => NoRequest \in AllRequests /\ Asked(NoRequest) /\ Asked(NoRequest)'
<1> SUFFICES ASSUME AccountTypes PROVE NoRequest \in AllRequests /\ Asked(NoRequest) /\ Asked(NoRequest)'
  OBVIOUS
<1>1. NoRequest \in AllRequests BY DEF NoRequest, AllRequests, NoToken, Roles
<1> QED BY <1>1 DEF NoRequest, Asked, NoToken, AccountTypes

(* A step that writes no row and issues no token keeps the invariant when   *)
(* the requests, the cookies and the claims it leaves are sound.            *)
LEMMA RequestStep ==
  ASSUME AccountInv, UNCHANGED <<rows, issued, initialised, usurped>>,
         reqs' \in [Requests -> AllRequests], \A r \in Requests : Asked(reqs'[r]),
         asked' \in Nat, jar' \in [Browsers -> Nat], access' \in [Browsers -> Claims],
         \A b \in Browsers : jar'[b] <= Len(issued),
         \A b \in Browsers : access'[b].role = "admin" => access'[b].user \in Users
  PROVE  AccountInv'
<1> USE DEF AccountInv
<1>1. AccountTypes' BY DEF AccountTypes
<1>2. Named' BY DEF Named
<1>3. \A q : Asked(q)' <=> Asked(q) BY DEF Asked
<1>4. \A r \in Requests : Asked(reqs[r])' BY <1>3
<1>5. Newest' /\ RotatedOnce' /\ SessionsEnd' BY DEF Newest, RotatedOnce, SessionsEnd
<1>6. Staffed' BY DEF Staffed, Empty, StillAdmin
<1> QED BY <1>1, <1>2, <1>4, <1>5, <1>6

(* A request is opened with what its handler read.                          *)
LEMMA AskStep ==
  ASSUME AccountInv, NEW r \in Requests, NEW q \in AllRequests, Asked(q), Ask(r, q)
  PROVE  AccountInv'
<1>1. /\ UNCHANGED <<rows, issued, jar, access, initialised, usurped>>
      /\ asked' \in Nat /\ reqs' = [reqs EXCEPT ![r] = q]
  BY DEF Ask, AccountInv, AccountTypes
<1>2. reqs' \in [Requests -> AllRequests] /\ \A x \in Requests : Asked(reqs'[x])
  BY <1>1 DEF AccountInv, AccountTypes
<1>3. jar' \in [Browsers -> Nat] /\ access' \in [Browsers -> Claims]
  BY <1>1 DEF AccountInv, AccountTypes
<1> QED BY <1>1, <1>2, <1>3, RequestStep DEF AccountInv, Named

(* A request is refused: 401, 409 or 403, and nothing is written.           *)
LEMMA RefuseStep ==
  ASSUME AccountInv, NEW r \in Requests, Refuse(r)
  PROVE  AccountInv'
<1>1. /\ UNCHANGED <<rows, issued, jar, access, asked, initialised, usurped>>
      /\ reqs' = [reqs EXCEPT ![r] = NoRequest]
  BY DEF Refuse
<1>2. reqs' \in [Requests -> AllRequests] /\ \A x \in Requests : Asked(reqs'[x])
  BY <1>1, NoRequestAsked DEF AccountInv, AccountTypes
<1>3. jar' \in [Browsers -> Nat] /\ access' \in [Browsers -> Claims] /\ asked' \in Nat
  BY <1>1 DEF AccountInv, AccountTypes
<1> QED BY <1>1, <1>2, <1>3, RequestStep DEF AccountInv, Named

(* An answer sets the cookie and the claims of its browser, or is lost.     *)
LEMMA AnswerStep ==
  ASSUME AccountInv, NEW r \in Requests, Answer(r)
  PROVE  AccountInv'
<1> DEFINE q == reqs[r]
           c == IF q.token = NoToken THEN NoClaims ELSE [user |-> q.user, role |-> q.role]
<1>1. /\ UNCHANGED <<rows, issued, asked, initialised, usurped>>
      /\ reqs' = [reqs EXCEPT ![r] = NoRequest]
      /\ q.pc = "answer"
      /\ \/ UNCHANGED <<jar, access>>
         \/ jar' = [jar EXCEPT ![q.browser] = q.token] /\ access' = [access EXCEPT ![q.browser] = c]
  BY DEF Answer
<1>2. q \in AllRequests /\ Asked(q) BY DEF AccountInv, AccountTypes
<1>3. q.user \in Users /\ q.browser \in Browsers /\ q.token \in Nat /\ q.token <= Len(issued)
      /\ q.role \in Roles
  BY <1>1, <1>2 DEF Asked, AllRequests
<1> HIDE DEF q
<1>4. c \in Claims /\ (c.role = "admin" => c.user \in Users)
  BY <1>3 DEF Claims, NoClaims, Roles
<1> HIDE DEF c
<1>5. reqs' \in [Requests -> AllRequests] /\ \A x \in Requests : Asked(reqs'[x])
  BY <1>1, NoRequestAsked DEF AccountInv, AccountTypes
<1>6. /\ jar' \in [Browsers -> Nat] /\ access' \in [Browsers -> Claims] /\ asked' \in Nat
      /\ \A b \in Browsers : jar'[b] <= Len(issued)
      /\ \A b \in Browsers : access'[b].role = "admin" => access'[b].user \in Users
  BY <1>1, <1>3, <1>4 DEF AccountInv, AccountTypes, Named
<1> QED BY <1>1, <1>5, <1>6, RequestStep

(* An access token or a refresh cookie expires.                             *)
LEMMA ExpireStep ==
  ASSUME AccountInv, NEW b \in Browsers, Expire(b)
  PROVE  AccountInv'
<1>1. /\ UNCHANGED <<rows, issued, reqs, asked, initialised, usurped>>
      /\ jar' = jar \/ jar' = [jar EXCEPT ![b] = NoToken]
      /\ access' = access \/ access' = [access EXCEPT ![b] = NoClaims]
  BY DEF Expire
<1>2. NoClaims \in Claims /\ NoClaims.role # "admin" BY DEF NoClaims, Claims, Roles
<1>3. /\ jar' \in [Browsers -> Nat]
      /\ \A x \in Browsers : jar'[x] <= Len(issued)
  <2>1. jar \in [Browsers -> Nat] /\ NoToken \in Nat /\ \A x \in Browsers : jar[x] <= Len(issued)
    BY DEF AccountInv, AccountTypes, Named, NoToken
  <2>2. NoToken <= Len(issued) BY DEF AccountInv, AccountTypes, NoToken
  <2> QED BY <1>1, <2>1, <2>2
<1>4. /\ access' \in [Browsers -> Claims]
      /\ \A x \in Browsers : access'[x].role = "admin" => access'[x].user \in Users
  BY <1>1, <1>2 DEF AccountInv, AccountTypes, Named
<1>5. reqs' \in [Requests -> AllRequests] /\ asked' \in Nat /\ \A r \in Requests : Asked(reqs'[r])
  BY <1>1 DEF AccountInv, AccountTypes
<1> QED BY <1>1, <1>3, <1>4, <1>5, RequestStep

(* Setting the hash of a row.                                               *)
LEMMA HashSet ==
  ASSUME NEW row \in Rows, NEW t \in Nat
  PROVE  LET new == [row EXCEPT !.hash = t] IN
         /\ new \in Rows /\ new.hash = t /\ new.ended = row.ended
         /\ new.status = row.status /\ new.role = row.role
BY DEF Rows

(* A login and a refresh: a new token becomes the hash of its user.         *)
LEMMA TokenStored ==
  ASSUME AccountInv, NEW r \in Requests, NEW u \in Users, NEW t \in RefreshTokens,
         NEW q \in AllRequests,
         t.user = u, t.ended = rows[u].ended \/ t.late,
         t.parent = NoToken \/ t.parent = rows[u].hash,
         q.pc = "answer", q.user \in Users, q.browser \in Browsers, q.token = Len(issued) + 1,
         Commit(r, [rows EXCEPT ![u].hash = Len(issued) + 1], <<t>>, q),
         UNCHANGED <<initialised, usurped>>
  PROVE  AccountInv'
<1> DEFINE n == Len(issued) + 1
<1> USE DEF AccountInv
<1>1. /\ rows' = [rows EXCEPT ![u].hash = n] /\ issued' = issued \o <<t>>
      /\ reqs' = [reqs EXCEPT ![r] = q]
      /\ UNCHANGED <<jar, access, asked, initialised, usurped>>
  BY DEF Commit
<1>2. /\ issued' \in Seq(RefreshTokens) /\ Len(issued') = n /\ issued'[n] = t
      /\ \A i \in 1..Len(issued) : issued'[i] = issued[i]
      /\ Len(issued) \in Nat /\ n \in Nat /\ DOMAIN issued = 1..Len(issued)
      /\ DOMAIN issued' = 1..n
  BY <1>1, Issue DEF AccountTypes
<1>3. /\ rows' \in [Users -> Rows]
      /\ \A x \in Users : /\ rows'[x].hash = IF x = u THEN n ELSE rows[x].hash
                          /\ rows'[x].ended = rows[x].ended
                          /\ rows'[x].status = rows[x].status
                          /\ rows'[x].role = rows[x].role
  <2> HIDE DEF n
  <2>1. rows \in [Users -> Rows] BY DEF AccountTypes
  <2>2. [rows[u] EXCEPT !.hash = n] \in Rows BY <1>2, <2>1, HashSet
  <2>3. rows' = [rows EXCEPT ![u] = [rows[u] EXCEPT !.hash = n]] BY <1>1, <2>1
  <2>4. rows' \in [Users -> Rows]
        /\ \A x \in Users : rows'[x] = IF x = u THEN [rows[u] EXCEPT !.hash = n] ELSE rows[x]
    BY <2>1, <2>2, <2>3
  <2>5. rows[u] \in Rows BY <2>1
  <2>6. LET row == [rows[u] EXCEPT !.hash = n] IN
        row.hash = n /\ row.ended = rows[u].ended /\ row.status = rows[u].status
        /\ row.role = rows[u].role
    BY <1>2, <2>5, HashSet
  <2> QED BY <2>4, <2>6
<1>4. \A x \in Users : rows[x].hash \in Nat /\ rows[x].hash <= Len(issued)
  BY DEF AccountTypes, Rows, Newest
<1>5. t.parent \in Nat /\ t.parent < n BY <1>2, <1>4 DEF RefreshTokens, NoToken
<1> HIDE DEF n
<1>6. AccountTypes' BY <1>1, <1>2, <1>3 DEF AccountTypes
<1>7. Named'
  <2>1. ASSUME NEW i \in 1..n PROVE issued'[i].parent < i
    <3>1. CASE i = n BY <1>2, <1>5, <3>1
    <3>2. CASE i # n
      <4>1. i \in 1..Len(issued) BY <1>2, <3>2 DEF n
      <4> QED BY <1>2, <4>1 DEF Named
    <3> QED BY <3>1, <3>2
  <2>2. \A b \in Browsers : jar[b] <= n BY <1>2 DEF Named, AccountTypes, n
  <2> QED BY <1>1, <1>2, <2>1, <2>2 DEF Named
<1>8. \A x \in Requests : Asked(reqs[x])'
  <2>1. \A x \in Requests : Asked(reqs[x]) /\ reqs[x] \in AllRequests BY DEF AccountTypes
  <2>2. Len(issued) <= Len(issued') /\ Len(issued') \in Nat BY <1>2 DEF n
  <2>3. \A y \in AllRequests : Asked(y) => Asked(y)' BY <1>2, <2>2, AskedStays DEF AccountTypes
  <2>4. Asked(q)' BY <1>2 DEF Asked, n
  <2>5. \A x \in Requests : reqs'[x] = IF x = r THEN q ELSE reqs[x] BY <1>1 DEF AccountTypes
  <2> QED BY <2>1, <2>3, <2>4, <2>5
<1>9. Newest'
  <2> SUFFICES ASSUME NEW x \in Users
               PROVE  LET h == rows'[x].hash IN
                        /\ h <= n
                        /\ h # NoToken => /\ issued'[h].user = x
                                          /\ \A i \in 1..n : issued'[i].parent # h
    BY <1>2 DEF Newest
  <2>1. CASE x = u
    <3>1. rows'[x].hash = n BY <1>3, <2>1
    <3>2. \A i \in 1..n : issued'[i].parent < n
      <4>1. \A i \in 1..Len(issued) : issued[i].parent < i /\ issued[i].parent \in Nat
        <5>1. \A i \in 1..Len(issued) : issued[i] \in RefreshTokens BY DEF AccountTypes
        <5> QED BY <5>1 DEF Named, RefreshTokens
      <4> QED BY <1>2, <1>5, <4>1 DEF n
    <3>3. \A i \in 1..n : issued'[i].parent # n
      <4>1. \A i \in 1..n : issued'[i] \in RefreshTokens BY <1>2
      <4> QED BY <1>2, <3>2, <4>1 DEF RefreshTokens
    <3> QED BY <1>2, <2>1, <3>1, <3>3
  <2>2. CASE x # u
    <3> DEFINE h == rows[x].hash
    <3>1. rows'[x].hash = h /\ h \in Nat /\ h <= Len(issued) BY <1>3, <1>4, <2>2
    <3>2. ASSUME h # NoToken
          PROVE  issued'[h].user = x /\ \A i \in 1..n : issued'[i].parent # h
      <4>1. issued[h].user = x /\ \A i \in 1..Len(issued) : issued[i].parent # h
        BY <3>2 DEF Newest
      <4>2. h \in 1..Len(issued) BY <3>1, <3>2, <1>2 DEF NoToken
      <4>3. t.parent # h
        <5>1. t.parent = rows[u].hash /\ rows[u].hash # NoToken => issued[t.parent].user = u
          BY DEF Newest
        <5> QED BY <2>2, <3>2, <4>1, <5>1
      <4> QED BY <1>2, <4>1, <4>2, <4>3 DEF n
    <3> QED BY <1>2, <3>1, <3>2 DEF n
  <2> QED BY <2>1, <2>2
<1>10. RotatedOnce'
  <2> SUFFICES ASSUME NEW i \in 1..n, NEW j \in 1..n, issued'[i].parent = issued'[j].parent,
                      issued'[i].parent # NoToken
               PROVE  i = j
    BY <1>2 DEF RotatedOnce
  <2>1. \A k \in 1..Len(issued) : t.parent # NoToken => issued[k].parent # t.parent
    BY DEF Newest
  <2>2. CASE i = n /\ j = n BY <2>2
  <2>3. CASE i = n /\ j # n
    <3>1. j \in 1..Len(issued) BY <1>2, <2>3 DEF n
    <3> QED BY <1>2, <2>1, <2>3, <3>1
  <2>4. CASE i # n /\ j = n
    <3>1. i \in 1..Len(issued) BY <1>2, <2>4 DEF n
    <3> QED BY <1>2, <2>1, <2>4, <3>1
  <2>5. CASE i # n /\ j # n
    <3>1. i \in 1..Len(issued) /\ j \in 1..Len(issued) BY <1>2, <2>5 DEF n
    <3> QED BY <1>2, <3>1 DEF RotatedOnce
  <2> QED BY <2>2, <2>3, <2>4, <2>5
<1>11. SessionsEnd'
  <2> SUFFICES ASSUME NEW x \in Users, rows'[x].hash # NoToken
               PROVE  LET h == rows'[x].hash IN
                        issued'[h].ended = rows'[x].ended \/ issued'[h].late
    BY DEF SessionsEnd
  <2>1. CASE x = u BY <1>2, <1>3, <2>1
  <2>2. CASE x # u
    <3>1. rows'[x].hash = rows[x].hash /\ rows[x].hash \in 1..Len(issued)
      BY <1>2, <1>3, <1>4, <2>2 DEF NoToken
    <3> QED BY <1>2, <1>3, <3>1 DEF SessionsEnd
  <2> QED BY <2>1, <2>2
<1>12. Staffed'
  <2>1. (Empty' <=> Empty) /\ (\A x \in Users : StillAdmin(x)' <=> StillAdmin(x))
    BY <1>3 DEF Empty, StillAdmin
  <2> QED BY <1>1, <2>1 DEF Staffed
<1> QED BY <1>6, <1>7, <1>8, <1>9, <1>10, <1>11, <1>12

(* Every other write: the row of u becomes row, which keeps the hash with   *)
(* what the user has behind it, or clears it.                               *)
LEMMA RowStored ==
  ASSUME AccountInv, NEW r \in Requests, NEW u \in Users, NEW row \in Rows,
         NEW q \in AllRequests, Asked(q),
         rows' = [rows EXCEPT ![u] = row], issued' = issued, reqs' = [reqs EXCEPT ![r] = q],
         UNCHANGED <<jar, access, asked>>,
         row.hash = NoToken \/ (row.hash = rows[u].hash /\ row.ended = rows[u].ended),
         initialised' \in Nat, usurped' \in BOOLEAN, Staffed'
  PROVE  AccountInv'
<1> USE DEF AccountInv
<1>1. /\ rows' \in [Users -> Rows]
      /\ \A x \in Users : rows'[x] = IF x = u THEN row ELSE rows[x]
  BY DEF AccountTypes
<1>2. AccountTypes' BY <1>1 DEF AccountTypes
<1>3. Named' BY DEF Named
<1>4. \A x \in Requests : Asked(reqs[x])'
  <2>1. \A y : Asked(y)' <=> Asked(y) BY DEF Asked
  <2>2. \A x \in Requests : reqs'[x] = IF x = r THEN q ELSE reqs[x] BY DEF AccountTypes
  <2> QED BY <2>1, <2>2
<1>5. 0 <= Len(issued) BY DEF AccountTypes
<1>6. Newest'
  <2> SUFFICES ASSUME NEW x \in Users
               PROVE  LET h == rows'[x].hash IN
                        /\ h <= Len(issued)
                        /\ h # NoToken => /\ issued[h].user = x
                                          /\ \A i \in 1..Len(issued) : issued[i].parent # h
    BY DEF Newest
  <2>1. rows'[x].hash = rows[x].hash \/ rows'[x].hash = NoToken BY <1>1
  <2> QED BY <1>5, <2>1 DEF Newest, NoToken
<1>7. RotatedOnce' BY DEF RotatedOnce
<1>8. SessionsEnd'
  <2> SUFFICES ASSUME NEW x \in Users, rows'[x].hash # NoToken
               PROVE  LET h == rows'[x].hash IN issued[h].ended = rows'[x].ended \/ issued[h].late
    BY DEF SessionsEnd
  <2>1. rows'[x].hash = rows[x].hash /\ rows'[x].ended = rows[x].ended BY <1>1
  <2> QED BY <2>1 DEF SessionsEnd
<1> QED BY <1>2, <1>3, <1>4, <1>6, <1>7, <1>8

(* Rows that are created.                                                   *)
LEMMA NewRowFacts ==
  ASSUME NEW role \in Roles
  PROVE  /\ NewRow(role) \in Rows /\ NewRow(role).hash = NoToken
         /\ NewRow(role).status = "active" /\ NewRow(role).role = role
BY DEF NewRow, NoRow, Rows, Roles, NoToken

(* What an administrator makes of a row.                                    *)
LEMMA ChangedFacts ==
  ASSUME NEW row \in Rows, NEW q \in AllRequests,
         q.op \in {"delete", "role", "status", "password"},
         q.op = "role" => q.value \in Roles,
         q.op = "status" => q.value \in {"active", "inactive"}
  PROVE  LET new == Changed(row, q) IN
         /\ new \in Rows
         /\ new.hash = NoToken \/ (new.hash = row.hash /\ new.ended = row.ended)
         /\ new.status = CASE q.op = "status" -> q.value
                           [] q.op = "delete" -> "inactive"
                           [] OTHER -> row.status
         /\ q.op # "role" => new.role = row.role
<1> DEFINE bump(x) == [x EXCEPT !.version = @ + 1]
<1>1. ASSUME NEW x \in Rows
      PROVE  /\ bump(x) \in Rows /\ bump(x).hash = x.hash /\ bump(x).ended = x.ended
             /\ bump(x).status = x.status /\ bump(x).role = x.role
  BY DEF Rows
<1>2. CASE q.op = "role"
  <2> DEFINE x == [row EXCEPT !.role = q.value]
  <2>1. /\ x \in Rows /\ x.hash = row.hash /\ x.ended = row.ended /\ x.status = row.status
    BY <1>2 DEF Rows
  <2>2. Changed(row, q) = bump(x) BY <1>2 DEF Changed
  <2> HIDE DEF x, bump
  <2> QED BY <1>1, <1>2, <2>1, <2>2
<1>3. CASE q.op = "status"
  <2> DEFINE x == [row EXCEPT !.status = q.value]
  <2>1. /\ x \in Rows /\ x.hash = row.hash /\ x.ended = row.ended /\ x.status = q.value
        /\ x.role = row.role
    BY <1>3 DEF Rows
  <2>2. Changed(row, q) = bump(x) BY <1>3 DEF Changed
  <2> HIDE DEF x, bump
  <2> QED BY <1>1, <1>3, <2>1, <2>2
<1>4. CASE q.op = "password"
  <2> DEFINE x == PasswordSet(row)
  <2>1. /\ x \in Rows /\ x.hash = NoToken /\ x.status = row.status /\ x.role = row.role
    <3> DEFINE y == [row EXCEPT !.ended = @ + 1]
    <3>1. y \in Rows /\ y.status = row.status /\ y.role = row.role BY DEF Rows
    <3>2. x = [y EXCEPT !.hash = NoToken] BY DEF PasswordSet, Rows
    <3> HIDE DEF x, y
    <3> QED BY <3>1, <3>2 DEF Rows, NoToken
  <2>2. Changed(row, q) = bump(x) BY <1>4 DEF Changed
  <2> HIDE DEF x, bump
  <2> QED BY <1>1, <1>4, <2>1, <2>2
<1>5. CASE q.op = "delete"
  <2> DEFINE x == [row EXCEPT !.status = "inactive", !.ended = @ + 1, !.hash = NoToken]
  <2>1. /\ x \in Rows /\ x.hash = NoToken /\ x.status = "inactive" /\ x.role = row.role
    <3> DEFINE y == [row EXCEPT !.ended = @ + 1]
    <3>1. y \in Rows /\ y.status = row.status /\ y.role = row.role BY DEF Rows
    <3>2. x = [y EXCEPT !.status = "inactive", !.hash = NoToken] BY DEF Rows
    <3> HIDE DEF x, y
    <3> QED BY <3>1, <3>2 DEF Rows, NoToken
  <2>2. Changed(row, q) = bump(x) BY <1>5 DEF Changed
  <2> HIDE DEF x, bump
  <2> QED BY <1>1, <1>5, <2>1, <2>2
<1> QED BY <1>2, <1>3, <1>4, <1>5

(* The requests that are opened.  A session that is named is one that exists. *)
LEMMA SessionStep ==
  ASSUME AccountInv, NEW r \in Requests, NEW b \in Browsers, refresh(r, b) \/ logout(r, b)
  PROVE  AccountInv'
<1> USE DEF AccountInv
<1>a. jar[b] \in Nat /\ jar[b] <= Len(issued) BY DEF AccountTypes, Named
<1>c. ASSUME jar[b] # NoToken
      PROVE  issued[jar[b]].user \in Users /\ rows[issued[jar[b]].user].role \in Roles
  <2>1. jar[b] \in 1..Len(issued) BY <1>a, <1>c DEF NoToken, AccountTypes
  <2>2. issued[jar[b]] \in RefreshTokens BY <2>1 DEF AccountTypes
  <2>3. issued[jar[b]].user \in Users BY <2>2 DEF RefreshTokens
  <2>4. rows[issued[jar[b]].user] \in Rows BY <2>3 DEF AccountTypes
  <2> QED BY <2>3, <2>4 DEF Rows
<1>2. CASE refresh(r, b)
  <2> DEFINE v == issued[jar[b]].user
             q == [NoRequest EXCEPT !.pc = "verified", !.op = "refresh", !.browser = b,
                     !.user = v, !.token = jar[b], !.role = rows[v].role]
  <2>1. jar[b] # NoToken /\ Ask(r, q) BY <1>2 DEF refresh
  <2>2. v \in Users /\ rows[v].role \in Roles BY <1>c, <2>1
  <2>3. q \in AllRequests BY <1>a, <2>2 DEF NoRequest, AllRequests, NoToken, Roles
  <2>4. Asked(q) BY <1>a, <2>1, <2>2 DEF NoRequest, Asked, NoToken
  <2> HIDE DEF q
  <2> QED BY <2>1, <2>3, <2>4, AskStep
<1>3. CASE logout(r, b)
  <2> DEFINE v == issued[jar[b]].user
             q == [NoRequest EXCEPT !.pc = "verified", !.op = "logout", !.browser = b,
                     !.user = v, !.token = jar[b]]
  <2>1. jar[b] # NoToken /\ Ask(r, q) BY <1>3 DEF logout
  <2>2. v \in Users BY <1>c, <2>1
  <2>3. q \in AllRequests BY <1>a, <2>2 DEF NoRequest, AllRequests, NoToken, Roles
  <2>4. Asked(q) BY <1>a, <2>1, <2>2 DEF NoRequest, Asked, NoToken
  <2> HIDE DEF q
  <2> QED BY <2>1, <2>3, <2>4, AskStep
<1> QED BY <1>2, <1>3

(* setup_init opens a request that carries nothing but the username.        *)
LEMMA SetupStep ==
  ASSUME AccountInv, NEW r \in Requests, NEW u \in Users, setup_init(r, u)
  PROVE  AccountInv'
<1> DEFINE q == [NoRequest EXCEPT !.pc = "hashed", !.op = "init", !.user = u]
<1>1. Ask(r, q) BY DEF setup_init
<1>2. q \in AllRequests BY DEF NoRequest, AllRequests, NoToken, Roles
<1>3. 0 <= Len(issued) BY DEF AccountInv, AccountTypes
<1>4. Asked(q) BY <1>3 DEF NoRequest, Asked, NoToken
<1> HIDE DEF q
<1> QED BY <1>1, <1>2, <1>4, AskStep

(* A login takes the role and the sessions ended so far from the row; an    *)
(* administrator is named by the claims of the access token.                *)
LEMMA OpenStep ==
  ASSUME AccountInv, NEW r \in Requests, NEW b \in Browsers, NEW u \in Users,
         login(r, b, u) \/ AdminRequests(r, b, u)
  PROVE  AccountInv'
<1> USE DEF AccountInv
<1>0. AccountTypes /\ Named OBVIOUS
<1>a. rows[u] \in Rows /\ access[b] \in Claims /\ 0 <= Len(issued) BY DEF AccountTypes
<1>b. rows[u].role \in Roles /\ rows[u].ended \in Nat /\ rows[u].version \in Nat
      /\ access[b].user \in Users \cup {"none"}
  BY <1>a DEF Rows, Claims
<1>1. CASE login(r, b, u)
  <2> DEFINE q == [NoRequest EXCEPT !.pc = "verified", !.op = "login", !.browser = b,
                     !.user = u, !.role = rows[u].role, !.ended = rows[u].ended]
  <2>1. q = [NoRequest EXCEPT !.pc = "verified", !.op = "login", !.browser = b,
                     !.user = u, !.role = rows[u].role, !.ended = rows[u].ended] OBVIOUS
  <2>2. q \in AllRequests
    BY <1>b DEF NoRequest, AllRequests, NoToken, Roles
  <2>3. Asked(q) BY <1>a DEF NoRequest, Asked, NoToken
  <2>4. Ask(r, q) BY <1>1 DEF login
  <2> HIDE DEF q
  <2> QED BY <2>2, <2>3, <2>4, AskStep
<1>5. ASSUME NEW op \in {"delete", "create", "role", "status", "password"},
             NEW value \in Roles \cup {"active", "inactive", "none"},
             op \in {"create", "role"} => value \in Roles,
             op = "status" => value \in {"active", "inactive"},
             AdminRequest(r, b, u, op, value)
      PROVE  AccountInv'
  <2> DEFINE q == [NoRequest EXCEPT !.pc = "checked", !.op = op, !.browser = b, !.user = u,
                     !.actor = access[b].user, !.version = rows[u].version, !.value = value]
  <2>1. /\ Ask(r, q) /\ access[b].role = "admin"
        /\ NotOneself(access[b].user, u, op, value)
    BY <1>5 DEF AdminRequest, require_admin
  <2>2. access[b].user \in Users BY <1>0, <2>1 DEF Named
  <2>3. q \in AllRequests BY <1>b, <2>2 DEF NoRequest, AllRequests, NoToken, Roles
  <2>4. Asked(q) BY <1>5, <1>a, <2>1, <2>2 DEF NoRequest, Asked, NoToken
  <2> HIDE DEF q
  <2> QED BY <2>1, <2>3, <2>4, AskStep
<1>6. CASE AdminRequests(r, b, u)
  BY <1>5, <1>6 DEF AdminRequests, Roles
<1> QED BY <1>1, <1>6

(* The statements that are run.                                             *)
LEMMA StoredStep ==
  ASSUME AccountInv, NEW r \in Requests,
         \/ LoginStored(r) \/ RefreshStored(r) \/ LogoutStored(r) \/ AdminStored(r)
         \/ SetupStored(r)
  PROVE  AccountInv'
<1> DEFINE q == reqs[r]
           u == q.user
           n == Len(issued) + 1
<1> USE DEF AccountInv
<1>a. q \in AllRequests /\ Asked(q) BY DEF AccountTypes
<1>b. issued \o <<>> = issued BY IssueNone DEF AccountTypes
<1>c. n \in Nat BY DEF AccountTypes
<1>d. q.pc # "idle" => u \in Users /\ rows[u] \in Rows /\ rows[u].ended \in Nat /\ rows[u].hash \in Nat
  BY <1>a DEF Asked, AccountTypes, Rows
<1>e. NoRequest \in AllRequests /\ Asked(NoRequest) BY NoRequestAsked
<1> HIDE DEF q, n
<1>1. CASE LoginStored(r)
  <2> DEFINE t == issue_refresh_token(u, NoToken, q.ended, q.ended # rows[u].ended)
             new == [q EXCEPT !.pc = "answer", !.token = n]
  <2>1. /\ q.pc = "verified" /\ UNCHANGED <<initialised, usurped>>
        /\ Commit(r, [rows EXCEPT ![u].hash = n], <<t>>, new)
    BY <1>1 DEF LoginStored, q, n
  <2>2. u \in Users /\ rows[u].ended \in Nat /\ q.ended \in Nat /\ q.browser \in Browsers
    BY <1>a, <1>d, <2>1 DEF AllRequests, Asked
  <2>3. t \in RefreshTokens /\ t.user = u /\ (t.ended = rows[u].ended \/ t.late) /\ t.parent = NoToken
    BY <2>2 DEF issue_refresh_token, RefreshTokens, NoToken
  <2>4. /\ new \in AllRequests /\ new.pc = "answer" /\ new.user \in Users /\ new.browser \in Browsers
        /\ new.token = n
    BY <1>a, <1>c, <2>2 DEF AllRequests
  <2> HIDE DEF t, new
  <2> QED BY <2>1, <2>2, <2>3, <2>4, TokenStored DEF n
<1>2. CASE RefreshStored(r)
  <2>1. CASE Refuse(r) BY <2>1, RefuseStep
  <2>2. CASE ~Refuse(r)
    <3> DEFINE old == issued[q.token]
               t == issue_refresh_token(u, q.token, old.ended, old.late)
               new == [q EXCEPT !.pc = "answer", !.token = n]
    <3>1. /\ q.pc = "verified" /\ q.op = "refresh" /\ UNCHANGED <<initialised, usurped>>
          /\ Rotates(q) /\ Commit(r, [rows EXCEPT ![u].hash = n], <<t>>, new)
      BY <1>2, <2>2 DEF RefreshStored, q, n
    <3>2. /\ u \in Users /\ q.token \in Nat /\ q.token # NoToken /\ q.token <= Len(issued)
          /\ q.browser \in Browsers /\ rows[u].hash = q.token
      BY <1>a, <1>d, <3>1 DEF AllRequests, Asked, Rotates
    <3>3. q.token \in 1..Len(issued) BY <3>2 DEF NoToken, AccountTypes
    <3>4. old \in RefreshTokens /\ (old.ended = rows[u].ended \/ old.late)
      BY <3>2, <3>3 DEF AccountTypes, SessionsEnd
    <3>5. t \in RefreshTokens /\ t.user = u /\ (t.ended = rows[u].ended \/ t.late)
          /\ t.parent = rows[u].hash
      BY <3>2, <3>4 DEF issue_refresh_token, RefreshTokens
    <3>6. /\ new \in AllRequests /\ new.pc = "answer" /\ new.user \in Users /\ new.browser \in Browsers
          /\ new.token = n
      BY <1>a, <1>c, <3>2 DEF AllRequests
    <3> HIDE DEF t, new
    <3> QED BY <3>1, <3>2, <3>5, <3>6, TokenStored DEF n
  <2> QED BY <2>1, <2>2
<1>3. CASE LogoutStored(r)
  <2> DEFINE cleared == IF rows[u].hash = q.token THEN NoToken ELSE rows[u].hash
             row == [rows[u] EXCEPT !.hash = cleared]
             new == [q EXCEPT !.pc = "answer", !.token = NoToken]
  <2>1. /\ q.pc = "verified" /\ UNCHANGED <<initialised, usurped>>
        /\ Commit(r, [rows EXCEPT ![u].hash = cleared], <<>>, new)
    BY <1>3 DEF LogoutStored, q
  <2>2. u \in Users /\ rows[u] \in Rows /\ rows[u].hash \in Nat /\ q.browser \in Browsers
    BY <1>a, <1>d, <2>1 DEF Asked
  <2>3. cleared \in Nat /\ (cleared = NoToken \/ cleared = rows[u].hash)
    BY <2>2 DEF NoToken
  <2> HIDE DEF cleared
  <2>4. /\ row \in Rows /\ row.hash = cleared /\ row.ended = rows[u].ended
        /\ row.status = rows[u].status /\ row.role = rows[u].role
    BY <2>2, <2>3, HashSet
  <2>5. new \in AllRequests BY <1>a, <1>c DEF AllRequests, NoToken
  <2>6. Asked(new)
    <3>1. new.pc = "answer" /\ new.token = NoToken /\ new.user = u /\ new.browser = q.browser
      BY <1>a DEF AllRequests
    <3>2. 0 <= Len(issued) BY DEF AccountTypes
    <3> HIDE DEF new
    <3> QED BY <2>2, <3>1, <3>2 DEF Asked, NoToken
  <2>7. /\ rows' = [rows EXCEPT ![u] = row] /\ issued' = issued /\ reqs' = [reqs EXCEPT ![r] = new]
        /\ UNCHANGED <<jar, access, asked>>
    BY <1>b, <2>1, <2>2 DEF Commit, AccountTypes
  <2> HIDE DEF row, new
  <2>8. Staffed'
    <3>1. \A x \in Users : rows'[x].status = rows[x].status /\ rows'[x].role = rows[x].role
      BY <2>4, <2>7 DEF AccountTypes
    <3>2. (Empty' <=> Empty) /\ (\A x \in Users : StillAdmin(x)' <=> StillAdmin(x))
      BY <3>1 DEF Empty, StillAdmin
    <3> QED BY <2>1, <3>2 DEF Staffed
  <2>9. initialised' \in Nat /\ usurped' \in BOOLEAN BY <2>1 DEF AccountTypes
  <2> QED BY <2>2, <2>3, <2>4, <2>5, <2>6, <2>7, <2>8, <2>9, RowStored
<1>4. CASE AdminStored(r)
  <2>1. CASE Refuse(r) BY <2>1, RefuseStep
  <2>2. CASE ~Refuse(r)
    <3> DEFINE new == IF q.op = "create" THEN NewRow(q.value) ELSE Changed(rows[u], q)
    <3>1. /\ q.pc = "checked" /\ (q.op = "create" <=> rows[u].status = "absent")
          /\ Commit(r, [rows EXCEPT ![u] = new], <<>>, NoRequest)
          /\ usurped' = (usurped \/ ~StillAdmin(q.actor)) /\ UNCHANGED initialised
      BY <1>4, <2>2 DEF AdminStored, q
    <3>2. /\ u \in Users /\ rows[u] \in Rows /\ q.actor \in Users
          /\ NotOneself(q.actor, u, q.op, q.value)
          /\ q.op \in {"delete", "create", "role", "status", "password"}
          /\ (q.op \in {"create", "role"} => q.value \in Roles)
          /\ (q.op = "status" => q.value \in {"active", "inactive"})
      BY <1>a, <1>d, <3>1 DEF Asked
    <3>3. /\ new \in Rows
          /\ new.hash = NoToken \/ (new.hash = rows[u].hash /\ new.ended = rows[u].ended)
          /\ new.status = CASE q.op = "create" -> "active"
                            [] q.op = "status" -> q.value
                            [] q.op = "delete" -> "inactive"
                            [] OTHER -> rows[u].status
          /\ q.op \notin {"create", "role"} => new.role = rows[u].role
      <4>1. CASE q.op = "create" BY <3>2, <4>1, NewRowFacts
      <4>2. CASE q.op # "create" BY <1>a, <3>2, <4>2, ChangedFacts
      <4> QED BY <4>1, <4>2
    <3> HIDE DEF new
    <3>4. /\ rows' = [rows EXCEPT ![u] = new] /\ issued' = issued
          /\ reqs' = [reqs EXCEPT ![r] = NoRequest] /\ UNCHANGED <<jar, access, asked>>
      BY <1>b, <3>1 DEF Commit
    <3>5. \A x \in Users : rows'[x] = IF x = u THEN new ELSE rows[x] BY <3>4 DEF AccountTypes
    <3>6. new.status # "absent" BY <3>1, <3>2, <3>3
    <3>7. ~Empty' BY <3>2, <3>5, <3>6 DEF Empty
    <3>8. StillAdmin(q.actor) => \E x \in Users : rows'[x].status = "active" /\ rows'[x].role = "admin"
      <4> SUFFICES ASSUME NEW a \in Users, a = q.actor,
                          rows[a].status = "active", rows[a].role = "admin"
                   PROVE  rows'[a].status = "active" /\ rows'[a].role = "admin"
        BY <3>2 DEF StillAdmin
      <4>1. CASE a = u
        <5>1. q.op \in {"status", "password"} /\ q.value # "inactive"
          BY <3>1, <3>2, <4>1 DEF NotOneself
        <5> QED BY <3>2, <3>3, <3>5, <4>1, <5>1
      <4>2. CASE a # u BY <3>2, <3>5, <4>2
      <4> QED BY <4>1, <4>2
    <3>9. usurped' \in BOOLEAN /\ initialised' \in Nat BY <3>1 DEF AccountTypes
    <3>10. Staffed'
      <4>1. ~usurped' => \E x \in Users : StillAdmin(x)'
        BY <3>1, <3>8 DEF StillAdmin
      <4> QED BY <3>1, <3>7, <4>1 DEF Staffed
    <3> QED BY <1>e, <3>2, <3>3, <3>4, <3>9, <3>10, RowStored
  <2> QED BY <2>1, <2>2
<1>5. CASE SetupStored(r)
  <2>1. CASE Refuse(r) BY <2>1, RefuseStep
  <2>2. CASE ~Refuse(r)
    <3>1. /\ q.pc = "hashed" /\ Empty /\ Commit(r, [rows EXCEPT ![u] = NewRow("admin")], <<>>, NoRequest)
          /\ initialised' = initialised + 1 /\ UNCHANGED usurped
      BY <1>5, <2>2 DEF SetupStored, StillEmpty, q
    <3>2. u \in Users BY <1>d, <3>1
    <3>3. /\ NewRow("admin") \in Rows /\ NewRow("admin").hash = NoToken
          /\ NewRow("admin").status = "active" /\ NewRow("admin").role = "admin"
      BY NewRowFacts DEF Roles
    <3>4. /\ rows' = [rows EXCEPT ![u] = NewRow("admin")] /\ issued' = issued
          /\ reqs' = [reqs EXCEPT ![r] = NoRequest] /\ UNCHANGED <<jar, access, asked>>
      BY <1>b, <3>1 DEF Commit
    <3>5. rows'[u] = NewRow("admin") BY <3>2, <3>4 DEF AccountTypes
    <3>6. initialised = 0 /\ initialised' = 1 BY <3>1 DEF Staffed, AccountTypes
    <3>7. ~Empty'
      <4>1. rows'[u].status = "active" /\ rows'[u].role = "admin" BY <3>3, <3>5
      <4>2. ~Empty' BY <3>2, <4>1 DEF Empty
      <4> QED BY <4>2
    <3>8. Staffed'
      <4>1. \E x \in Users : StillAdmin(x)'
        BY <3>2, <3>3, <3>5 DEF StillAdmin
      <4> QED BY <3>6, <3>7, <4>1 DEF Staffed
    <3>9. usurped' \in BOOLEAN /\ initialised' \in Nat BY <3>1, <3>6 DEF AccountTypes
    <3> QED BY <1>e, <3>2, <3>3, <3>4, <3>8, <3>9, RowStored
  <2> QED BY <2>1, <2>2
<1> QED BY <1>1, <1>2, <1>3, <1>4, <1>5

-----------------------------------------------------------------------------
(* The invariant.                                                           *)

(* Boot finds nothing in memory and, at most, a token for its own hardware. *)
LEMMA LicenceInitially == LicenceInit => LicenceInv
<1> SUFFICES ASSUME LicenceInit PROVE LicenceInv OBVIOUS
<1>1. machine \in Machines /\ file \in {NoFile, Token(machine, FALSE)} BY DEF LicenceInit
<1>2. file \in Tokens \cup {NoFile} BY <1>1, TokenFacts
<1>3. activation \in [Activations -> Exchanges] /\ \A a \in Activations : activation[a].pc = "idle"
  BY IdleExchange DEF LicenceInit
<1>4. renewal \in Exchanges /\ renewal.pc = "idle" BY IdleExchange DEF LicenceInit
<1>5. LicenceTypes BY <1>1, <1>2, <1>3, <1>4 DEF LicenceInit, LicenceTypes
<1>6. LicenceIsProven BY DEF LicenceInit, LicenceIsProven, Licensed
<1> QED BY <1>3, <1>4, <1>5, <1>6 DEF LicenceInv, Sound

(* The rows a new database, or one with its administrators, begins with.    *)
LEMMA FirstRows ==
  /\ NoRow \in Rows /\ NoRow.hash = NoToken /\ NoRow.status = "absent"
  /\ NewRow("admin") \in Rows /\ NewRow("admin").hash = NoToken
  /\ NewRow("admin").status = "active" /\ NewRow("admin").role = "admin"
<1>1. NoRow \in Rows /\ NoRow.hash = NoToken /\ NoRow.status = "absent"
  BY DEF NoRow, Rows, NoToken, Roles
<1> QED BY <1>1, NewRowFacts DEF Roles

(* The accounts of a new installation, and of a staffed one.                *)
LEMMA AccountsInitially == Init => AccountInv
<1> SUFFICES ASSUME Init PROVE AccountInv OBVIOUS
<1> DEFINE first == IF budget.staffed THEN NewRow("admin") ELSE NoRow
<1>1. first \in Rows /\ first.hash = NoToken
      /\ (first.status # "absent" => first.status = "active" /\ first.role = "admin")
  BY FirstRows
<1>2. rows = [u \in Users |-> first] BY DEF Init
<1> HIDE DEF first
<1>3. /\ issued = <<>> /\ jar = [b \in Browsers |-> NoToken]
      /\ reqs = [r \in Requests |-> NoRequest]
      /\ asked = 0 /\ initialised = 0 /\ usurped = FALSE
  BY DEF Init
<1>4. access \in [Browsers -> Claims]
      /\ \A b \in Browsers : access[b].role = "admin" => access[b].user \in Users
  <2>1. CASE budget.staffed
    <3>1. PICK f \in [Browsers -> Users] : access = [b \in Browsers |-> [user |-> f[b], role |-> "admin"]]
      BY <2>1 DEF Init
    <3> QED BY <3>1 DEF Claims, Roles
  <2>2. CASE ~budget.staffed
    <3>1. access = [b \in Browsers |-> NoClaims] BY <2>2 DEF Init
    <3> QED BY <3>1 DEF Claims, NoClaims, Roles
  <2> QED BY <2>1, <2>2
<1>5. NoRequest \in AllRequests BY DEF NoRequest, AllRequests, NoToken, Roles
<1>6. issued \in Seq(RefreshTokens) /\ Len(issued) = 0 BY <1>3
<1>7. AccountTypes BY <1>1, <1>2, <1>3, <1>4, <1>5, <1>6 DEF AccountTypes, NoToken
<1>8. \A r \in Requests : Asked(reqs[r]) BY <1>3, <1>7, NoRequestAsked
<1>9. Named BY <1>3, <1>4, <1>6 DEF Named, NoToken
<1>10. \A u \in Users : rows[u].hash = NoToken BY <1>1, <1>2
<1>11. Newest /\ RotatedOnce /\ SessionsEnd
  BY <1>3, <1>6, <1>10 DEF Newest, RotatedOnce, SessionsEnd, NoToken
<1>12. Staffed
  <2>1. ~Empty => \E u \in Users : StillAdmin(u)
    BY <1>1, <1>2 DEF Empty, StillAdmin
  <2> QED BY <1>3, <2>1 DEF Staffed
<1> QED BY <1>7, <1>8, <1>9, <1>11, <1>12 DEF AccountInv

(* A crash takes the requests and nothing else.                             *)
LEMMA AccountsCrash ==
  ASSUME AccountInv, ProcessCrash
  PROVE  AccountInv'
<1>1. /\ UNCHANGED <<rows, issued, jar, access, asked, initialised, usurped>>
      /\ reqs' = [r \in Requests |-> NoRequest]
  BY DEF ProcessCrash
<1>2. reqs' \in [Requests -> AllRequests] /\ \A x \in Requests : Asked(reqs'[x])
  BY <1>1, NoRequestAsked DEF AccountInv
<1>3. jar' \in [Browsers -> Nat] /\ access' \in [Browsers -> Claims] /\ asked' \in Nat
  BY <1>1 DEF AccountInv, AccountTypes
<1> QED BY <1>1, <1>2, <1>3, RequestStep DEF AccountInv, Named

(* Every step of the system keeps the invariant.                            *)
LEMMA AccountsStep ==
  ASSUME AccountsInv, [Next]_vars
  PROVE  AccountsInv'
<1> USE DEF AccountsInv
<1>1. CASE LicenceNext /\ UNCHANGED accounts
  <2>1. UNCHANGED <<rows, issued, jar, access, reqs, asked, initialised, usurped>>
    BY <1>1 DEF accounts
  <2> QED BY <1>1, <2>1, LicenceStep, RequestStep DEF AccountInv, AccountTypes, Named
<1>2. CASE ProcessCrash
  <2>1. Crash BY <1>2 DEF ProcessCrash
  <2> QED BY <1>2, <2>1, LicenceStep, AccountsCrash
<1>3. ASSUME NEW r \in Requests,
             \/ Answer(r)
             \/ LoginStored(r) \/ RefreshStored(r) \/ LogoutStored(r) \/ AdminStored(r)
             \/ SetupStored(r)
      PROVE  AccountsInv'
  <2>1. UNCHANGED <<budget, licence>>
    BY <1>3 DEF Answer, LoginStored, RefreshStored, LogoutStored, AdminStored, SetupStored,
                Commit, Refuse
  <2> QED BY <1>3, <2>1, LicenceStep, AnswerStep, StoredStep
<1>4. ASSUME NEW r \in Requests, NEW b \in Browsers, NEW u \in Users,
             login(r, b, u) \/ AdminRequests(r, b, u)
      PROVE  AccountsInv'
  <2>1. UNCHANGED <<budget, licence>> BY <1>4 DEF login, AdminRequests, AdminRequest, Ask
  <2> QED BY <1>4, <2>1, LicenceStep, OpenStep
<1>5. ASSUME NEW r \in Requests, NEW b \in Browsers, refresh(r, b) \/ logout(r, b)
      PROVE  AccountsInv'
  <2>1. UNCHANGED <<budget, licence>> BY <1>5 DEF refresh, logout, Ask
  <2> QED BY <1>5, <2>1, LicenceStep, SessionStep
<1>6. ASSUME NEW r \in Requests, NEW u \in Users, setup_init(r, u)
      PROVE  AccountsInv'
  <2>1. UNCHANGED <<budget, licence>> BY <1>6 DEF setup_init, Ask
  <2> QED BY <1>6, <2>1, LicenceStep, SetupStep
<1>7. ASSUME NEW b \in Browsers, Expire(b) PROVE AccountsInv'
  <2>1. UNCHANGED <<budget, licence>> BY <1>7 DEF Expire
  <2> QED BY <1>7, <2>1, LicenceStep, ExpireStep
<1>8. CASE UNCHANGED vars
  <2>1. UNCHANGED <<budget, licence>>
        /\ UNCHANGED <<rows, issued, jar, access, reqs, asked, initialised, usurped>>
    BY <1>8 DEF vars, accounts
  <2> QED BY <2>1, LicenceStep, RequestStep DEF AccountInv, AccountTypes, Named
<1> QED BY <1>1, <1>2, <1>3, <1>4, <1>5, <1>6, <1>7, <1>8 DEF Next

(* The strengthening of RotatedOnce, SessionsEnd, AdminRemains and          *)
(* LicenceIsProven holds in every behaviour of users, sessions, setup and   *)
(* licence: users/service.rs, auth/handlers.rs, setup/handlers.rs and       *)
(* license/service.rs.                                                      *)
THEOREM AccountsAreInvariant == Spec => []AccountsInv
<1>1. Init => AccountsInv BY LicenceInitially, AccountsInitially DEF Init, AccountsInv
<1>2. AccountsInv /\ [Next]_vars => AccountsInv' BY AccountsStep
<1> QED BY <1>1, <1>2, PTL DEF Spec

-----------------------------------------------------------------------------
(* What the runs check of accounts and of the licence, for any number of    *)
(* usernames, browsers, requests and machines.                              *)

(* The users table, the tokens in it and in the browsers, the claims and    *)
(* the requests, and what license/service.rs keeps on disk and in memory.   *)
LEMMA AccountsTyped == AccountsInv => TypeOK
<1> SUFFICES ASSUME AccountsInv PROVE TypeOK OBVIOUS
<1> USE DEF AccountsInv, LicenceInv, AccountInv
<1>1. LicenceTypeOK
  <2> DEFINE All == {activation[a] : a \in Activations} \cup {renewal}
  <2>1. \A r \in All : r \in Exchanges BY DEF LicenceTypes
  <2> HIDE DEF All
  <2>2. \A r \in All : /\ r.pc \in {"idle", "sent", "written", "granted"}
                       /\ r.machine \in Machines \cup {"none"} /\ r.token \in Tokens \cup {NoFile}
    BY <2>1 DEF Exchanges
  <2> QED BY <2>2 DEF LicenceTypeOK, LicenceTypes, All
<1>2. Len(issued) \in Nat /\ DOMAIN issued = 1..Len(issued) BY DEF AccountTypes
<1>3. rows \in [Users -> RowType]
  <2> SUFFICES ASSUME NEW u \in Users PROVE rows[u] \in RowType
    BY DEF AccountTypes
  <2>1. rows[u] \in Rows /\ rows[u].hash <= Len(issued) BY DEF AccountTypes, Newest
  <2> QED BY <1>2, <2>1 DEF Rows, RowType
<1>4. ASSUME NEW i \in DOMAIN issued PROVE issued[i].user \in Users /\ issued[i].parent \in 0..(i - 1)
  <2>1. issued[i] \in RefreshTokens /\ i \in 1..Len(issued) BY <1>2, <1>4 DEF AccountTypes
  <2>2. issued[i].parent < i BY <2>1 DEF Named
  <2> QED BY <1>2, <2>1, <2>2 DEF RefreshTokens
<1>5. jar \in [Browsers -> 0..Len(issued)] BY <1>2 DEF AccountTypes, Named
<1>6. \A b \in Browsers : access[b].user \in Users \cup {"none"} /\ access[b].role \in Roles
  BY DEF AccountTypes, Claims
<1>7. ASSUME NEW r \in Requests
      PROVE  /\ reqs[r].pc \in {"idle", "verified", "checked", "hashed", "answer"}
             /\ reqs[r].user \in Users \cup {"none"} /\ reqs[r].token \in 0..Len(issued)
  <2>1. reqs[r] \in AllRequests /\ reqs[r].token <= Len(issued) BY <1>7 DEF AccountTypes, Asked
  <2> QED BY <1>2, <2>1 DEF AllRequests
<1> QED BY <1>1, <1>3, <1>4, <1>5, <1>6, <1>7 DEF TypeOK, AccountTypes

(* No handler leaves a row, a token, a cookie, a claim or a request that    *)
(* names what does not exist.                                               *)
THEOREM AccountsTypes == Spec => []TypeOK
BY AccountsAreInvariant, AccountsTyped, PTL

(* A refresh token is exchanged at most once (auth/handlers.rs, refresh):   *)
(* the compare-and-set of the UPDATE makes the stored hash the only token   *)
(* that can still be exchanged, and it is never a parent.                   *)
THEOREM RotatedOnceHolds == Spec => []RotatedOnce
<1>1. AccountsInv => RotatedOnce BY DEF AccountsInv, AccountInv
<1> QED BY <1>1, AccountsAreInvariant, PTL

(* A session that can be continued is younger than the last password change *)
(* and the last DELETE of its account (users/service.rs).                   *)
THEOREM SessionsEndHolds == Spec => []SessionsEnd
<1>1. AccountsInv => SessionsEnd BY DEF AccountsInv, AccountInv
<1> QED BY <1>1, AccountsAreInvariant, PTL

(* setup_init creates one account, and an active administrator remains as   *)
(* long as those who change accounts are administrators when they do.       *)
THEOREM AdminRemainsHolds == Spec => []AdminRemains
<1>1. AccountsInv => AdminRemains
  BY AccountsTyped DEF AccountsInv, AccountInv, Staffed, AdminRemains, StillAdmin
<1> QED BY <1>1, AccountsAreInvariant, PTL

(* Licensed means proven on this hardware, and a licence once in force is   *)
(* never lost from the disk (license/service.rs, persist_license_token).    *)
THEOREM LicenceIsProvenHolds == Spec => []LicenceIsProven
<1>1. AccountsInv => LicenceIsProven BY DEF AccountsInv, LicenceInv
<1> QED BY <1>1, AccountsAreInvariant, PTL
=============================================================================
