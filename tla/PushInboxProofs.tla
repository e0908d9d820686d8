--------------------------- MODULE PushInboxProofs ---------------------------
(***************************************************************************)
(* Proofs about the push inbox, for any pushes, parts, people, buckets,    *)
(* batch size, number of attempts and faults.                              *)
(***************************************************************************)
EXTENDS PushInbox, FiniteSetTheorems, TLAPS

-----------------------------------------------------------------------------
(* The inductive invariant.                                                *)

(* The only waiting caller is the handler's; its push is the reader's head. *)
Waits(c) == c.op = "store" /\ c.caller = "handler"
Delivery ==
  /\ \A b \in 1..(head - 1) : \E r \in DOMAIN inbox : inbox[r].body = b
  /\ handler = "stored" => \E r \in DOMAIN inbox : inbox[r].body = head
  /\ handler # "idle" => head <= Len(Bodies)
  /\ \A i \in DOMAIN wq : Waits(wq[i]) => handler = "waiting" /\ wq[i].body = head
  /\ \A i, j \in DOMAIN wq : Waits(wq[i]) /\ Waits(wq[j]) => i = j

(* A row may be given this status: what AckedIsSafe says of it.             *)
Justified(r, status, attempts) ==
  /\ status = "pending" => attempts < MaxAttempts
  /\ status = "done" => Ingested(r)
  /\ status = "failed" =>
       \/ attempts = MaxAttempts
       \/ Range(Bodies[inbox[r].body]) \cap Unparseable # {} /\ Ingested(r)
Rows == \A r \in DOMAIN inbox : Justified(r, inbox[r].status, inbox[r].attempts)

(* The worker resolves the rows that are still pending, and has ingested    *)
(* the parts before the cursor unless it has seen an error.                 *)
Covered(p) == \E e \in events : Covers(e, p)
Progress ==
  /\ \A r \in batch : inbox[r].status = "pending"
  /\ drain \in {"part", "persist"} =>
       /\ cursor \in 1..(Len(RowParts) + 1)
       /\ drain = "persist" => cursor <= Len(RowParts)
       /\ ~transient =>
            \A p \in Markings : (\E k \in 1..(cursor - 1) : RowParts[k] = p) => Covered(p)
       /\ permanent => Range(RowParts) \cap Unparseable # {}

(* The command of the worker, of which there is at most one.                *)
OwnEvent(e) ==
  /\ drain = "persist" /\ e.row = row
  /\ e.part = RowParts[cursor] /\ e.part \in Markings
  /\ e.bucket \in Buckets[e.part] /\ e.who \in {Person[e.part], Nobody}
OwnMark(c) == drain = "mark" /\ c.row = row /\ Justified(row, c.status, c.attempts)
Commanded ==
  /\ \A c \in Range(wq) :
       /\ c.op = "event" => OwnEvent(c.event)
       /\ c.op = "mark" => OwnMark(c)
  /\ \A i, j \in DOMAIN wq : wq[i].op # "store" /\ wq[j].op # "store" => i = j

(* An event has its own identity, and the photo of that name if it has one. *)
Pictured(e) == e.id < nextId /\ (e.id \in files <=> e.part \in WithPhoto)
Photos ==
  /\ \A f \in files : f < nextId
  /\ \A e \in events : Pictured(e)
  /\ \A e, f \in events : e.id = f.id => e = f
  /\ \A c \in Range(wq) : c.op = "event" =>
       Pictured(c.event) /\ \A e \in events : e.id # c.event.id

(* How often a marking of a row is counted.  A row that waits for another   *)
(* try has cost a fault for each time it was tried; during a try a part is  *)
(* counted when the cursor passes it, and an error has cost one more.       *)
Counted(r, p) == Cardinality(Tries(r, p))
Working == {"part", "persist", "mark"}
AtWork(r) == drain \in Working /\ r = row
Passed(p) == \E k \in 1..(cursor - 1) : RowParts[k] = p
WithinTries(r, p) ==
  /\ Counted(r, p) <= 1 + faults
  /\ inbox[r].status = "pending" /\ ~AtWork(r) => Counted(r, p) <= faults
  /\ drain \in {"part", "persist"} /\ r = row =>
       /\ transient \/ Passed(p) \/ Counted(r, p) <= faults
       /\ transient => Counted(r, p) <= faults
       /\ transient => Passed(p) \/ Counted(r, p) < faults
  /\ drain = "mark" /\ r = row =>
       \A c \in Range(wq) : c.op = "mark" /\ c.status = "pending" => Counted(r, p) <= faults
PerTry ==
  /\ IsFiniteSet(events)
  /\ \A e \in events : e.row \in DOMAIN inbox
  /\ \A r \in DOMAIN inbox, p \in Markings : WithinTries(r, p)

(* How often a push is stored or about to be.  Every copy but the last one   *)
(* has cost a fault, and the last one too once the reader is to send again. *)
Queued(q, b) == {i \in DOMAIN q : q[i].op = "store" /\ q[i].body = b}
Copies(b) == Cardinality(Stored(b)) + Cardinality(Queued(wq, b))
WithinResends(b) ==
  /\ Copies(b) <= 1 + faults
  /\ b = head /\ handler \in {"idle", "refused"} => Copies(b) <= faults
  /\ b > head => Copies(b) = 0
Resends ==
  /\ stopping => handler = "idle"
  /\ \A b \in DOMAIN Bodies : WithinResends(b)

Bounds == PerTry /\ Resends

InboxInv ==
  /\ TypeOK /\ Delivery /\ Rows /\ Progress /\ Commanded /\ Photos /\ Bounds

-----------------------------------------------------------------------------
(* Queues and rows.                                                         *)

(* What a command of each kind carries.                                     *)
LEMMA CommandKinds ==
  ASSUME NEW c \in Commands
  PROVE  /\ c.op \in {"store", "event", "mark"}
         /\ c.op = "store" => c.body \in DOMAIN Bodies /\ c.caller \in {"handler", "nobody"}
         /\ c.op = "event" => c.event \in EventRows
         /\ c.op = "mark" => c.status \in Statuses /\ c.attempts \in 0..MaxAttempts
BY DEF Commands

(* A command joins the queue, or leaves it.                                 *)
Joined(c) ==
  /\ wq' \in Seq(Commands)
  /\ Len(wq) + 1 \in DOMAIN wq' /\ Len(wq) + 1 \notin DOMAIN wq /\ wq'[Len(wq) + 1] = c
  /\ \A i \in DOMAIN wq : i \in DOMAIN wq' /\ wq'[i] = wq[i]
  /\ \A i \in DOMAIN wq' : i \in DOMAIN wq \/ i = Len(wq) + 1
  /\ Range(wq') = Range(wq) \cup {c}
Left(c) ==
  /\ wq' \in Seq(Commands)
  /\ 1 \in DOMAIN wq /\ wq[1] = c /\ c \in Commands
  /\ \A i \in DOMAIN wq' : i + 1 \in DOMAIN wq /\ i + 1 # 1 /\ wq'[i] = wq[i + 1]
  /\ \A i, j \in DOMAIN wq' : i + 1 = j + 1 => i = j
  /\ c \in Range(wq) /\ Range(wq') \subseteq Range(wq)
  /\ \A d \in Range(wq) : d = c \/ d \in Range(wq')

(* An admission appends.                                                    *)
LEMMA Admits ==
  ASSUME wq \in Seq(Commands), NEW c \in Commands, wq' = Append(wq, c)
  PROVE  Joined(c)
<1>1. Len(wq) \in Nat /\ DOMAIN wq = 1..Len(wq) OBVIOUS
<1>2. wq' \in Seq(Commands) /\ Len(wq') = Len(wq) + 1 OBVIOUS
<1>3. DOMAIN wq' = 1..(Len(wq) + 1) BY <1>2
<1>4. wq'[Len(wq) + 1] = c /\ \A i \in 1..Len(wq) : wq'[i] = wq[i] OBVIOUS
<1>5. Range(wq') = Range(wq) \cup {c} BY <1>1, <1>3, <1>4 DEF Range
<1> QED BY <1>1, <1>2, <1>3, <1>4, <1>5 DEF Joined

(* The writer takes the head.                                               *)
LEMMA Takes ==
  ASSUME wq \in Seq(Commands), NEW op, Executing(op)
  PROVE  Left(Head(wq)) /\ Head(wq).op = op
<1>1. wq # <<>> /\ wq' = Tail(wq) /\ Head(wq).op = op BY DEF Executing
<1>2. Len(wq) \in Nat /\ Len(wq) >= 1 /\ DOMAIN wq = 1..Len(wq) BY <1>1
<1>3. wq' \in Seq(Commands) /\ Len(wq') = Len(wq) - 1 BY <1>1
<1>4. DOMAIN wq' = 1..(Len(wq) - 1) BY <1>3
<1>5. Head(wq) = wq[1] /\ Head(wq) \in Commands BY <1>1, <1>2
<1>6. \A i \in 1..(Len(wq) - 1) : wq'[i] = wq[i + 1] BY <1>1, <1>2
<1>7. \A i \in DOMAIN wq' : i + 1 \in DOMAIN wq /\ i + 1 # 1 /\ wq'[i] = wq[i + 1]
  BY <1>2, <1>4, <1>6
<1>8. ASSUME NEW i \in DOMAIN wq, i # 1 PROVE \E j \in DOMAIN wq' : wq'[j] = wq[i]
  <2>1. i - 1 \in 1..(Len(wq) - 1) /\ (i - 1) + 1 = i BY <1>2, <1>8
  <2>2. wq'[i - 1] = wq[i] BY <1>6, <2>1
  <2> QED BY <1>4, <2>1, <2>2
<1>9. \A i, j \in DOMAIN wq' : i + 1 = j + 1 => i = j BY <1>4
<1>10. /\ wq[1] \in Range(wq) /\ Range(wq') \subseteq Range(wq)
       /\ \A d \in Range(wq) : d = wq[1] \/ d \in Range(wq')
  BY <1>2, <1>7, <1>8 DEF Range
<1> QED BY <1>1, <1>2, <1>3, <1>5, <1>7, <1>9, <1>10 DEF Left

(* What justified a status goes on doing so: bodies stay and events are     *)
(* only added.                                                              *)
LEMMA JustifiedKept ==
  ASSUME NEW r, NEW s, NEW a, inbox'[r].body = inbox[r].body, events \subseteq events',
         Justified(r, s, a)
  PROVE  Justified(r, s, a)'
BY DEF Justified, Ingested

-----------------------------------------------------------------------------
(* Counting rows.                                                           *)

(* The sets that are counted are finite.                                    *)
LEMMA TriesFinite ==
  ASSUME IsFiniteSet(events), NEW r, NEW p
  PROVE  IsFiniteSet(Tries(r, p)) /\ Counted(r, p) \in Nat
<1>1. Tries(r, p) \in SUBSET events BY DEF Tries
<1>2. IsFiniteSet(Tries(r, p)) BY <1>1, FS_Subset
<1> QED BY <1>2, FS_CardinalityType DEF Counted

LEMMA QueuedFinite ==
  ASSUME NEW q \in Seq(Commands), NEW b
  PROVE  IsFiniteSet(Queued(q, b)) /\ Cardinality(Queued(q, b)) \in Nat
<1>1. Len(q) \in Nat /\ DOMAIN q = 1..Len(q) OBVIOUS
<1>2. IsFiniteSet(1..Len(q)) BY <1>1, FS_Interval
<1>3. Queued(q, b) \in SUBSET (1..Len(q)) BY <1>1 DEF Queued
<1>4. IsFiniteSet(Queued(q, b)) BY <1>2, <1>3, FS_Subset
<1> QED BY <1>4, FS_CardinalityType

StoredIn(i, b) == {r \in DOMAIN i : i[r].body = b}
LEMMA StoredFinite ==
  ASSUME NEW i \in Seq(InboxRows), NEW b
  PROVE  IsFiniteSet(StoredIn(i, b)) /\ Cardinality(StoredIn(i, b)) \in Nat
<1>1. Len(i) \in Nat /\ DOMAIN i = 1..Len(i) OBVIOUS
<1>2. IsFiniteSet(1..Len(i)) BY <1>1, FS_Interval
<1>3. StoredIn(i, b) \in SUBSET (1..Len(i)) BY <1>1 DEF StoredIn
<1>4. IsFiniteSet(StoredIn(i, b)) BY <1>2, <1>3, FS_Subset
<1> QED BY <1>4, FS_CardinalityType

LEMMA CopiesType ==
  ASSUME wq \in Seq(Commands), inbox \in Seq(InboxRows), NEW b
  PROVE  Copies(b) \in Nat
<1>1. Stored(b) = StoredIn(inbox, b) BY DEF Stored, StoredIn
<1>2. Cardinality(Stored(b)) \in Nat /\ Cardinality(Queued(wq, b)) \in Nat
  BY <1>1, QueuedFinite, StoredFinite
<1> QED BY <1>2 DEF Copies

LEMMA NewCopiesType ==
  ASSUME wq' \in Seq(Commands), inbox' \in Seq(InboxRows), NEW b
  PROVE  Copies(b)' \in Nat
<1>1. Stored(b)' = StoredIn(inbox', b) BY DEF Stored, StoredIn
<1>2. Cardinality(Stored(b)') \in Nat /\ Cardinality(Queued(wq', b)) \in Nat
  BY <1>1, QueuedFinite, StoredFinite
<1> QED BY <1>2 DEF Copies

(* A command that leaves the queue takes its place with it.                 *)
LEMMA LeftQueued ==
  ASSUME wq \in Seq(Commands), NEW c, Left(c), NEW b
  PROVE  /\ Cardinality(Queued(wq', b)) <= Cardinality(Queued(wq, b))
         /\ c.op = "store" /\ c.body = b =>
              Cardinality(Queued(wq', b)) + 1 <= Cardinality(Queued(wq, b))
<1> DEFINE S == Queued(wq', b)
           T == Queued(wq, b) \ {1}
           f == [i \in S |-> i + 1]
<1>1. IsFiniteSet(Queued(wq, b)) /\ Cardinality(Queued(wq, b)) \in Nat BY QueuedFinite
<1>2. /\ IsFiniteSet(T)
      /\ Cardinality(T) = IF 1 \in Queued(wq, b) THEN Cardinality(Queued(wq, b)) - 1
                                                  ELSE Cardinality(Queued(wq, b))
  BY <1>1, FS_RemoveElement
<1>3. \A i \in S : i + 1 \in T BY DEF Left, Queued
<1>4. f \in [S -> T] BY <1>3
<1>5. \A i, j \in S : f[i] = f[j] => i = j BY DEF Left, Queued
<1>6. f \in Injection(S, T) BY <1>4, <1>5 DEF Injection, IsInjective
<1>7. Cardinality(S) <= Cardinality(T) BY <1>2, <1>6, FS_Injection
<1>8. Cardinality(S) \in Nat BY QueuedFinite DEF Left
<1>9. c.op = "store" /\ c.body = b => 1 \in Queued(wq, b) BY DEF Left, Queued
<1> QED BY <1>1, <1>2, <1>7, <1>8, <1>9

(* A command that joins it is one more.                                     *)
LEMMA JoinedQueued ==
  ASSUME wq \in Seq(Commands), NEW c, Joined(c), NEW b
  PROVE  /\ Cardinality(Queued(wq', b)) <= Cardinality(Queued(wq, b)) + 1
         /\ ~(c.op = "store" /\ c.body = b) =>
              Cardinality(Queued(wq', b)) = Cardinality(Queued(wq, b))
<1>1. IsFiniteSet(Queued(wq, b)) /\ Cardinality(Queued(wq, b)) \in Nat BY QueuedFinite
<1>2. CASE c.op = "store" /\ c.body = b
  <2>1. Queued(wq', b) = Queued(wq, b) \cup {Len(wq) + 1} BY <1>2 DEF Queued, Joined
  <2>2. Cardinality(Queued(wq', b))
          \in {Cardinality(Queued(wq, b)), Cardinality(Queued(wq, b)) + 1}
    BY <1>1, <2>1, FS_AddElement
  <2> QED BY <1>1, <1>2, <2>2
<1>3. CASE ~(c.op = "store" /\ c.body = b)
  <2>1. Queued(wq', b) = Queued(wq, b) BY <1>3 DEF Queued, Joined
  <2> QED BY <1>1, <1>3, <2>1
<1> QED BY <1>2, <1>3

(* What a step that counts nothing and resolves nothing leaves in bounds.   *)
LEMMA PerTryKept ==
  ASSUME InboxInv, UNCHANGED <<events, inbox, row, cursor, transient>>,
         faults' \in Nat, faults <= faults',
         drain' = drain \/ (drain \notin Working /\ drain' \notin Working),
         \A c \in Range(wq') : c.op = "mark" => c \in Range(wq)
  PROVE  PerTry'
<1>1. PerTry /\ IsFiniteSet(events) /\ faults \in Nat
  BY DEF InboxInv, Bounds, PerTry, TypeOK
<1>2. \A r, p : Counted(r, p)' = Counted(r, p) /\ Counted(r, p) \in Nat
  BY <1>1, TriesFinite DEF Counted, Tries
<1>3. \A p : Passed(p)' = Passed(p) BY DEF Passed, RowParts
<1>4. \A r : AtWork(r)' = AtWork(r) BY DEF AtWork
<1>5. ASSUME NEW r \in DOMAIN inbox, NEW p \in Markings PROVE WithinTries(r, p)'
  <2>1. WithinTries(r, p) BY <1>1 DEF PerTry
  <2>2. PICK n \in Nat : n = Counted(r, p) /\ n = Counted(r, p)' BY <1>2
  <2>3. drain' \in {"part", "persist"} => drain \in {"part", "persist"} BY DEF Working
  <2>4. drain' = "mark" => drain = "mark" BY DEF Working
  <2> QED BY <1>1, <1>3, <1>4, <2>1, <2>2, <2>3, <2>4 DEF WithinTries
<1> QED BY <1>1, <1>5 DEF PerTry

(* What a step that sends nothing leaves in bounds, unless it frees the     *)
(* reader to send again.                                                    *)
LEMMA ResendsKept ==
  ASSUME InboxInv, head' = head, faults' \in Nat, faults <= faults',
         handler' \in {"idle", "refused"} =>
           handler \in {"idle", "refused"} \/ faults < faults',
         stopping' => handler' = "idle",
         \A b \in DOMAIN Bodies : Copies(b)' \in Nat /\ Copies(b)' <= Copies(b)
  PROVE  Resends'
<1>1. TypeOK /\ Resends /\ faults \in Nat BY DEF InboxInv, Bounds, TypeOK
<1>2. ASSUME NEW b \in DOMAIN Bodies PROVE WithinResends(b)'
  <2>1. WithinResends(b) BY <1>1 DEF Resends
  <2>2. Copies(b) \in Nat BY <1>1, CopiesType DEF TypeOK
  <2>3. PICK n \in Nat, m \in Nat : n = Copies(b) /\ m = Copies(b)' /\ m <= n BY <2>2
  <2> QED BY <1>1, <2>1, <2>3 DEF WithinResends
<1> QED BY <1>2 DEF Resends

(* Rows and queue as they were, or a command of the worker more or less.    *)
LEMMA SameCopies ==
  ASSUME TypeOK, \A b : Stored(b)' = Stored(b),
         \/ wq' = wq
         \/ \E c : (c.op # "store" /\ Joined(c)) \/ Left(c)
         \/ wq' \in Seq(Commands) /\ \A b : Queued(wq', b) \subseteq Queued(wq, b)
  PROVE  \A b \in DOMAIN Bodies : Copies(b)' \in Nat /\ Copies(b)' <= Copies(b)
<1>1. wq \in Seq(Commands) /\ inbox \in Seq(InboxRows) BY DEF TypeOK
<1>2. SUFFICES ASSUME NEW b PROVE Copies(b)' \in Nat /\ Copies(b)' <= Copies(b) OBVIOUS
<1>3. /\ Cardinality(Queued(wq, b)) \in Nat /\ IsFiniteSet(Queued(wq, b))
      /\ Cardinality(Stored(b)) \in Nat
  BY <1>1, QueuedFinite, StoredFinite DEF Stored, StoredIn
<1>4. /\ Cardinality(Queued(wq', b)) \in Nat
      /\ Cardinality(Queued(wq', b)) <= Cardinality(Queued(wq, b))
  <2>1. CASE wq' = wq BY <1>3, <2>1
  <2>2. CASE \E c : c.op # "store" /\ Joined(c)
    <3>1. PICK c : c.op # "store" /\ Joined(c) BY <2>2
    <3>2. Cardinality(Queued(wq', b)) = Cardinality(Queued(wq, b)) BY <1>1, <3>1, JoinedQueued
    <3> QED BY <1>3, <3>2
  <2>3. CASE \E c : Left(c)
    <3>1. PICK c : Left(c) BY <2>3
    <3>2. Cardinality(Queued(wq', b)) <= Cardinality(Queued(wq, b)) BY <1>1, <3>1, LeftQueued
    <3>3. Cardinality(Queued(wq', b)) \in Nat BY <3>1, QueuedFinite DEF Left
    <3> QED BY <3>2, <3>3
  <2>4. CASE wq' \in Seq(Commands) /\ \A x : Queued(wq', x) \subseteq Queued(wq, x)
    <3>1. Queued(wq', b) \in SUBSET Queued(wq, b) BY <2>4
    <3> QED BY <1>3, <2>4, <3>1, QueuedFinite, FS_Subset
  <2> QED BY <2>1, <2>2, <2>3, <2>4
<1> QED BY <1>3, <1>4 DEF Copies

(* A step that counts, resolves and sends nothing.                          *)
LEMMA BoundsKept ==
  ASSUME InboxInv, UNCHANGED <<events, inbox, head, row, cursor, transient>>,
         faults' \in Nat, faults <= faults',
         drain' = drain \/ (drain \notin Working /\ drain' \notin Working),
         wq' = wq \/ \E c : Left(c),
         handler' = handler \/ handler = "refused" \/ faults < faults',
         stopping' => handler' = "idle"
  PROVE  Bounds'
<1>1. \A b : Stored(b)' = Stored(b) BY DEF Stored
<1>2. TypeOK BY DEF InboxInv
<1>3. \A b \in DOMAIN Bodies : Copies(b)' \in Nat /\ Copies(b)' <= Copies(b)
  BY <1>1, <1>2, SameCopies
<1>4. \A c \in Range(wq') : c.op = "mark" => c \in Range(wq) BY DEF Left
<1>5. PerTry' BY <1>4, PerTryKept
<1>6. Resends' BY <1>3, ResendsKept
<1> QED BY <1>5, <1>6 DEF Bounds

(* A fault is counted.                                                      *)
LEMMA FaultCounts ==
  ASSUME TypeOK, Fault
  PROVE  faults \in Nat /\ faults' \in Nat /\ faults' = faults + 1
BY DEF TypeOK, Fault

-----------------------------------------------------------------------------
(* The reader and receive_push.                                             *)

(* The push of the head is admitted, and only its caller waits.             *)
LEMMA PushKeeps ==
  ASSUME InboxInv, Push
  PROVE  InboxInv'
<1> DEFINE c == [op |-> "store", body |-> head, caller |-> "handler"]
<1> USE DEF readerVars, drainVars, rowVars
<1>0. TypeOK /\ wq \in Seq(Commands) /\ inbox \in Seq(InboxRows) BY DEF InboxInv, TypeOK
<1>1. /\ handler = "idle" /\ handler' = "waiting" /\ head <= Len(Bodies)
      /\ UNCHANGED <<head, inbox, drainVars, events, files, nextId, enrolled, stopping, faults>>
  BY DEF Push
<1>2. c \in Commands BY <1>0, <1>1, InboxAssumption DEF TypeOK, Commands
<1>3. Joined(c) BY <1>0, <1>2, Admits DEF Push
<1>4. c.op = "store" /\ c.caller = "handler" /\ c.body = head OBVIOUS
<1> HIDE DEF c
<1>5. TypeOK' BY <1>0, <1>1, <1>3 DEF TypeOK, Joined
<1>6. Delivery' BY <1>1, <1>3, <1>4, <1>0 DEF InboxInv, Delivery, Waits, Joined
<1>7. Rows' BY <1>1 DEF InboxInv, Rows, Justified, Ingested
<1>8. Progress' BY <1>1 DEF InboxInv, Progress, RowParts, Covered
<1>9. Commanded'
  BY <1>1, <1>3, <1>4
  DEF InboxInv, Commanded, OwnEvent, OwnMark, RowParts, Joined, Justified, Ingested
<1>10. Photos' BY <1>1, <1>3, <1>4 DEF InboxInv, Photos, Pictured, Joined
<1>11. Bounds'
  <2>1. faults \in Nat /\ ~stopping BY <1>0 DEF TypeOK, Push
  <2>2. \A d \in Range(wq') : d.op = "mark" => d \in Range(wq) BY <1>3, <1>4 DEF Joined
  <2>3. PerTry' BY <1>1, <2>1, <2>2, PerTryKept
  <2>4. \A b : Stored(b)' = Stored(b) BY <1>1 DEF Stored
  <2>5. ASSUME NEW b \in DOMAIN Bodies PROVE WithinResends(b)'
    <3>1. WithinResends(b) /\ Copies(b) \in Nat
      BY <1>0, CopiesType DEF InboxInv, Bounds, Resends
    <3>2. Cardinality(Queued(wq, b)) \in Nat /\ Cardinality(Queued(wq', b)) \in Nat
      BY <1>0, <1>3, QueuedFinite DEF Joined
    <3>3. Cardinality(Stored(b)) \in Nat BY <1>0, StoredFinite DEF Stored, StoredIn
    <3>4. CASE b = head
      <4>1. Copies(b) <= faults BY <1>1, <3>1, <3>4 DEF WithinResends
      <4>2. Cardinality(Queued(wq', b)) <= Cardinality(Queued(wq, b)) + 1
        BY <1>0, <1>3, JoinedQueued
      <4>3. Copies(b)' <= faults + 1 BY <2>1, <2>4, <3>2, <3>3, <4>1, <4>2 DEF Copies
      <4>4. head \in Nat /\ ~(head > head) BY <1>0 DEF TypeOK
      <4> QED BY <1>1, <2>1, <3>4, <4>3, <4>4 DEF WithinResends
    <3>5. CASE b # head
      <4>1. Cardinality(Queued(wq', b)) = Cardinality(Queued(wq, b))
        BY <1>0, <1>3, <1>4, <3>5, JoinedQueued
      <4>2. Copies(b)' = Copies(b) BY <2>4, <4>1 DEF Copies
      <4> QED BY <1>1, <3>1, <3>5, <4>2 DEF WithinResends
    <3> QED BY <3>4, <3>5
  <2>6. Resends' BY <1>1, <2>1, <2>5 DEF Resends
  <2> QED BY <2>3, <2>6 DEF Bounds
<1> QED BY <1>5, <1>6, <1>7, <1>8, <1>9, <1>10, <1>11 DEF InboxInv

(* 200: the body that the reader drops is in the inbox.                     *)
LEMMA AckKeeps ==
  ASSUME InboxInv, Ack
  PROVE  InboxInv'
<1> USE DEF readerVars, drainVars, rowVars
<1>0. TypeOK /\ wq \in Seq(Commands) /\ inbox \in Seq(InboxRows) BY DEF InboxInv, TypeOK
<1>1. /\ handler = "stored" /\ handler' = "idle" /\ head' = head + 1
      /\ UNCHANGED <<wq, inbox, drainVars, events, files, nextId, enrolled, stopping, faults>>
  BY DEF Ack
<1>2. head <= Len(Bodies) /\ head \in Nat /\ Len(Bodies) \in Nat /\ head >= 1
  BY <1>0, <1>1, InboxAssumption DEF InboxInv, Delivery, TypeOK
<1>3. 1..(head' - 1) = (1..(head - 1)) \cup {head} BY <1>1, <1>2
<1>4. TypeOK' BY <1>1, <1>0, <1>2 DEF InboxInv, TypeOK
<1>5. Delivery' BY <1>1, <1>2, <1>3 DEF InboxInv, Delivery, Waits
<1>6. Rows' BY <1>1 DEF InboxInv, Rows, Justified, Ingested
<1>7. Progress' BY <1>1 DEF InboxInv, Progress, RowParts, Covered
<1>8. Commanded'
  BY <1>1
  DEF InboxInv, Commanded, OwnEvent, OwnMark, RowParts, Justified, Ingested
<1>9. Photos' BY <1>1 DEF InboxInv, Photos, Pictured
<1>10. Bounds'
  <2>1. faults \in Nat /\ ~stopping BY <1>0, <1>1 DEF TypeOK, InboxInv, Bounds, Resends
  <2>2. PerTry' BY <1>1, <2>1, PerTryKept
  <2>3. ASSUME NEW b \in DOMAIN Bodies PROVE WithinResends(b)'
    <3>1. WithinResends(b) BY DEF InboxInv, Bounds, Resends
    <3>2. Copies(b)' = Copies(b) BY <1>1 DEF Copies, Stored
    <3>3. b \in Nat BY InboxAssumption
    <3> QED BY <1>1, <1>2, <2>1, <3>1, <3>2, <3>3 DEF WithinResends
  <2>4. Resends' BY <1>1, <2>1, <2>3 DEF Resends
  <2> QED BY <2>2, <2>4 DEF Bounds
<1> QED BY <1>4, <1>5, <1>6, <1>7, <1>8, <1>9, <1>10 DEF InboxInv

(* 503: the reader keeps its head.                                          *)
LEMMA UnavailableKeeps ==
  ASSUME InboxInv, Unavailable
  PROVE  InboxInv'
<1> USE DEF readerVars, drainVars, rowVars
<1>0. TypeOK /\ wq \in Seq(Commands) /\ inbox \in Seq(InboxRows) BY DEF InboxInv, TypeOK
<1>1. /\ handler = "refused" /\ handler' = "idle"
      /\ UNCHANGED <<head, wq, inbox, drainVars, events, files, nextId, enrolled, stopping, faults>>
  BY DEF Unavailable
<1>2. TypeOK' BY <1>1, <1>0 DEF InboxInv, TypeOK
<1>3. Delivery' BY <1>1 DEF InboxInv, Delivery, Waits
<1>4. Rows' BY <1>1 DEF InboxInv, Rows, Justified, Ingested
<1>5. Progress' BY <1>1 DEF InboxInv, Progress, RowParts, Covered
<1>6. Commanded'
  BY <1>1
  DEF InboxInv, Commanded, OwnEvent, OwnMark, RowParts, Justified, Ingested
<1>7. Photos' BY <1>1 DEF InboxInv, Photos, Pictured
<1>8. Bounds'
  <2>1. faults \in Nat /\ (stopping => handler = "idle") BY <1>0 DEF TypeOK, InboxInv, Bounds, Resends
  <2> QED BY <1>1, <2>1, BoundsKept DEF Working
<1> QED BY <1>2, <1>3, <1>4, <1>5, <1>6, <1>7, <1>8 DEF InboxInv

(* Nobody waits after a lost connection; the command stays.                 *)
LEMMA DisconnectKeeps ==
  ASSUME InboxInv, Disconnect
  PROVE  InboxInv'
<1> USE DEF readerVars, drainVars, rowVars
<1>0. TypeOK /\ wq \in Seq(Commands) /\ inbox \in Seq(InboxRows) BY DEF InboxInv, TypeOK
<1>1. /\ handler' = "idle"
      /\ UNCHANGED <<head, inbox, drainVars, events, files, nextId, enrolled, stopping>>
  BY DEF Disconnect
<1>2. faults' \in 0..MaxFaults BY <1>0, InboxAssumption DEF Disconnect, Fault, TypeOK
<1>3. Len(wq) \in Nat /\ DOMAIN wq = 1..Len(wq) /\ \A i \in DOMAIN wq : wq[i] \in Commands
  BY <1>0
<1>4. \A i \in DOMAIN wq :
        /\ wq'[i] \in Commands /\ wq'[i].op = wq[i].op
        /\ wq[i].op = "store" => wq'[i].caller = "nobody"
        /\ wq[i].op # "store" => wq'[i] = wq[i]
  <2>1. SUFFICES ASSUME NEW i \in DOMAIN wq
                 PROVE  /\ wq'[i] \in Commands /\ wq'[i].op = wq[i].op
                        /\ wq[i].op = "store" => wq'[i].caller = "nobody"
                        /\ wq[i].op # "store" => wq'[i] = wq[i]
    OBVIOUS
  <2>2. wq'[i] = IF wq[i].op = "store" THEN [wq[i] EXCEPT !.caller = "nobody"] ELSE wq[i]
    BY DEF Disconnect
  <2>3. CASE wq[i].op = "store"
    <3>1. wq[i] \in [op: {"store"}, body: DOMAIN Bodies, caller: {"handler", "nobody"}]
      BY <1>3, <2>3 DEF Commands
    <3> QED BY <2>2, <2>3, <3>1 DEF Commands
  <2>4. CASE wq[i].op # "store" BY <1>3, <2>2, <2>4
  <2> QED BY <2>3, <2>4
<1>5. DOMAIN wq' = DOMAIN wq /\ wq' \in Seq(Commands)
  <2>1. wq' = [i \in 1..Len(wq) |-> IF wq[i].op = "store"
                                      THEN [wq[i] EXCEPT !.caller = "nobody"] ELSE wq[i]]
    BY <1>3 DEF Disconnect
  <2>2. wq' \in [1..Len(wq) -> Commands] BY <1>3, <1>4, <2>1
  <2> QED BY <1>3, <2>2
<1>6. /\ \A i \in DOMAIN wq' : ~Waits(wq'[i])
      /\ \A c \in Range(wq') : c.op # "store" => c \in Range(wq)
  BY <1>4, <1>5 DEF Waits, Range
<1>7. TypeOK' BY <1>1, <1>0, <1>2, <1>5 DEF InboxInv, TypeOK
<1>8. Delivery' BY <1>1, <1>6 DEF InboxInv, Delivery, Waits
<1>9. Rows' BY <1>1 DEF InboxInv, Rows, Justified, Ingested
<1>10. Progress' BY <1>1 DEF InboxInv, Progress, RowParts, Covered
<1>11. Commanded'
  BY <1>1, <1>4, <1>5, <1>6
  DEF InboxInv, Commanded, OwnEvent, OwnMark, RowParts, Justified, Ingested
<1>12. Photos' BY <1>1, <1>6 DEF InboxInv, Photos, Pictured
<1>13. Bounds'
  <2>1. faults \in Nat /\ faults' \in Nat /\ faults < faults' BY <1>0, FaultCounts DEF Disconnect
  <2>2. \A c \in Range(wq') : c.op = "mark" => c \in Range(wq) BY <1>6
  <2>3. PerTry' BY <1>1, <2>1, <2>2, PerTryKept
  <2>4. \A b : Queued(wq', b) \subseteq Queued(wq, b)
    <3>1. \A i \in DOMAIN wq : wq[i].op = "store" => wq'[i].body = wq[i].body
      BY <1>3 DEF Disconnect, Commands
    <3> QED BY <1>4, <1>5, <3>1 DEF Queued
  <2>5. \A b \in DOMAIN Bodies : Copies(b)' \in Nat /\ Copies(b)' <= Copies(b)
    BY <1>0, <1>1, <1>5, <2>4, SameCopies DEF Stored
  <2>6. Resends' BY <1>1, <2>1, <2>5, ResendsKept
  <2> QED BY <2>3, <2>6 DEF Bounds
<1> QED BY <1>7, <1>8, <1>9, <1>10, <1>11, <1>12, <1>13 DEF InboxInv

-----------------------------------------------------------------------------
(* The writer.                                                              *)

(* Stored: the row is in the inbox before the caller hears of it.           *)
LEMMA StoreRowKeeps ==
  ASSUME InboxInv, StoreRow
  PROVE  InboxInv'
<1> DEFINE c == Head(wq)
           x == [body |-> c.body, status |-> "pending", attempts |-> 0]
<1> USE DEF readerVars, drainVars, rowVars
<1>0. TypeOK /\ wq \in Seq(Commands) /\ inbox \in Seq(InboxRows) BY DEF InboxInv, TypeOK
<1>1. UNCHANGED <<head, drainVars, events, files, nextId, enrolled, stopping, faults>>
  BY DEF StoreRow
<1>2. Left(c) /\ c.op = "store" BY <1>0, Takes DEF StoreRow
<1>3. c.body \in DOMAIN Bodies /\ c.caller \in {"handler", "nobody"}
  BY <1>2, CommandKinds DEF Left
<1>4. x \in InboxRows BY <1>3, InboxAssumption DEF InboxRows, Statuses
<1>5. inbox' = Append(inbox, x) BY DEF StoreRow
<1>6. handler' = IF c.caller = "handler" THEN "stored" ELSE handler BY DEF StoreRow, Answer
<1>7. Waits(c) => handler = "waiting" /\ c.body = head
  BY <1>2 DEF InboxInv, Delivery, Left
<1>8. \A i \in DOMAIN wq' : Waits(wq'[i]) => ~Waits(c)
  BY <1>2 DEF InboxInv, Delivery, Left
<1> HIDE DEF c
<1>9. /\ inbox' \in Seq(InboxRows) /\ Len(inbox) \in Nat
      /\ DOMAIN inbox = 1..Len(inbox) /\ DOMAIN inbox' = 1..(Len(inbox) + 1)
      /\ inbox'[Len(inbox) + 1] = x
      /\ \A r \in 1..Len(inbox) : inbox'[r] = inbox[r]
  <2> HIDE DEF x
  <2> QED BY <1>0, <1>4, <1>5
<1>10. /\ \A r \in DOMAIN inbox : r \in DOMAIN inbox' /\ inbox'[r] = inbox[r]
       /\ \A r \in DOMAIN inbox' : r \notin DOMAIN inbox =>
            inbox'[r].body = c.body /\ inbox'[r].status = "pending" /\ inbox'[r].attempts = 0
       /\ Len(inbox) + 1 \in DOMAIN inbox' /\ inbox'[Len(inbox) + 1].body = c.body
  BY <1>9
<1> HIDE DEF x
<1>11. \A r \in batch : r \in DOMAIN inbox BY <1>0 DEF TypeOK
<1>12. drain \in {"part", "persist", "mark"} => row \in DOMAIN inbox /\ RowParts' = RowParts
  BY <1>0, <1>1, <1>10 DEF TypeOK, RowParts
<1>13. TypeOK'
  <2>1. \A r \in DOMAIN inbox' : inbox'[r].status = "pending" => inbox'[r].attempts < MaxAttempts
    BY <1>0, <1>10, InboxAssumption DEF TypeOK
  <2>2. handler' \in {"idle", "waiting", "stored", "refused"} BY <1>0, <1>6 DEF TypeOK
  <2>3. batch' \subseteq DOMAIN inbox' BY <1>1, <1>10, <1>11
  <2> QED BY <1>0, <1>1, <1>2, <1>9, <2>1, <2>2, <2>3 DEF TypeOK, Left
<1>14. Delivery'
  <2>1. \A b \in 1..(head - 1) : \E r \in DOMAIN inbox' : inbox'[r].body = b
    BY <1>10 DEF InboxInv, Delivery
  <2>2. handler' = "stored" => \E r \in DOMAIN inbox' : inbox'[r].body = head
    BY <1>2, <1>3, <1>6, <1>7, <1>10 DEF InboxInv, Delivery, Waits
  <2>3. handler' # "idle" => head <= Len(Bodies)
    BY <1>2, <1>6, <1>7 DEF InboxInv, Delivery, Waits
  <2>4. \A i \in DOMAIN wq' : Waits(wq'[i]) => handler' = "waiting" /\ wq'[i].body = head
    BY <1>2, <1>6, <1>8 DEF InboxInv, Delivery, Left, Waits
  <2>5. \A i, j \in DOMAIN wq' : Waits(wq'[i]) /\ Waits(wq'[j]) => i = j
    BY <1>2 DEF InboxInv, Delivery, Left
  <2> QED BY <1>1, <2>1, <2>2, <2>3, <2>4, <2>5 DEF Delivery, Waits
<1>15. Rows'
  <2>1. ASSUME NEW r \in DOMAIN inbox PROVE Justified(r, inbox[r].status, inbox[r].attempts)'
    BY <1>1, <1>10, <2>1 DEF InboxInv, Rows, Justified, Ingested
  <2>2. ASSUME NEW r \in DOMAIN inbox', r \notin DOMAIN inbox
        PROVE  Justified(r, inbox[r].status, inbox[r].attempts)'
    BY <1>10, <2>2, InboxAssumption DEF Justified
  <2> QED BY <2>1, <2>2 DEF Rows
<1>16. Progress' BY <1>1, <1>10, <1>11, <1>12 DEF InboxInv, Progress, Covered
<1>17. Commanded'
  <2>1. ASSUME NEW e, OwnEvent(e) PROVE OwnEvent(e)'
    BY <1>1, <1>12, <2>1 DEF OwnEvent
  <2>2. ASSUME NEW m, OwnMark(m) PROVE OwnMark(m)'
    BY <1>1, <1>10, <1>12, <2>2 DEF OwnMark, Justified, Ingested
  <2> QED BY <1>2, <2>1, <2>2 DEF InboxInv, Commanded, Left
<1>18. Photos' BY <1>1, <1>2 DEF InboxInv, Photos, Pictured, Left
<1>19. Bounds'
  <2>1. faults \in Nat /\ IsFiniteSet(events) BY <1>0 DEF TypeOK, InboxInv, Bounds, PerTry
  <2>2. \A r, p : Counted(r, p)' = Counted(r, p) /\ Counted(r, p) \in Nat
    BY <1>1, <2>1, TriesFinite DEF Counted, Tries
  <2>3. \A d \in Range(wq') : d \in Range(wq) BY <1>2 DEF Left
  <2>4. \A e \in events : e.row \in DOMAIN inbox BY DEF InboxInv, Bounds, PerTry
  <2>5. ASSUME NEW r \in DOMAIN inbox', NEW p \in Markings PROVE WithinTries(r, p)'
    <3>1. CASE r \in DOMAIN inbox
      <4>1. WithinTries(r, p) BY <3>1 DEF InboxInv, Bounds, PerTry
      <4>2. inbox'[r] = inbox[r] BY <1>10, <3>1
      <4>3. drain \in {"part", "persist"} => Passed(p)' = Passed(p) BY <1>1, <1>12 DEF Passed
      <4>4. AtWork(r)' = AtWork(r) BY <1>1 DEF AtWork
      <4>5. PICK n \in Nat : n = Counted(r, p) /\ n = Counted(r, p)' BY <2>2
      <4> QED BY <1>1, <2>3, <4>1, <4>2, <4>3, <4>4, <4>5 DEF WithinTries
    <3>2. CASE r \notin DOMAIN inbox
      <4>1. Tries(r, p) = {} BY <2>4, <3>2 DEF Tries
      <4>2. Counted(r, p)' = 0 BY <2>2, <4>1, FS_EmptySet DEF Counted
      <4>3. drain \in {"part", "persist", "mark"} => r # row BY <1>12, <3>2
      <4> QED BY <1>1, <2>1, <4>2, <4>3 DEF WithinTries
    <3> QED BY <3>1, <3>2
  <2>6. PerTry' BY <1>1, <1>10, <2>1, <2>4, <2>5 DEF PerTry
  <2>7. ASSUME NEW b \in DOMAIN Bodies PROVE Copies(b)' \in Nat /\ Copies(b)' <= Copies(b)
    <3>1. IsFiniteSet(Stored(b)) /\ Cardinality(Stored(b)) \in Nat
      BY <1>0, StoredFinite DEF Stored, StoredIn
    <3>2. Cardinality(Queued(wq, b)) \in Nat /\ Cardinality(Queued(wq', b)) \in Nat
      BY <1>0, <1>2, QueuedFinite DEF Left
    <3>3. CASE b = c.body
      <4>1. Stored(b)' = Stored(b) \cup {Len(inbox) + 1} BY <1>9, <1>10, <3>3 DEF Stored
      <4>2. Len(inbox) + 1 \notin Stored(b) BY <1>9 DEF Stored
      <4>3. Cardinality(Stored(b)') = Cardinality(Stored(b)) + 1
        BY <3>1, <4>1, <4>2, FS_AddElement
      <4>4. Cardinality(Queued(wq', b)) + 1 <= Cardinality(Queued(wq, b))
        BY <1>0, <1>2, <3>3, LeftQueued
      <4> QED BY <3>1, <3>2, <4>3, <4>4 DEF Copies
    <3>4. CASE b # c.body
      <4>1. Stored(b)' = Stored(b) BY <1>9, <1>10, <3>4 DEF Stored
      <4>2. Cardinality(Queued(wq', b)) <= Cardinality(Queued(wq, b)) BY <1>0, <1>2, LeftQueued
      <4> QED BY <3>1, <3>2, <4>1, <4>2 DEF Copies
    <3> QED BY <3>3, <3>4
  <2>8. stopping' => handler' = "idle"
    BY <1>1, <1>2, <1>6, <1>7 DEF InboxInv, Bounds, Resends, Waits
  <2>9. Resends' BY <1>1, <1>6, <2>1, <2>7, <2>8, ResendsKept
  <2> QED BY <2>6, <2>9 DEF Bounds
<1> QED BY <1>13, <1>14, <1>15, <1>16, <1>17, <1>18, <1>19 DEF InboxInv

(* A refused INSERT leaves no row, and its caller hears of it.              *)
LEMMA StoreFailsKeeps ==
  ASSUME InboxInv, StoreFails
  PROVE  InboxInv'
<1> DEFINE c == Head(wq)
<1> USE DEF readerVars, drainVars, rowVars
<1>0. TypeOK /\ wq \in Seq(Commands) /\ inbox \in Seq(InboxRows) BY DEF InboxInv, TypeOK
<1>1. UNCHANGED <<head, inbox, drainVars, events, files, nextId, enrolled, stopping>>
  BY DEF StoreFails
<1>2. Left(c) /\ c.op = "store" BY <1>0, Takes DEF StoreFails
<1>3. handler' = IF c.caller = "handler" THEN "refused" ELSE handler BY DEF StoreFails, Answer
<1>4. Waits(c) => handler = "waiting" /\ head <= Len(Bodies)
  BY <1>2 DEF InboxInv, Delivery, Left
<1>5. \A i \in DOMAIN wq' : Waits(wq'[i]) => ~Waits(c)
  BY <1>2 DEF InboxInv, Delivery, Left
<1>6. faults' \in 0..MaxFaults BY <1>0, InboxAssumption DEF StoreFails, Fault, TypeOK
<1>7. handler' \in {"idle", "waiting", "stored", "refused"} BY <1>0, <1>3 DEF TypeOK
<1> HIDE DEF c
<1>8. TypeOK' BY <1>1, <1>0, <1>2, <1>6, <1>7 DEF InboxInv, TypeOK, Left
<1>9. Delivery' BY <1>1, <1>2, <1>3, <1>4, <1>5 DEF InboxInv, Delivery, Waits, Left
<1>10. Rows' BY <1>1 DEF InboxInv, Rows, Justified, Ingested
<1>11. Progress' BY <1>1 DEF InboxInv, Progress, RowParts, Covered
<1>12. Commanded'
  <2>1. ASSUME NEW e, OwnEvent(e) PROVE OwnEvent(e)'
    BY <1>1, <2>1 DEF OwnEvent, RowParts
  <2>2. ASSUME NEW m, OwnMark(m) PROVE OwnMark(m)'
    BY <1>1, <2>2 DEF OwnMark, Justified, Ingested
  <2> QED BY <1>2, <2>1, <2>2 DEF InboxInv, Commanded, Left
<1>13. Photos' BY <1>1, <1>2 DEF InboxInv, Photos, Pictured, Left
<1>14. Bounds'
  <2>1. faults \in Nat /\ faults' \in Nat /\ faults < faults' BY <1>0, FaultCounts DEF StoreFails
  <2>2. stopping' => handler' = "idle"
    BY <1>1, <1>3, <1>4, <1>2 DEF InboxInv, Bounds, Resends, Waits
  <2> QED BY <1>1, <1>2, <2>1, <2>2, BoundsKept DEF Working
<1> QED BY <1>8, <1>9, <1>10, <1>11, <1>12, <1>13, <1>14 DEF InboxInv

(* After its own command the worker has none in the queue.                  *)
LEMMA NoneLeft ==
  ASSUME Commanded, NEW c, Left(c), c.op # "store"
  PROVE  /\ \A d \in Range(wq') : d.op = "store"
         /\ \A i \in DOMAIN wq' : wq'[i].op = "store"
<1>1. \A i \in DOMAIN wq' : wq'[i].op = "store" BY DEF Commanded, Left
<1> QED BY <1>1 DEF Range

(* The transaction: a marking that is not inserted is there already, and a  *)
(* photo stays with its row only.                                           *)
LEMMA InsertEventKeeps ==
  ASSUME InboxInv, InsertEvent
  PROVE  InboxInv'
<1> USE DEF readerVars, drainVars, rowVars
<1>0. TypeOK /\ wq \in Seq(Commands) /\ inbox \in Seq(InboxRows) BY DEF InboxInv, TypeOK
<1>c. PICK c : c = Head(wq) OBVIOUS
<1>e. PICK e : e = c.event OBVIOUS
<1>1. /\ drain' = "part" /\ cursor' = cursor + 1
      /\ UNCHANGED <<readerVars, inbox, final, batch, row, transient, permanent, nextId,
                     enrolled, stopping, faults>>
  BY DEF InsertEvent
<1>2. Left(c) /\ c.op = "event" BY <1>0, <1>c, Takes DEF InsertEvent
<1>3. /\ e \in EventRows /\ OwnEvent(e) /\ Pictured(e) /\ \A f \in events : f.id # e.id
  BY <1>2, <1>e, CommandKinds DEF InboxInv, Commanded, Photos, Left
<1>4. /\ \A d \in Range(wq') : d.op = "store"
      /\ \A i \in DOMAIN wq' : wq'[i].op = "store"
  BY <1>2, NoneLeft DEF InboxInv
<1>5. \/ Duplicate(e) /\ files' = files \ {e.id} /\ UNCHANGED events
      \/ ~Duplicate(e) /\ events' = events \cup {e} /\ UNCHANGED files
  BY <1>c, <1>e DEF InsertEvent
<1>6. events \subseteq events' /\ (\A f \in events' : f \in events \/ f = e)
  BY <1>5
<1>7. /\ drain = "persist" /\ cursor \in 1..Len(RowParts) /\ Len(RowParts) \in Nat
      /\ row \in batch /\ row \in DOMAIN inbox /\ RowParts' = RowParts
  <2>1. drain = "persist" BY <1>3 DEF OwnEvent
  <2>2. row \in DOMAIN inbox /\ row \in batch BY <1>0, <2>1 DEF TypeOK
  <2>3. inbox[row].body \in DOMAIN Bodies
    <3>1. inbox[row] \in InboxRows BY <1>0, <2>2
    <3> QED BY <3>1 DEF InboxRows
  <2>4. RowParts \in Seq(Parts) BY <2>3, InboxAssumption DEF RowParts
  <2>5. Len(RowParts) \in Nat BY <2>4
  <2>6. cursor \in 1..(Len(RowParts) + 1) /\ cursor <= Len(RowParts)
    BY <2>1 DEF InboxInv, Progress
  <2> QED BY <1>1, <2>1, <2>2, <2>5, <2>6 DEF RowParts
<1>8. Covered(e.part)'
  <2>1. CASE Duplicate(e)
    <3>1. PICK f \in events : f.who = e.who /\ f.bucket = e.bucket /\ e.who # Nobody
      BY <2>1 DEF Duplicate
    <3>2. Covers(f, e.part) BY <1>3, <3>1 DEF OwnEvent, Covers
    <3> QED BY <1>6, <3>1, <3>2 DEF Covered, Covers
  <2>2. CASE e \in events' BY <2>2 DEF Covered, Covers
  <2> QED BY <1>5, <2>1, <2>2
<1>9. TypeOK'
  <2>1. cursor' \in Nat BY <1>1, <1>7
  <2>2. events' \subseteq EventRows /\ files' \subseteq Nat
    BY <1>0, <1>3, <1>5 DEF TypeOK
  <2> QED BY <1>0, <1>1, <1>2, <1>7, <2>1, <2>2 DEF TypeOK, Left
<1>10. Delivery' BY <1>1, <1>2 DEF InboxInv, Delivery, Waits, Left
<1>11. Rows' BY <1>1, <1>6 DEF InboxInv, Rows, Justified, Ingested
<1>12. Progress'
  <2>1. ASSUME NEW p \in Markings, NEW k \in 1..(cursor' - 1), ~transient', RowParts[k] = p
        PROVE  Covered(p)'
    <3>1. CASE k = cursor
      <4>1. p = e.part BY <1>3, <2>1, <3>1 DEF OwnEvent
      <4> QED BY <1>8, <4>1
    <3>2. CASE k # cursor
      <4>1. k \in 1..(cursor - 1) BY <1>1, <1>7, <2>1, <3>2
      <4>2. Covered(p) BY <1>1, <1>7, <2>1, <4>1 DEF InboxInv, Progress
      <4> QED BY <1>6, <4>2 DEF Covered, Covers
    <3> QED BY <3>1, <3>2
  <2>4. cursor' \in 1..(Len(RowParts) + 1) BY <1>1, <1>7
  <2>5. permanent' => Range(RowParts) \cap Unparseable # {}
    BY <1>1, <1>7 DEF InboxInv, Progress
  <2>6. \A r \in batch' : inbox'[r].status = "pending" BY <1>1 DEF InboxInv, Progress
  <2> QED BY <1>1, <1>7, <2>1, <2>4, <2>5, <2>6 DEF Progress
<1>13. Commanded' BY <1>4 DEF Commanded
<1>14. Photos'
  <2>1. \A f \in events : f.id \in files' <=> f.id \in files BY <1>3, <1>5
  <2>2. e \in events' => Pictured(e)' BY <1>1, <1>3, <1>5 DEF Pictured
  <2>3. \A f \in events' : Pictured(f)' BY <1>1, <1>6, <2>1, <2>2 DEF InboxInv, Photos, Pictured
  <2> QED BY <1>1, <1>3, <1>4, <1>5, <1>6, <2>3 DEF InboxInv, Photos
<1>15. Bounds'
  <2>1. faults \in Nat /\ IsFiniteSet(events) BY <1>0 DEF TypeOK, InboxInv, Bounds, PerTry
  <2>2. IsFiniteSet(events') BY <1>5, <2>1, FS_AddElement
  <2>3. e.row = row /\ e.part = RowParts[cursor] BY <1>3 DEF OwnEvent
  <2>4. \A f \in events' : f.row \in DOMAIN inbox
    BY <1>6, <1>7, <2>3 DEF InboxInv, Bounds, PerTry
  <2>5. ~Passed(e.part)
    <3>1. inbox[row].body \in DOMAIN Bodies
      <4>1. inbox[row] \in InboxRows BY <1>0, <1>7
      <4> QED BY <4>1 DEF InboxRows
    <3>2. DOMAIN RowParts = 1..Len(RowParts)
      <4>1. RowParts \in Seq(Parts) BY <3>1, InboxAssumption DEF RowParts
      <4> HIDE DEF RowParts
      <4> QED BY <4>1
    <3>3. \A i, j \in DOMAIN RowParts : RowParts[i] = RowParts[j] => i = j
      BY <3>1, InboxAssumption DEF RowParts
    <3> QED BY <1>7, <2>3, <3>2, <3>3 DEF Passed
  <2>6. ASSUME NEW r \in DOMAIN inbox, NEW p \in Markings PROVE WithinTries(r, p)'
    <3>1. WithinTries(r, p) BY DEF InboxInv, Bounds, PerTry
    <3>2. AtWork(r)' = AtWork(r) BY <1>1, <1>7 DEF AtWork, Working
    <3>3. PICK n \in Nat : n = Counted(r, p) BY <2>1, TriesFinite
    <3>4. Passed(p) => Passed(p)' BY <1>1, <1>7 DEF Passed
    <3>5. CASE r = row /\ p = e.part
      <4>1. Tries(r, p)' = Tries(r, p) \/ Tries(r, p)' = Tries(r, p) \cup {e}
        BY <1>5 DEF Tries
      <4>2. Counted(r, p)' \in {n, n + 1}
        BY <2>1, <3>3, <4>1, TriesFinite, FS_AddElement DEF Counted
      <4>3. Passed(p)' BY <1>1, <1>7, <2>3, <3>5 DEF Passed
      <4>4. /\ n <= faults /\ (transient => n < faults)
        BY <1>7, <2>5, <3>1, <3>3, <3>5 DEF WithinTries
      <4>5. drain' = "part" /\ transient' = transient /\ faults' = faults /\ row' = row BY <1>1
      <4>6. AtWork(r)' BY <3>5, <4>5 DEF AtWork, Working
      <4>7. PICK m \in Nat : m = Counted(r, p)' /\ m <= n + 1 BY <4>2
      <4> QED BY <2>1, <4>3, <4>4, <4>5, <4>6, <4>7 DEF WithinTries
    <3>6. CASE ~(r = row /\ p = e.part)
      <4>1. Tries(r, p)' = Tries(r, p) BY <1>5, <2>3, <3>6 DEF Tries
      <4>2. Counted(r, p)' = n BY <3>3, <4>1 DEF Counted
      <4> QED BY <1>1, <1>7, <3>1, <3>2, <3>3, <3>4, <4>2 DEF WithinTries
    <3> QED BY <3>5, <3>6
  <2>7. PerTry' BY <1>1, <2>2, <2>4, <2>6 DEF PerTry
  <2>8. \A b \in DOMAIN Bodies : Copies(b)' \in Nat /\ Copies(b)' <= Copies(b)
    BY <1>0, <1>1, <1>2, SameCopies DEF Stored
  <2>9. Resends' BY <1>1, <2>1, <2>8, ResendsKept DEF InboxInv, Bounds, Resends
  <2> QED BY <2>7, <2>9 DEF Bounds
<1> QED BY <1>9, <1>10, <1>11, <1>12, <1>13, <1>14, <1>15 DEF InboxInv

(* The row the worker is at.                                                *)
LEMMA AtRow ==
  ASSUME InboxInv, drain \in {"part", "persist"}
  PROVE  /\ row \in batch /\ row \in DOMAIN inbox /\ row \in Nat
         /\ inbox[row].status = "pending" /\ inbox[row].attempts \in 0..MaxAttempts
         /\ inbox[row].attempts < MaxAttempts
         /\ Range(RowParts) = {RowParts[k] : k \in 1..Len(RowParts)}
         /\ \A k \in 1..Len(RowParts) : RowParts[k] \in Parts
         /\ Len(RowParts) \in Nat /\ cursor \in 1..(Len(RowParts) + 1)
<1>1. inbox \in Seq(InboxRows) BY DEF InboxInv, TypeOK
<1>2. row \in batch /\ row \in DOMAIN inbox BY DEF InboxInv, TypeOK
<1>3. inbox[row] \in InboxRows /\ row \in Nat BY <1>1, <1>2
<1>4. inbox[row].body \in DOMAIN Bodies /\ inbox[row].attempts \in 0..MaxAttempts
  BY <1>3 DEF InboxRows
<1>5. inbox[row].status = "pending" BY <1>2 DEF InboxInv, Progress
<1>6. inbox[row].attempts < MaxAttempts BY <1>2, <1>5 DEF InboxInv, TypeOK
<1>7. RowParts \in Seq(Parts) BY <1>4, InboxAssumption DEF RowParts
<1>8. /\ Len(RowParts) \in Nat /\ DOMAIN RowParts = 1..Len(RowParts)
      /\ \A k \in 1..Len(RowParts) : RowParts[k] \in Parts
  <2> HIDE DEF RowParts
  <2> QED BY <1>7
<1>9. Range(RowParts) = {RowParts[k] : k \in 1..Len(RowParts)} BY <1>8 DEF Range
<1>10. cursor \in 1..(Len(RowParts) + 1) BY DEF InboxInv, Progress
<1> QED BY <1>2, <1>3, <1>4, <1>5, <1>6, <1>8, <1>9, <1>10

(* A refused transaction is an error of the row, and its photo is gone.     *)
LEMMA InsertFailsKeeps ==
  ASSUME InboxInv, InsertFails
  PROVE  InboxInv'
<1> USE DEF readerVars, drainVars, rowVars
<1>0. TypeOK /\ wq \in Seq(Commands) /\ inbox \in Seq(InboxRows) BY DEF InboxInv, TypeOK
<1>c. PICK c : c = Head(wq) OBVIOUS
<1>e. PICK e : e = c.event OBVIOUS
<1>1. /\ drain' = "part" /\ cursor' = cursor + 1 /\ transient' = TRUE
      /\ files' = files \ {e.id}
      /\ UNCHANGED <<readerVars, inbox, final, batch, row, permanent, events, nextId, enrolled,
                     stopping>>
  BY <1>c, <1>e DEF InsertFails
<1>2. Left(c) /\ c.op = "event" BY <1>0, <1>c, Takes DEF InsertFails
<1>3. OwnEvent(e) /\ \A f \in events : f.id # e.id
  BY <1>2, <1>e, CommandKinds DEF InboxInv, Commanded, Photos, Left
<1>4. /\ \A d \in Range(wq') : d.op = "store"
      /\ \A i \in DOMAIN wq' : wq'[i].op = "store"
  BY <1>2, NoneLeft DEF InboxInv
<1>5. drain = "persist" /\ cursor <= Len(RowParts) BY <1>3 DEF OwnEvent, InboxInv, Progress
<1>6. /\ cursor' \in 1..(Len(RowParts) + 1) /\ cursor' \in Nat
      /\ row \in batch /\ RowParts' = RowParts
  BY <1>1, <1>5, AtRow DEF RowParts
<1>7. faults' \in 0..MaxFaults BY <1>0, InboxAssumption DEF InsertFails, Fault, TypeOK
<1>8. TypeOK' BY <1>0, <1>1, <1>2, <1>6, <1>7 DEF TypeOK, Left
<1>9. Delivery' BY <1>1, <1>2 DEF InboxInv, Delivery, Waits, Left
<1>10. Rows' BY <1>1 DEF InboxInv, Rows, Justified, Ingested
<1>11. Progress' BY <1>1, <1>5, <1>6 DEF InboxInv, Progress, Covered
<1>12. Commanded' BY <1>4 DEF Commanded
<1>13. Photos' BY <1>1, <1>3, <1>4 DEF InboxInv, Photos, Pictured
<1>14. Bounds'
  <2>1. faults \in Nat /\ IsFiniteSet(events) BY <1>0 DEF TypeOK, InboxInv, Bounds, PerTry
  <2>2. \A r, p : Counted(r, p)' = Counted(r, p) /\ Counted(r, p) \in Nat
    BY <1>1, <2>1, TriesFinite DEF Counted, Tries
  <2>3. faults' \in Nat /\ faults' = faults + 1 BY <1>0, FaultCounts DEF InsertFails
  <2>4. ASSUME NEW r \in DOMAIN inbox, NEW p \in Markings PROVE WithinTries(r, p)'
    <3>1. WithinTries(r, p) BY DEF InboxInv, Bounds, PerTry
    <3>2. PICK n \in Nat : n = Counted(r, p) /\ n = Counted(r, p)' BY <2>2
    <3>3. Passed(p) => Passed(p)' BY <1>1, <1>5, <1>6, AtRow DEF Passed
    <3>4. AtWork(r)' = AtWork(r) BY <1>1, <1>5 DEF AtWork, Working
    <3> QED BY <1>1, <1>5, <2>1, <2>3, <3>1, <3>2, <3>3, <3>4 DEF WithinTries
  <2>5. PerTry' BY <1>1, <2>1, <2>4 DEF InboxInv, Bounds, PerTry
  <2>6. \A b \in DOMAIN Bodies : Copies(b)' \in Nat /\ Copies(b)' <= Copies(b)
    BY <1>0, <1>1, <1>2, SameCopies DEF Stored
  <2>7. Resends' BY <1>1, <2>1, <2>3, <2>6, ResendsKept DEF InboxInv, Bounds, Resends
  <2> QED BY <2>5, <2>7 DEF Bounds
<1> QED BY <1>8, <1>9, <1>10, <1>11, <1>12, <1>13, <1>14 DEF InboxInv

(* The verdict is written on the row it was reached for, and on no other.   *)
LEMMA MarkRowKeeps ==
  ASSUME InboxInv, MarkRow
  PROVE  InboxInv'
<1> USE DEF readerVars, drainVars, rowVars
<1>0. TypeOK /\ wq \in Seq(Commands) /\ inbox \in Seq(InboxRows) BY DEF InboxInv, TypeOK
<1>c. PICK c : c = Head(wq) OBVIOUS
<1>1. /\ drain' = "row" /\ batch' = batch \ {row}
      /\ UNCHANGED <<readerVars, final, rowVars, events, files, nextId, enrolled, stopping,
                     faults>>
  BY DEF MarkRow
<1>2. Left(c) /\ c.op = "mark" BY <1>0, <1>c, Takes DEF MarkRow
<1>3. OwnMark(c) /\ c.status \in Statuses /\ c.attempts \in 0..MaxAttempts
  BY <1>2, CommandKinds DEF InboxInv, Commanded, Left
<1>4. /\ \A d \in Range(wq') : d.op = "store"
      /\ \A i \in DOMAIN wq' : wq'[i].op = "store"
  BY <1>2, NoneLeft DEF InboxInv
<1>5. row \in DOMAIN inbox /\ c.row = row BY <1>0, <1>3 DEF OwnMark, TypeOK
<1>6. inbox' = [inbox EXCEPT ![row].status = c.status, ![row].attempts = c.attempts]
  BY <1>c, <1>5 DEF MarkRow
<1>7. inbox[row] \in InboxRows BY <1>0, <1>5
<1>8. PICK x : x = [body |-> inbox[row].body, status |-> c.status, attempts |-> c.attempts]
  OBVIOUS
<1>9. x \in InboxRows BY <1>3, <1>7, <1>8 DEF InboxRows
<1>10. inbox' = [inbox EXCEPT ![row] = x]
  <2>1. PICK i : i = [inbox EXCEPT ![row].status = c.status] OBVIOUS
  <2>2. PICK y : y = [inbox[row] EXCEPT !.status = c.status] OBVIOUS
  <2>3. i = [inbox EXCEPT ![row] = y] BY <2>1, <2>2
  <2>4. inbox' = [i EXCEPT ![row].attempts = c.attempts] BY <1>6, <2>1
  <2>5. i[row] = y BY <1>0, <1>5, <2>3
  <2>6. inbox' = [i EXCEPT ![row] = [y EXCEPT !.attempts = c.attempts]] BY <2>4, <2>5
  <2>7. x = [y EXCEPT !.attempts = c.attempts]
    <3>1. PICK z : z = [y EXCEPT !.attempts = c.attempts] OBVIOUS
    <3>2. y \in InboxRows BY <1>3, <1>7, <2>2 DEF InboxRows
    <3>3. z \in InboxRows BY <1>3, <3>1, <3>2 DEF InboxRows
    <3>4. z.body = x.body /\ z.status = x.status /\ z.attempts = x.attempts
      BY <1>7, <1>8, <2>2, <3>1, <3>2 DEF InboxRows
    <3>5. z = x BY <1>9, <3>3, <3>4 DEF InboxRows
    <3> QED BY <3>1, <3>5
  <2>8. inbox' = [i EXCEPT ![row] = x] BY <2>6, <2>7
  <2> QED BY <1>0, <1>5, <2>3, <2>8
<1>11. /\ inbox' \in Seq(InboxRows) /\ DOMAIN inbox' = DOMAIN inbox
       /\ \A r \in DOMAIN inbox : inbox'[r] = IF r = row THEN x ELSE inbox[r]
  BY <1>0, <1>5, <1>9, <1>10
<1>12. \A r \in DOMAIN inbox : inbox'[r].body = inbox[r].body BY <1>8, <1>11
<1>13. TypeOK'
  <2>1. \A r \in DOMAIN inbox' : inbox'[r].status = "pending" => inbox'[r].attempts < MaxAttempts
    BY <1>0, <1>3, <1>8, <1>11 DEF TypeOK, OwnMark, Justified
  <2> QED BY <1>0, <1>1, <1>2, <1>11, <2>1 DEF TypeOK, Left
<1>14. Delivery'
  <2>1. \A b \in 1..(head - 1) : \E r \in DOMAIN inbox' : inbox'[r].body = b
    BY <1>11, <1>12 DEF InboxInv, Delivery
  <2>2. handler' = "stored" => \E r \in DOMAIN inbox' : inbox'[r].body = head
    BY <1>1, <1>11, <1>12 DEF InboxInv, Delivery
  <2> QED BY <1>1, <1>2, <2>1, <2>2 DEF InboxInv, Delivery, Waits, Left
<1>15. Rows'
  <2>1. ASSUME NEW r \in DOMAIN inbox, r # row
        PROVE  Justified(r, inbox[r].status, inbox[r].attempts)'
    BY <1>1, <1>11, <2>1 DEF InboxInv, Rows, Justified, Ingested
  <2>2. ASSUME NEW r \in DOMAIN inbox, r = row
        PROVE  Justified(r, inbox[r].status, inbox[r].attempts)'
    <3>1. Justified(r, c.status, c.attempts) BY <1>3, <2>2 DEF OwnMark
    <3>2. inbox'[r].status = c.status /\ inbox'[r].attempts = c.attempts
      BY <1>8, <1>11, <2>2
    <3> QED BY <1>1, <1>5, <1>12, <3>1, <3>2 DEF Justified, Ingested
  <2> QED
    <3>1. DOMAIN inbox' = DOMAIN inbox BY <1>11
    <3>2. \A r \in DOMAIN inbox : Justified(r, inbox[r].status, inbox[r].attempts)'
      BY <2>1, <2>2
    <3> QED BY <3>1, <3>2 DEF Rows
<1>16. Progress' BY <1>0, <1>1, <1>11 DEF InboxInv, Progress, TypeOK
<1>17. Commanded' BY <1>4 DEF Commanded
<1>18. Photos' BY <1>1, <1>4 DEF InboxInv, Photos, Pictured
<1>19. Bounds'
  <2>1. faults \in Nat /\ IsFiniteSet(events) BY <1>0 DEF TypeOK, InboxInv, Bounds, PerTry
  <2>2. \A r, p : Counted(r, p)' = Counted(r, p) /\ Counted(r, p) \in Nat
    BY <1>1, <2>1, TriesFinite DEF Counted, Tries
  <2>3. ASSUME NEW r \in DOMAIN inbox, NEW p \in Markings PROVE WithinTries(r, p)'
    <3>1. WithinTries(r, p) BY DEF InboxInv, Bounds, PerTry
    <3>2. PICK n \in Nat : n = Counted(r, p) /\ n = Counted(r, p)' BY <2>2
    <3>3. ~AtWork(r)' BY <1>1 DEF AtWork, Working
    <3>4. CASE r = row
      <4>1. inbox'[r].status = "pending" => n <= faults
        BY <1>2, <1>3, <1>5, <1>8, <1>11, <3>1, <3>2, <3>4 DEF WithinTries, OwnMark, Left
      <4> QED BY <1>1, <3>1, <3>2, <3>3, <4>1 DEF WithinTries
    <3>5. CASE r # row
      <4>1. inbox'[r] = inbox[r] /\ ~AtWork(r) BY <1>11, <3>5 DEF AtWork
      <4> QED BY <1>1, <3>1, <3>2, <3>3, <4>1 DEF WithinTries
    <3> QED BY <3>4, <3>5
  <2>4. PerTry' BY <1>1, <1>11, <2>1, <2>3 DEF InboxInv, Bounds, PerTry
  <2>5. \A b : Stored(b)' = Stored(b) BY <1>11, <1>12 DEF Stored
  <2>6. \A b \in DOMAIN Bodies : Copies(b)' \in Nat /\ Copies(b)' <= Copies(b)
    BY <1>0, <1>2, <2>5, SameCopies
  <2>7. Resends' BY <1>1, <2>1, <2>6, ResendsKept DEF InboxInv, Bounds, Resends
  <2> QED BY <2>4, <2>7 DEF Bounds
<1> QED BY <1>13, <1>14, <1>15, <1>16, <1>17, <1>18, <1>19 DEF InboxInv

(* A refused marking leaves the row for a later pass.                       *)
LEMMA MarkFailsKeeps ==
  ASSUME InboxInv, MarkFails
  PROVE  InboxInv'
<1> USE DEF readerVars, drainVars, rowVars
<1>0. TypeOK /\ wq \in Seq(Commands) /\ inbox \in Seq(InboxRows) BY DEF InboxInv, TypeOK
<1>c. PICK c : c = Head(wq) OBVIOUS
<1>1. /\ drain' = "row" /\ batch' = batch \ {row}
      /\ UNCHANGED <<readerVars, inbox, final, rowVars, events, files, nextId, enrolled,
                     stopping>>
  BY DEF MarkFails
<1>2. Left(c) /\ c.op = "mark" BY <1>0, <1>c, Takes DEF MarkFails
<1>4. /\ \A d \in Range(wq') : d.op = "store"
      /\ \A i \in DOMAIN wq' : wq'[i].op = "store"
  BY <1>2, NoneLeft DEF InboxInv
<1>5. faults' \in 0..MaxFaults BY <1>0, InboxAssumption DEF MarkFails, Fault, TypeOK
<1>6. TypeOK' BY <1>0, <1>1, <1>2, <1>5 DEF TypeOK, Left
<1>7. Delivery' BY <1>1, <1>2 DEF InboxInv, Delivery, Waits, Left
<1>8. Rows' BY <1>1 DEF InboxInv, Rows, Justified, Ingested
<1>9. Progress' BY <1>1 DEF InboxInv, Progress
<1>10. Commanded' BY <1>4 DEF Commanded
<1>11. Photos' BY <1>1, <1>4 DEF InboxInv, Photos, Pictured
<1>12. Bounds'
  <2>1. faults \in Nat /\ IsFiniteSet(events) BY <1>0 DEF TypeOK, InboxInv, Bounds, PerTry
  <2>2. \A r, p : Counted(r, p)' = Counted(r, p) /\ Counted(r, p) \in Nat
    BY <1>1, <2>1, TriesFinite DEF Counted, Tries
  <2>3. faults' \in Nat /\ faults' = faults + 1 BY <1>0, FaultCounts DEF MarkFails
  <2>4. ASSUME NEW r \in DOMAIN inbox, NEW p \in Markings PROVE WithinTries(r, p)'
    <3>1. WithinTries(r, p) BY DEF InboxInv, Bounds, PerTry
    <3>2. PICK n \in Nat : n = Counted(r, p) /\ n = Counted(r, p)' BY <2>2
    <3> QED BY <1>1, <2>1, <2>3, <3>1, <3>2 DEF WithinTries
  <2>5. PerTry' BY <1>1, <2>1, <2>4 DEF InboxInv, Bounds, PerTry
  <2>6. \A b \in DOMAIN Bodies : Copies(b)' \in Nat /\ Copies(b)' <= Copies(b)
    BY <1>0, <1>1, <1>2, SameCopies DEF Stored
  <2>7. Resends' BY <1>1, <2>1, <2>3, <2>6, ResendsKept DEF InboxInv, Bounds, Resends
  <2> QED BY <2>5, <2>7 DEF Bounds
<1> QED BY <1>6, <1>7, <1>8, <1>9, <1>10, <1>11, <1>12 DEF InboxInv

-----------------------------------------------------------------------------
(* The drain worker.                                                        *)

(* While no command of the worker is under way the queue holds none.        *)
LEMMA Quiet ==
  ASSUME InboxInv, drain \notin {"persist", "mark"}
  PROVE  /\ \A d \in Range(wq) : d.op = "store"
         /\ \A i \in DOMAIN wq : wq[i].op = "store"
<1>1. ASSUME NEW d \in Range(wq) PROVE d.op = "store"
  <2>1. wq \in Seq(Commands) BY DEF InboxInv, TypeOK
  <2>2. d \in Commands BY <2>1 DEF Range
  <2>3. d.op \in {"store", "event", "mark"} BY <2>2, CommandKinds
  <2>4. (d.op = "event" => OwnEvent(d.event)) /\ (d.op = "mark" => OwnMark(d))
    BY DEF InboxInv, Commanded
  <2> QED BY <2>3, <2>4 DEF OwnEvent, OwnMark
<1> QED BY <1>1 DEF Range

(* A pass takes pending rows.                                               *)
LEMMA StartPassKeeps ==
  ASSUME InboxInv, StartPass
  PROVE  InboxInv'
<1> USE DEF readerVars, drainVars, rowVars
<1>0. TypeOK /\ wq \in Seq(Commands) /\ inbox \in Seq(InboxRows) BY DEF InboxInv, TypeOK
<1>1. /\ drain = "idle" /\ drain' = "row" /\ batch' = SelectPending /\ final' \in BOOLEAN
      /\ UNCHANGED <<readerVars, wq, inbox, rowVars, events, files, nextId, enrolled,
                     stopping, faults>>
  BY DEF StartPass
<1>2. /\ \A d \in Range(wq) : d.op = "store"
      /\ \A i \in DOMAIN wq : wq[i].op = "store"
  BY Quiet DEF StartPass
<1>3. \A r \in batch' : r \in DOMAIN inbox /\ inbox[r].status = "pending"
  BY <1>1 DEF SelectPending, Pending
<1>4. TypeOK' BY <1>0, <1>1, <1>3 DEF TypeOK
<1>5. Delivery' BY <1>1 DEF InboxInv, Delivery
<1>6. Rows' BY <1>1 DEF InboxInv, Rows, Justified, Ingested
<1>7. Progress' BY <1>1, <1>3 DEF InboxInv, Progress
<1>8. Commanded' BY <1>1, <1>2 DEF InboxInv, Commanded
<1>9. Photos' BY <1>1 DEF InboxInv, Photos, Pictured
<1>10. Bounds'
  <2>1. faults \in Nat /\ (stopping => handler = "idle") BY <1>0 DEF TypeOK, InboxInv, Bounds, Resends
  <2> QED BY <1>1, <2>1, BoundsKept DEF Working
<1> QED BY <1>4, <1>5, <1>6, <1>7, <1>8, <1>9, <1>10 DEF InboxInv

(* A failed read ends the worker between two passes.                        *)
LEMMA SelectFailsKeeps ==
  ASSUME InboxInv, SelectFails
  PROVE  InboxInv'
<1> USE DEF readerVars, drainVars, rowVars
<1>0. TypeOK /\ wq \in Seq(Commands) /\ inbox \in Seq(InboxRows) BY DEF InboxInv, TypeOK
<1>1. /\ drain = "idle" /\ drain' = "dead"
      /\ UNCHANGED <<readerVars, wq, inbox, final, batch, rowVars, events, files, nextId,
                     enrolled, stopping>>
  BY DEF SelectFails
<1>2. /\ \A d \in Range(wq) : d.op = "store"
      /\ \A i \in DOMAIN wq : wq[i].op = "store"
  BY Quiet DEF SelectFails
<1>3. faults' \in 0..MaxFaults BY <1>0, InboxAssumption DEF SelectFails, Fault, TypeOK
<1>4. TypeOK' BY <1>0, <1>1, <1>3 DEF TypeOK
<1>5. Delivery' BY <1>1 DEF InboxInv, Delivery
<1>6. Rows' BY <1>1 DEF InboxInv, Rows, Justified, Ingested
<1>7. Progress' BY <1>1 DEF InboxInv, Progress
<1>8. Commanded' BY <1>1, <1>2 DEF InboxInv, Commanded
<1>9. Photos' BY <1>1 DEF InboxInv, Photos, Pictured
<1>10. Bounds'
  <2>1. faults \in Nat /\ faults' \in Nat /\ faults < faults' BY <1>0, FaultCounts DEF SelectFails
  <2>2. stopping' => handler' = "idle" BY <1>1 DEF InboxInv, Bounds, Resends, SelectFails
  <2> QED BY <1>1, <2>1, <2>2, BoundsKept DEF Working
<1> QED BY <1>4, <1>5, <1>6, <1>7, <1>8, <1>9, <1>10 DEF InboxInv

(* A pass over nothing, or its end.                                         *)
LEMMA EndPassKeeps ==
  ASSUME InboxInv, EndPass
  PROVE  InboxInv'
<1> USE DEF readerVars, drainVars, rowVars
<1>0. TypeOK /\ wq \in Seq(Commands) /\ inbox \in Seq(InboxRows) BY DEF InboxInv, TypeOK
<1>1. /\ drain = "row" /\ drain' \in {"stopped", "idle"}
      /\ UNCHANGED <<readerVars, wq, inbox, final, batch, rowVars, events, files, nextId,
                     enrolled, stopping, faults>>
  BY DEF EndPass
<1>2. /\ \A d \in Range(wq) : d.op = "store"
      /\ \A i \in DOMAIN wq : wq[i].op = "store"
  BY Quiet DEF EndPass
<1>3. TypeOK' BY <1>0, <1>1 DEF TypeOK
<1>4. Delivery' BY <1>1 DEF InboxInv, Delivery
<1>5. Rows' BY <1>1 DEF InboxInv, Rows, Justified, Ingested
<1>6. Progress' BY <1>1 DEF InboxInv, Progress
<1>7. Commanded' BY <1>1, <1>2 DEF InboxInv, Commanded
<1>8. Photos' BY <1>1 DEF InboxInv, Photos, Pictured
<1>9. Bounds'
  <2>1. faults \in Nat /\ (stopping => handler = "idle") BY <1>0 DEF TypeOK, InboxInv, Bounds, Resends
  <2> QED BY <1>1, <2>1, BoundsKept DEF Working
<1> QED BY <1>3, <1>4, <1>5, <1>6, <1>7, <1>8, <1>9 DEF InboxInv

(* A row starts at its first part, with no error seen.                      *)
LEMMA NextRowKeeps ==
  ASSUME InboxInv, NextRow
  PROVE  InboxInv'
<1> USE DEF readerVars, drainVars, rowVars
<1>0. TypeOK /\ wq \in Seq(Commands) /\ inbox \in Seq(InboxRows) BY DEF InboxInv, TypeOK
<1>1. /\ drain = "row" /\ drain' = "part" /\ row' \in batch
      /\ cursor' = 1 /\ transient' = FALSE /\ permanent' = FALSE
      /\ UNCHANGED <<readerVars, wq, inbox, final, batch, events, files, nextId, enrolled,
                     stopping, faults>>
  BY DEF NextRow
<1>2. /\ \A d \in Range(wq) : d.op = "store"
      /\ \A i \in DOMAIN wq : wq[i].op = "store"
  BY Quiet DEF NextRow
<1>3. Len(RowParts') \in Nat
  <2>1. PICK r \in batch : r = row' BY <1>1
  <2>2. inbox[r] \in InboxRows BY <1>0, <2>1 DEF TypeOK
  <2>3. Bodies[inbox[r].body] \in Seq(Parts) BY <2>2, InboxAssumption DEF InboxRows
  <2>4. RowParts' = Bodies[inbox[r].body] BY <1>1, <2>1 DEF RowParts
  <2> QED BY <2>3, <2>4
<1>4. TypeOK' BY <1>0, <1>1 DEF TypeOK
<1>5. Delivery' BY <1>1 DEF InboxInv, Delivery
<1>6. Rows' BY <1>1 DEF InboxInv, Rows, Justified, Ingested
<1>7. Progress'
  <2>1. cursor' \in 1..(Len(RowParts') + 1) BY <1>1, <1>3
  <2>2. 1..(cursor' - 1) = {} BY <1>1
  <2>3. \A r \in batch' : inbox'[r].status = "pending" BY <1>1 DEF InboxInv, Progress
  <2> QED BY <1>1, <2>1, <2>2, <2>3 DEF Progress
<1>8. Commanded' BY <1>1, <1>2 DEF InboxInv, Commanded
<1>9. Photos' BY <1>1 DEF InboxInv, Photos, Pictured
<1>10. Bounds'
  <2>1. faults \in Nat /\ IsFiniteSet(events) BY <1>0 DEF TypeOK, InboxInv, Bounds, PerTry
  <2>2. \A r, p : Counted(r, p)' = Counted(r, p) /\ Counted(r, p) \in Nat
    BY <1>1, <2>1, TriesFinite DEF Counted, Tries
  <2>3. ASSUME NEW r \in DOMAIN inbox, NEW p \in Markings PROVE WithinTries(r, p)'
    <3>1. WithinTries(r, p) BY DEF InboxInv, Bounds, PerTry
    <3>2. PICK n \in Nat : n = Counted(r, p) /\ n = Counted(r, p)' BY <2>2
    <3>3. ~AtWork(r) BY <1>1 DEF AtWork, Working
    <3>4. r = row' => inbox[r].status = "pending" BY <1>1 DEF InboxInv, Progress
    <3> QED BY <1>1, <3>1, <3>2, <3>3, <3>4 DEF WithinTries
  <2>4. PerTry' BY <1>1, <2>1, <2>3 DEF InboxInv, Bounds, PerTry
  <2>5. \A b \in DOMAIN Bodies : Copies(b)' \in Nat /\ Copies(b)' <= Copies(b)
    BY <1>0, <1>1, SameCopies DEF Stored
  <2>6. Resends' BY <1>1, <2>1, <2>5, ResendsKept DEF InboxInv, Bounds, Resends
  <2> QED BY <2>4, <2>6 DEF Bounds
<1> QED BY <1>4, <1>5, <1>6, <1>7, <1>8, <1>9, <1>10 DEF InboxInv

(* A part that is no marking needs no row.                                  *)
LEMMA SkipPartKeeps ==
  ASSUME InboxInv, SkipPart
  PROVE  InboxInv'
<1> USE DEF readerVars, drainVars, rowVars
<1>0. TypeOK /\ wq \in Seq(Commands) /\ inbox \in Seq(InboxRows) BY DEF InboxInv, TypeOK
<1>1. /\ AtPart /\ RowParts[cursor] \notin Markings /\ cursor' = cursor + 1
      /\ permanent' = (permanent \/ RowParts[cursor] \in Unparseable)
      /\ UNCHANGED <<readerVars, wq, inbox, drain, final, batch, row, transient, events, files,
                     nextId, enrolled, stopping, faults>>
  BY DEF SkipPart
<1>2. /\ \A d \in Range(wq) : d.op = "store"
      /\ \A i \in DOMAIN wq : wq[i].op = "store"
  BY Quiet DEF SkipPart, AtPart
<1>3. drain = "part" /\ cursor <= Len(RowParts) BY <1>1 DEF AtPart
<1>4. /\ cursor \in 1..Len(RowParts) /\ cursor' \in 1..(Len(RowParts) + 1) /\ cursor' \in Nat
      /\ row \in batch /\ RowParts' = RowParts
      /\ RowParts[cursor] \in Range(RowParts)
  <2>1. /\ row \in batch /\ Len(RowParts) \in Nat /\ cursor \in 1..(Len(RowParts) + 1)
        /\ Range(RowParts) = {RowParts[k] : k \in 1..Len(RowParts)}
    BY <1>3, AtRow
  <2>2. cursor \in 1..Len(RowParts) /\ cursor' \in 1..(Len(RowParts) + 1) /\ cursor' \in Nat
    BY <1>1, <1>3, <2>1
  <2>3. RowParts[cursor] \in Range(RowParts) BY <2>1, <2>2
  <2>4. RowParts' = RowParts BY <1>1 DEF RowParts
  <2> QED BY <2>1, <2>2, <2>3, <2>4
<1>5. TypeOK' BY <1>0, <1>1, <1>4 DEF TypeOK
<1>6. Delivery' BY <1>1 DEF InboxInv, Delivery
<1>7. Rows' BY <1>1 DEF InboxInv, Rows, Justified, Ingested
<1>8. Progress'
  <2>1. ASSUME NEW p \in Markings, NEW k \in 1..(cursor' - 1), ~transient', RowParts[k] = p
        PROVE  Covered(p)'
    <3>1. k \in 1..(cursor - 1) BY <1>1, <1>4, <2>1
    <3>2. Covered(p) BY <1>1, <1>3, <2>1, <3>1 DEF InboxInv, Progress
    <3> QED BY <1>1, <3>2 DEF Covered
  <2>2. permanent' => Range(RowParts) \cap Unparseable # {}
    BY <1>1, <1>3, <1>4 DEF InboxInv, Progress
  <2>3. \A r \in batch' : inbox'[r].status = "pending" BY <1>1 DEF InboxInv, Progress
  <2> QED BY <1>1, <1>3, <1>4, <2>1, <2>2, <2>3 DEF Progress
<1>9. Commanded' BY <1>1, <1>2 DEF InboxInv, Commanded
<1>10. Photos' BY <1>1 DEF InboxInv, Photos, Pictured
<1>11. Bounds'
  <2>1. faults \in Nat /\ IsFiniteSet(events) BY <1>0 DEF TypeOK, InboxInv, Bounds, PerTry
  <2>2. \A r, p : Counted(r, p)' = Counted(r, p) /\ Counted(r, p) \in Nat
    BY <1>1, <2>1, TriesFinite DEF Counted, Tries
  <2>3. ASSUME NEW r \in DOMAIN inbox, NEW p \in Markings PROVE WithinTries(r, p)'
    <3>1. WithinTries(r, p) BY DEF InboxInv, Bounds, PerTry
    <3>2. PICK n \in Nat : n = Counted(r, p) /\ n = Counted(r, p)' BY <2>2
    <3>3. Passed(p) => Passed(p)' BY <1>1, <1>4 DEF Passed
    <3>4. AtWork(r)' = AtWork(r) BY <1>1 DEF AtWork
    <3> QED BY <1>1, <1>3, <3>1, <3>2, <3>3, <3>4 DEF WithinTries
  <2>4. PerTry' BY <1>1, <2>1, <2>3 DEF InboxInv, Bounds, PerTry
  <2>5. \A b \in DOMAIN Bodies : Copies(b)' \in Nat /\ Copies(b)' <= Copies(b)
    BY <1>0, <1>1, SameCopies DEF Stored
  <2>6. Resends' BY <1>1, <2>1, <2>5, ResendsKept DEF InboxInv, Bounds, Resends
  <2> QED BY <2>4, <2>6 DEF Bounds
<1> QED BY <1>5, <1>6, <1>7, <1>8, <1>9, <1>10, <1>11 DEF InboxInv

(* A part that fails is an error of its row.                                *)
LEMMA PartFailsKeeps ==
  ASSUME InboxInv, PartFails
  PROVE  InboxInv'
<1> USE DEF readerVars, drainVars, rowVars
<1>0. TypeOK /\ wq \in Seq(Commands) /\ inbox \in Seq(InboxRows) BY DEF InboxInv, TypeOK
<1>1. /\ AtPart /\ transient' = TRUE /\ cursor' = cursor + 1
      /\ UNCHANGED <<readerVars, wq, inbox, drain, final, batch, row, permanent, events, files,
                     nextId, enrolled, stopping>>
  BY DEF PartFails
<1>2. /\ \A d \in Range(wq) : d.op = "store"
      /\ \A i \in DOMAIN wq : wq[i].op = "store"
  BY Quiet DEF PartFails, AtPart
<1>3. drain = "part" /\ cursor <= Len(RowParts) BY <1>1 DEF AtPart
<1>4. /\ cursor' \in 1..(Len(RowParts) + 1) /\ cursor' \in Nat
      /\ row \in batch /\ RowParts' = RowParts
  BY <1>1, <1>3, AtRow DEF RowParts
<1>5. faults' \in 0..MaxFaults BY <1>0, InboxAssumption DEF PartFails, Fault, TypeOK
<1>6. TypeOK' BY <1>0, <1>1, <1>4, <1>5 DEF TypeOK
<1>7. Delivery' BY <1>1 DEF InboxInv, Delivery
<1>8. Rows' BY <1>1 DEF InboxInv, Rows, Justified, Ingested
<1>9. Progress' BY <1>1, <1>3, <1>4 DEF InboxInv, Progress
<1>10. Commanded' BY <1>1, <1>2 DEF InboxInv, Commanded
<1>11. Photos' BY <1>1 DEF InboxInv, Photos, Pictured
<1>12. Bounds'
  <2>1. faults \in Nat /\ IsFiniteSet(events) BY <1>0 DEF TypeOK, InboxInv, Bounds, PerTry
  <2>2. \A r, p : Counted(r, p)' = Counted(r, p) /\ Counted(r, p) \in Nat
    BY <1>1, <2>1, TriesFinite DEF Counted, Tries
  <2>3. faults' \in Nat /\ faults' = faults + 1 BY <1>0, FaultCounts DEF PartFails
  <2>4. ASSUME NEW r \in DOMAIN inbox, NEW p \in Markings PROVE WithinTries(r, p)'
    <3>1. WithinTries(r, p) BY DEF InboxInv, Bounds, PerTry
    <3>2. PICK n \in Nat : n = Counted(r, p) /\ n = Counted(r, p)' BY <2>2
    <3>3. Passed(p) => Passed(p)' BY <1>1, <1>4, <1>3, AtRow DEF Passed
    <3>4. AtWork(r)' = AtWork(r) BY <1>1, <1>3 DEF AtWork, Working
    <3> QED BY <1>1, <1>3, <2>1, <2>3, <3>1, <3>2, <3>3, <3>4 DEF WithinTries
  <2>5. PerTry' BY <1>1, <2>1, <2>4 DEF InboxInv, Bounds, PerTry
  <2>6. \A b \in DOMAIN Bodies : Copies(b)' \in Nat /\ Copies(b)' <= Copies(b)
    BY <1>0, <1>1, SameCopies DEF Stored
  <2>7. Resends' BY <1>1, <2>1, <2>3, <2>6, ResendsKept DEF InboxInv, Bounds, Resends
  <2> QED BY <2>5, <2>7 DEF Bounds
<1> QED BY <1>6, <1>7, <1>8, <1>9, <1>10, <1>11, <1>12 DEF InboxInv


(* The photo is on disk and the name taken before the row is asked for.     *)
LEMMA IngestPartKeeps ==
  ASSUME InboxInv, IngestPart
  PROVE  InboxInv'
<1> USE DEF readerVars, drainVars, rowVars
<1>0. TypeOK /\ wq \in Seq(Commands) /\ inbox \in Seq(InboxRows) BY DEF InboxInv, TypeOK
<1>1. UNCHANGED <<readerVars, inbox, final, batch, rowVars, events, enrolled, stopping, faults>>
  BY DEF IngestPart
<1>p. PICK p : p = RowParts[cursor] OBVIOUS
<1>2. /\ drain = "part" /\ cursor <= Len(RowParts) /\ drain' = "persist"
      /\ p \in Markings /\ nextId' = nextId + 1
      /\ files' = IF p \in WithPhoto THEN files \cup {nextId} ELSE files
  BY <1>p DEF IngestPart, AtPart
<1>b. PICK b \in Buckets[p] :
        wq' = Append(wq, [op |-> "event", event |->
                [id |-> nextId, part |-> p, row |-> row, bucket |-> b,
                 who |-> IF Person[p] \in enrolled THEN Person[p] ELSE Nobody]])
  BY <1>p DEF IngestPart
<1>e. PICK e :
        e = [id |-> nextId, part |-> p, row |-> row, bucket |-> b,
             who |-> IF Person[p] \in enrolled THEN Person[p] ELSE Nobody]
  OBVIOUS
<1>c. PICK c : c = [op |-> "event", event |-> e] OBVIOUS
<1>3. /\ row \in batch /\ row \in Nat /\ Len(RowParts) \in Nat
      /\ cursor \in 1..(Len(RowParts) + 1)
  BY <1>2, AtRow
<1>4. /\ e.id = nextId /\ e.part = p /\ e.row = row /\ e.bucket = b /\ e.who \in {Person[p], Nobody}
      /\ c.op = "event" /\ c.event = e
  BY <1>e, <1>c
<1>5. p \in Parts /\ nextId \in Nat BY <1>0, <1>2 DEF Markings, TypeOK
<1>6. e \in EventRows
  <2>1. b \in UNION {Buckets[q] : q \in Parts} BY <1>b, <1>5
  <2>2. (IF Person[p] \in enrolled THEN Person[p] ELSE Nobody) \in People \cup {Nobody}
    BY <1>5 DEF People
  <2> QED BY <1>3, <1>5, <1>e, <2>1, <2>2 DEF EventRows
<1>7. c \in Commands BY <1>6, <1>c DEF Commands
<1>8. Joined(c) BY <1>0, <1>7, <1>b, <1>c, <1>e, Admits
<1>9. /\ \A d \in Range(wq) : d.op = "store"
      /\ \A i \in DOMAIN wq : wq[i].op = "store"
  BY <1>2, Quiet
<1>10. RowParts' = RowParts BY <1>1 DEF RowParts
<1>11. TypeOK' BY <1>0, <1>1, <1>2, <1>3, <1>5, <1>8 DEF TypeOK, Joined
<1>12. Delivery'
  <2>1. \A i \in DOMAIN wq' : Waits(wq'[i]) => i \in DOMAIN wq /\ wq'[i] = wq[i]
    BY <1>4, <1>8 DEF Joined, Waits
  <2> QED BY <1>1, <2>1 DEF InboxInv, Delivery, Waits
<1>13. Rows' BY <1>1 DEF InboxInv, Rows, Justified, Ingested
<1>14. Progress'
  <2>1. ASSUME NEW q \in Markings, NEW k \in 1..(cursor' - 1), ~transient', RowParts[k] = q
        PROVE  Covered(q)'
    <3>1. Covered(q) BY <1>1, <1>2, <2>1 DEF InboxInv, Progress
    <3> QED BY <1>1, <3>1 DEF Covered
  <2>2. permanent' => Range(RowParts) \cap Unparseable # {}
    BY <1>1, <1>2 DEF InboxInv, Progress
  <2>3. \A r \in batch' : inbox'[r].status = "pending" BY <1>1 DEF InboxInv, Progress
  <2> QED BY <1>1, <1>2, <1>3, <1>10, <2>1, <2>2, <2>3 DEF Progress
<1>15. Commanded'
  <2>1. OwnEvent(e)' BY <1>1, <1>2, <1>4, <1>10, <1>b, <1>p DEF OwnEvent
  <2>2. \A d \in Range(wq') : d = c \/ d.op = "store" BY <1>8, <1>9 DEF Joined
  <2>3. \A i \in DOMAIN wq' : wq'[i].op # "store" => i = Len(wq) + 1
    BY <1>8, <1>9 DEF Joined
  <2> QED BY <1>4, <2>1, <2>2, <2>3 DEF Commanded
<1>16. Photos'
  <2>1. \A f \in events : f.id < nextId /\ f.id \in Nat
    BY <1>0 DEF InboxInv, Photos, Pictured, TypeOK, EventRows
  <2>2. \A f \in events : Pictured(f)' /\ f.id # e.id
    BY <1>2, <1>4, <1>5, <2>1 DEF InboxInv, Photos, Pictured
  <2>3. \A f \in files : f < nextId /\ f \in Nat BY <1>0 DEF InboxInv, Photos, TypeOK
  <2>4. Pictured(e)'
    BY <1>2, <1>4, <1>5, <2>3 DEF Pictured
  <2>5. \A f \in files' : f < nextId' BY <1>2, <1>5, <2>3
  <2>6. \A d \in Range(wq') : d = c \/ d.op = "store" BY <1>8, <1>9 DEF Joined
  <2> QED BY <1>1, <1>4, <2>2, <2>4, <2>5, <2>6 DEF InboxInv, Photos
<1>17. Bounds'
  <2>1. faults \in Nat /\ IsFiniteSet(events) BY <1>0 DEF TypeOK, InboxInv, Bounds, PerTry
  <2>2. ASSUME NEW r, NEW q PROVE Counted(r, q)' = Counted(r, q) /\ Counted(r, q) \in Nat
    <3>1. Tries(r, q)' = Tries(r, q) BY <1>1 DEF Tries
    <3> QED BY <2>1, <3>1, TriesFinite DEF Counted
  <2>3. ASSUME NEW r \in DOMAIN inbox, NEW q \in Markings PROVE WithinTries(r, q)'
    <3>1. WithinTries(r, q) BY DEF InboxInv, Bounds, PerTry
    <3>2. PICK n \in Nat : n = Counted(r, q) /\ n = Counted(r, q)' BY <2>2
    <3>3. Passed(q)' = Passed(q) BY <1>1, <1>10 DEF Passed
    <3>4. AtWork(r)' = AtWork(r) BY <1>1, <1>2 DEF AtWork, Working
    <3> QED BY <1>1, <1>2, <3>1, <3>2, <3>3, <3>4 DEF WithinTries
  <2>4. PerTry' BY <1>1, <2>1, <2>3 DEF InboxInv, Bounds, PerTry
  <2>5. \A x \in DOMAIN Bodies : Copies(x)' \in Nat /\ Copies(x)' <= Copies(x)
    BY <1>0, <1>1, <1>4, <1>8, SameCopies DEF Stored
  <2>6. Resends' BY <1>1, <2>1, <2>5, ResendsKept DEF InboxInv, Bounds, Resends
  <2> QED BY <2>4, <2>6 DEF Bounds
<1> QED BY <1>11, <1>12, <1>13, <1>14, <1>15, <1>16, <1>17 DEF InboxInv

(* The verdict on a row: done only when every marking of it has a row in    *)
(* attendance_events.                                                       *)
LEMMA VerdictIsJustified ==
  ASSUME InboxInv, drain = "part", cursor > Len(RowParts)
  PROVE  /\ Verdict.status \in Statuses /\ Verdict.attempts \in 0..MaxAttempts
         /\ Justified(row, Verdict.status, Verdict.attempts)
<1>1. /\ inbox[row].attempts \in 0..MaxAttempts /\ inbox[row].attempts < MaxAttempts
      /\ Range(RowParts) = {RowParts[k] : k \in 1..Len(RowParts)}
      /\ Len(RowParts) \in Nat /\ cursor \in 1..(Len(RowParts) + 1)
  BY AtRow
<1>2. cursor - 1 = Len(RowParts) BY <1>1
<1>3. transient \/ Ingested(row)
  <2>1. ASSUME ~transient, NEW p \in Range(RowParts) \cap Markings PROVE Covered(p)
    <3>1. PICK k \in 1..Len(RowParts) : RowParts[k] = p BY <1>1, <2>1
    <3> QED BY <1>2, <2>1, <3>1 DEF InboxInv, Progress
  <2> QED BY <2>1 DEF Ingested, Covered, RowParts
<1>4. permanent => Range(Bodies[inbox[row].body]) \cap Unparseable # {}
  BY DEF InboxInv, Progress, RowParts
<1>5. PICK v : v = Verdict OBVIOUS
<1>6. CASE transient
  <2>1. /\ v.attempts = inbox[row].attempts + 1
        /\ v.status = IF inbox[row].attempts + 1 >= MaxAttempts THEN "failed" ELSE "pending"
    BY <1>5, <1>6 DEF Verdict
  <2>2. v.attempts \in 0..MaxAttempts BY <1>1, <2>1, InboxAssumption
  <2>3. v.status = "failed" => v.attempts = MaxAttempts
    <3>1. v.status = "failed" => inbox[row].attempts + 1 >= MaxAttempts BY <2>1
    <3>2. inbox[row].attempts + 1 >= MaxAttempts => inbox[row].attempts + 1 = MaxAttempts
      <4>1. PICK a : a = inbox[row].attempts OBVIOUS
      <4>2. a \in Nat /\ a < MaxAttempts BY <1>1, <4>1
      <4>3. MaxAttempts \in Nat BY InboxAssumption
      <4>4. a + 1 >= MaxAttempts => a + 1 = MaxAttempts BY ONLY <4>2, <4>3
      <4> QED BY <4>1, <4>4
    <3> QED BY <2>1, <3>1, <3>2
  <2>4. v.status = "pending" => v.attempts < MaxAttempts BY <1>1, <2>1, InboxAssumption
  <2>5. v.status \in Statuses /\ v.status # "done" BY <2>1 DEF Statuses
  <2> QED BY <1>5, <2>2, <2>3, <2>4, <2>5 DEF Justified
<1>7. CASE ~transient
  <2>1. /\ v.attempts = inbox[row].attempts
        /\ v.status = IF permanent THEN "failed" ELSE "done"
    BY <1>5, <1>7 DEF Verdict
  <2>2. v.status \in Statuses /\ v.status # "pending" BY <2>1 DEF Statuses
  <2> QED BY <1>1, <1>3, <1>4, <1>5, <1>7, <2>1, <2>2 DEF Justified
<1> QED BY <1>6, <1>7

(* The verdict is asked for: the row changes with the write.                *)
LEMMA ResolveKeeps ==
  ASSUME InboxInv, Resolve
  PROVE  InboxInv'
<1> USE DEF readerVars, drainVars, rowVars
<1>0. TypeOK /\ wq \in Seq(Commands) /\ inbox \in Seq(InboxRows) BY DEF InboxInv, TypeOK
<1>1. /\ drain = "part" /\ cursor > Len(RowParts) /\ drain' = "mark"
      /\ UNCHANGED <<readerVars, inbox, final, batch, rowVars, events, files, nextId,
                     enrolled, stopping, faults>>
  BY DEF Resolve
<1>v. PICK v : v = Verdict OBVIOUS
<1>c. PICK c : c = [op |-> "mark", row |-> row, status |-> v.status, attempts |-> v.attempts]
  OBVIOUS
<1>2. wq' = Append(wq, c) BY <1>c, <1>v DEF Resolve
<1>3. /\ v.status \in Statuses /\ v.attempts \in 0..MaxAttempts
      /\ Justified(row, v.status, v.attempts)
  BY <1>1, <1>v, VerdictIsJustified
<1>4. row \in batch /\ row \in Nat BY <1>1, AtRow
<1>5. c \in Commands BY <1>3, <1>4, <1>c DEF Commands
<1>6. Joined(c) BY <1>0, <1>2, <1>5, Admits
<1>7. c.op = "mark" /\ c.row = row /\ c.status = v.status /\ c.attempts = v.attempts
  BY <1>c
<1>8. /\ \A d \in Range(wq) : d.op = "store"
      /\ \A i \in DOMAIN wq : wq[i].op = "store"
  BY <1>1, Quiet
<1>9. TypeOK' BY <1>0, <1>1, <1>4, <1>6 DEF TypeOK, Joined
<1>10. Delivery'
  <2>1. \A i \in DOMAIN wq' : Waits(wq'[i]) => i \in DOMAIN wq /\ wq'[i] = wq[i]
    BY <1>6, <1>7 DEF Joined, Waits
  <2> QED BY <1>1, <2>1 DEF InboxInv, Delivery, Waits
<1>11. Rows' BY <1>1 DEF InboxInv, Rows, Justified, Ingested
<1>12. Progress' BY <1>1 DEF InboxInv, Progress
<1>13. Commanded'
  <2>1. OwnMark(c)' BY <1>1, <1>3, <1>7 DEF OwnMark, Justified, Ingested
  <2>2. \A d \in Range(wq') : d = c \/ d.op = "store" BY <1>6, <1>8 DEF Joined
  <2>3. \A i \in DOMAIN wq' : wq'[i].op # "store" => i = Len(wq) + 1
    BY <1>6, <1>8 DEF Joined
  <2> QED BY <1>7, <2>1, <2>2, <2>3 DEF Commanded
<1>14. Photos'
  <2>1. \A d \in Range(wq') : d = c \/ d.op = "store" BY <1>6, <1>8 DEF Joined
  <2> QED BY <1>1, <1>7, <2>1 DEF InboxInv, Photos, Pictured
<1>15. Bounds'
  <2>1. faults \in Nat /\ IsFiniteSet(events) BY <1>0 DEF TypeOK, InboxInv, Bounds, PerTry
  <2>2. \A r, p : Counted(r, p)' = Counted(r, p) /\ Counted(r, p) \in Nat
    BY <1>1, <2>1, TriesFinite DEF Counted, Tries
  <2>3. c.status = "pending" => transient BY <1>7, <1>v DEF Verdict
  <2>4. \A d \in Range(wq') : d = c \/ d.op = "store" BY <1>6, <1>8 DEF Joined
  <2>5. ASSUME NEW r \in DOMAIN inbox, NEW p \in Markings PROVE WithinTries(r, p)'
    <3>1. WithinTries(r, p) BY DEF InboxInv, Bounds, PerTry
    <3>2. PICK n \in Nat : n = Counted(r, p) /\ n = Counted(r, p)' BY <2>2
    <3>3. AtWork(r)' = AtWork(r) BY <1>1 DEF AtWork, Working
    <3> QED BY <1>1, <2>3, <2>4, <3>1, <3>2, <3>3 DEF WithinTries
  <2>6. PerTry' BY <1>1, <2>1, <2>5 DEF InboxInv, Bounds, PerTry
  <2>7. \A b \in DOMAIN Bodies : Copies(b)' \in Nat /\ Copies(b)' <= Copies(b)
    BY <1>0, <1>1, <1>6, <1>7, SameCopies DEF Stored
  <2>8. Resends' BY <1>1, <2>1, <2>7, ResendsKept DEF InboxInv, Bounds, Resends
  <2> QED BY <2>6, <2>8 DEF Bounds
<1> QED BY <1>9, <1>10, <1>11, <1>12, <1>13, <1>14, <1>15 DEF InboxInv

-----------------------------------------------------------------------------
(* The environment.                                                         *)

(* Who is enrolled only decides the names of events to come.                *)
LEMMA EnrollKeeps ==
  ASSUME InboxInv, NEW person \in {Person[p] : p \in Markings}, Enroll(person)
  PROVE  InboxInv'
<1> USE DEF readerVars, drainVars, rowVars
<1>0. TypeOK /\ wq \in Seq(Commands) /\ inbox \in Seq(InboxRows) BY DEF InboxInv, TypeOK
<1>1. UNCHANGED <<readerVars, wq, inbox, drainVars, events, files, nextId, stopping, faults>>
  BY DEF Enroll
<1>2. enrolled' \subseteq People BY <1>0 DEF Enroll, TypeOK, People, Markings
<1>3. TypeOK' BY <1>0, <1>1, <1>2 DEF TypeOK
<1>4. Delivery' BY <1>1 DEF InboxInv, Delivery
<1>5. Rows' BY <1>1 DEF InboxInv, Rows, Justified, Ingested
<1>6. Progress' BY <1>1 DEF InboxInv, Progress, RowParts, Covered
<1>7. Commanded'
  <2>1. ASSUME NEW e, OwnEvent(e) PROVE OwnEvent(e)' BY <1>1, <2>1 DEF OwnEvent, RowParts
  <2>2. ASSUME NEW m, OwnMark(m) PROVE OwnMark(m)'
    BY <1>1, <2>2 DEF OwnMark, Justified, Ingested
  <2> QED BY <1>1, <2>1, <2>2 DEF InboxInv, Commanded
<1>8. Photos' BY <1>1 DEF InboxInv, Photos, Pictured
<1>9. Bounds'
  <2>1. faults \in Nat /\ (stopping => handler = "idle") BY <1>0 DEF TypeOK, InboxInv, Bounds, Resends
  <2> QED BY <1>1, <2>1, BoundsKept DEF Working
<1> QED BY <1>3, <1>4, <1>5, <1>6, <1>7, <1>8, <1>9 DEF InboxInv

(* The token only tells the worker to finish.                               *)
LEMMA ShutdownKeeps ==
  ASSUME InboxInv, Shutdown
  PROVE  InboxInv'
<1> USE DEF readerVars, drainVars, rowVars
<1>0. TypeOK /\ wq \in Seq(Commands) /\ inbox \in Seq(InboxRows) BY DEF InboxInv, TypeOK
<1>1. UNCHANGED <<readerVars, wq, inbox, drainVars, events, files, nextId, enrolled>>
  BY DEF Shutdown
<1>2. stopping' \in BOOLEAN /\ faults' \in 0..MaxFaults
  BY <1>0, InboxAssumption DEF Shutdown, Fault, TypeOK
<1>3. TypeOK' BY <1>0, <1>1, <1>2 DEF TypeOK
<1>4. Delivery' BY <1>1 DEF InboxInv, Delivery
<1>5. Rows' BY <1>1 DEF InboxInv, Rows, Justified, Ingested
<1>6. Progress' BY <1>1 DEF InboxInv, Progress, RowParts, Covered
<1>7. Commanded'
  <2>1. ASSUME NEW e, OwnEvent(e) PROVE OwnEvent(e)' BY <1>1, <2>1 DEF OwnEvent, RowParts
  <2>2. ASSUME NEW m, OwnMark(m) PROVE OwnMark(m)'
    BY <1>1, <2>2 DEF OwnMark, Justified, Ingested
  <2> QED BY <1>1, <2>1, <2>2 DEF InboxInv, Commanded
<1>8. Photos' BY <1>1 DEF InboxInv, Photos, Pictured
<1>9. Bounds'
  <2>1. faults \in Nat /\ faults' \in Nat /\ faults < faults' BY <1>0, FaultCounts DEF Shutdown
  <2>2. stopping' => handler' = "idle" BY <1>1 DEF InboxInv, Bounds, Resends, Shutdown
  <2> QED BY <1>1, <2>1, <2>2, BoundsKept DEF Working
<1> QED BY <1>3, <1>4, <1>5, <1>6, <1>7, <1>8, <1>9 DEF InboxInv

(* Tables and files are as good without the memory of the process.          *)
LEMMA BootKeeps ==
  ASSUME InboxInv, Boot, faults' \in 0..MaxFaults,
         \/ faults' = faults + 1
         \/ faults' = faults /\ stopping /\ drain \in {"stopped", "dead"}
  PROVE  InboxInv'
<1> USE DEF readerVars, drainVars, rowVars
<1>0. TypeOK /\ wq \in Seq(Commands) /\ inbox \in Seq(InboxRows) BY DEF InboxInv, TypeOK
<1>1. /\ handler' = "idle" /\ wq' = <<>> /\ drain' = "idle" /\ batch' = {} /\ row' = 0
      /\ final' = FALSE
      /\ cursor' = 1 /\ transient' = FALSE /\ permanent' = FALSE /\ stopping' = FALSE
      /\ UNCHANGED <<head, inbox, events, files, nextId, enrolled>>
  BY DEF Boot
<1>2. wq' \in Seq(Commands) /\ DOMAIN wq' = {} BY <1>1
<1>3. Range(wq') = {} BY <1>2 DEF Range
<1>4. TypeOK' BY <1>0, <1>1, <1>2 DEF TypeOK
<1>5. Delivery' BY <1>1, <1>2 DEF InboxInv, Delivery
<1>6. Rows' BY <1>1 DEF InboxInv, Rows, Justified, Ingested
<1>7. Progress' BY <1>1 DEF Progress
<1>8. Commanded' BY <1>2, <1>3 DEF Commanded
<1>9. Photos' BY <1>1, <1>3 DEF InboxInv, Photos, Pictured
<1>10. Bounds'
  <2>1. faults \in Nat /\ IsFiniteSet(events) BY <1>0 DEF TypeOK, InboxInv, Bounds, PerTry
  <2>2. \A r, p : Counted(r, p)' = Counted(r, p) /\ Counted(r, p) \in Nat
    BY <1>1, <2>1, TriesFinite DEF Counted, Tries
  <2>3. faults' \in Nat /\ faults <= faults' BY <1>0, InboxAssumption DEF TypeOK
  <2>4. ASSUME NEW r \in DOMAIN inbox, NEW p \in Markings PROVE WithinTries(r, p)'
    <3>1. WithinTries(r, p) BY DEF InboxInv, Bounds, PerTry
    <3>2. PICK n \in Nat : n = Counted(r, p) /\ n = Counted(r, p)' BY <2>2
    <3>3. faults' = faults => ~AtWork(r) BY <2>1 DEF AtWork, Working
    <3> QED BY <1>1, <2>1, <2>3, <3>1, <3>2, <3>3 DEF WithinTries
  <2>5. PerTry' BY <1>1, <2>1, <2>4 DEF InboxInv, Bounds, PerTry
  <2>6. \A b : Queued(wq', b) = {} BY <1>2 DEF Queued
  <2>7. \A b \in DOMAIN Bodies : Copies(b)' \in Nat /\ Copies(b)' <= Copies(b)
    BY <1>0, <1>1, <1>2, <2>6, SameCopies DEF Stored
  <2>8. faults' = faults => handler = "idle" BY <2>1 DEF InboxInv, Bounds, Resends
  <2>9. Resends' BY <1>1, <2>1, <2>3, <2>7, <2>8, ResendsKept
  <2> QED BY <2>5, <2>9 DEF Bounds
<1> QED BY <1>4, <1>5, <1>6, <1>7, <1>8, <1>9, <1>10 DEF InboxInv

(* Nothing has been pushed yet.                                             *)
LEMMA InboxStarts ==
  ASSUME Init
  PROVE  InboxInv
<1>1. wq \in Seq(Commands) /\ DOMAIN wq = {} BY DEF Init
<1>2. Range(wq) = {} BY <1>1 DEF Range
<1>3. inbox \in Seq(InboxRows) /\ DOMAIN inbox = {} BY DEF Init
<1>4. enrolled \subseteq People BY DEF Init, People, Markings
<1>5. Len(Bodies) \in Nat /\ MaxFaults \in Nat BY InboxAssumption
<1>6. TypeOK
  <2>1. \A r \in DOMAIN inbox :
          inbox[r].status = "pending" => inbox[r].attempts < MaxAttempts
    BY <1>3
  <2>2. head \in 1..(Len(Bodies) + 1) /\ cursor \in Nat /\ nextId \in Nat /\ faults \in 0..MaxFaults
    BY <1>5 DEF Init
  <2>3. /\ handler \in {"idle", "waiting", "stored", "refused"}
        /\ drain \in {"idle", "row", "part", "persist", "mark", "dead", "stopped"}
        /\ batch \subseteq DOMAIN inbox /\ final \in BOOLEAN
        /\ drain \notin {"part", "persist", "mark"}
        /\ transient \in BOOLEAN /\ permanent \in BOOLEAN /\ stopping \in BOOLEAN
        /\ events \subseteq EventRows /\ files \subseteq Nat
    BY DEF Init
  <2> QED BY <1>1, <1>3, <1>4, <2>1, <2>2, <2>3 DEF TypeOK
<1>7. Delivery BY <1>1 DEF Init, Delivery
<1>8. Rows BY <1>3 DEF Rows
<1>9. Progress BY DEF Init, Progress
<1>10. Commanded BY <1>1, <1>2 DEF Commanded
<1>11. Photos BY <1>2 DEF Init, Photos
<1>12. Bounds
  <2>1. events = {} /\ IsFiniteSet(events) BY FS_EmptySet DEF Init
  <2>2. PerTry BY <1>3, <2>1 DEF PerTry
  <2>3. \A b : Queued(wq, b) = {} /\ Stored(b) = {} BY <1>1, <1>3 DEF Queued, Stored
  <2>4. \A b : Copies(b) = 0 BY <2>3, FS_EmptySet DEF Copies
  <2>5. Resends BY <2>4 DEF Init, Resends, WithinResends
  <2> QED BY <2>2, <2>5 DEF Bounds
<1> QED BY <1>6, <1>7, <1>8, <1>9, <1>10, <1>11, <1>12 DEF InboxInv

(* A stutter changes nothing the invariant reads.                           *)
LEMMA InboxStutters ==
  ASSUME InboxInv, UNCHANGED vars
  PROVE  InboxInv'
<1> USE DEF vars
<1> USE DEF readerVars, drainVars, rowVars
<1>0. TypeOK /\ wq \in Seq(Commands) /\ inbox \in Seq(InboxRows) BY DEF InboxInv, TypeOK
<1>1. UNCHANGED <<readerVars, wq, inbox, drainVars, events, files, nextId, enrolled, stopping,
                faults>>
  BY DEF vars
<1>2. TypeOK' BY <1>0, <1>1 DEF TypeOK
<1>3. Delivery' BY <1>1 DEF InboxInv, Delivery
<1>4. Rows' BY <1>1 DEF InboxInv, Rows, Justified, Ingested
<1>5. Progress' BY <1>1 DEF InboxInv, Progress, RowParts, Covered
<1>6. Commanded'
  <2>1. ASSUME NEW e, OwnEvent(e) PROVE OwnEvent(e)' BY <1>1, <2>1 DEF OwnEvent, RowParts
  <2>2. ASSUME NEW m, OwnMark(m) PROVE OwnMark(m)'
    BY <1>1, <2>2 DEF OwnMark, Justified, Ingested
  <2> QED BY <1>1, <2>1, <2>2 DEF InboxInv, Commanded
<1>7. Photos' BY <1>1 DEF InboxInv, Photos, Pictured
<1>8. Bounds'
  <2>1. faults \in Nat /\ (stopping => handler = "idle") BY <1>0 DEF TypeOK, InboxInv, Bounds, Resends
  <2> QED BY <1>1, <2>1, BoundsKept DEF Working
<1> QED BY <1>2, <1>3, <1>4, <1>5, <1>6, <1>7, <1>8 DEF InboxInv

-----------------------------------------------------------------------------
(* The specification.                                                       *)

(* Every action keeps the invariant.                                        *)
LEMMA InboxStep ==
  ASSUME InboxInv, [Next]_vars
  PROVE  InboxInv'
<1>1. CASE Push BY <1>1, PushKeeps
<1>2. CASE Ack BY <1>2, AckKeeps
<1>3. CASE Unavailable BY <1>3, UnavailableKeeps
<1>4. CASE Disconnect BY <1>4, DisconnectKeeps
<1>5. CASE StoreRow BY <1>5, StoreRowKeeps
<1>6. CASE StoreFails BY <1>6, StoreFailsKeeps
<1>7. CASE InsertEvent BY <1>7, InsertEventKeeps
<1>8. CASE InsertFails BY <1>8, InsertFailsKeeps
<1>9. CASE MarkRow BY <1>9, MarkRowKeeps
<1>10. CASE MarkFails BY <1>10, MarkFailsKeeps
<1>11. CASE StartPass BY <1>11, StartPassKeeps
<1>12. CASE SelectFails BY <1>12, SelectFailsKeeps
<1>13. CASE NextRow BY <1>13, NextRowKeeps
<1>14. CASE EndPass BY <1>14, EndPassKeeps
<1>15. CASE SkipPart BY <1>15, SkipPartKeeps
<1>16. CASE PartFails BY <1>16, PartFailsKeeps
<1>17. CASE IngestPart BY <1>17, IngestPartKeeps
<1>18. CASE Resolve BY <1>18, ResolveKeeps
<1>19. CASE Shutdown BY <1>19, ShutdownKeeps
<1>20. CASE Crash
  <2>1. Boot /\ faults' \in 0..MaxFaults /\ faults' = faults + 1
    BY <1>20, InboxAssumption DEF Crash, Fault, InboxInv, TypeOK
  <2> QED BY <2>1, BootKeeps
<1>21. CASE Restart
  <2>1. /\ Boot /\ faults' \in 0..MaxFaults /\ faults' = faults
        /\ stopping /\ drain \in {"stopped", "dead"}
    BY <1>21 DEF Restart, InboxInv, TypeOK
  <2> QED BY <2>1, BootKeeps
<1>22. CASE \E person \in {Person[p] : p \in Markings} : Enroll(person)
  BY <1>22, EnrollKeeps
<1>23. CASE UNCHANGED vars BY <1>23, InboxStutters
<1> QED
  BY <1>1, <1>2, <1>3, <1>4, <1>5, <1>6, <1>7, <1>8, <1>9, <1>10, <1>11, <1>12,
     <1>13, <1>14, <1>15, <1>16, <1>17, <1>18, <1>19, <1>20, <1>21, <1>22, <1>23
  DEF Next, HandlerStep, WriterStep, DrainStep, FaultStep

(* Every reachable state of the push path satisfies the invariant.          *)
THEOREM InboxIsInvariant == Spec => []InboxInv
<1>1. Init => InboxInv BY InboxStarts
<1>2. InboxInv /\ [Next]_vars => InboxInv' BY InboxStep
<1> QED BY <1>1, <1>2, PTL DEF Spec

(* "200 means received and safe": whatever faults, a body the reader has     *)
(* dropped is in the inbox, a row is done only once every marking of it is   *)
(* in attendance_events, and given up only after MaxAttempts tries or for a  *)
(* part that no parser takes.                                                *)
THEOREM AckedIsSafeHolds == Spec => []AckedIsSafe
<1>1. InboxInv => AckedIsSafe
  <2> SUFFICES ASSUME InboxInv PROVE AckedIsSafe OBVIOUS
  <2>1. TypeOK BY DEF InboxInv
  <2>2. \A b \in 1..(head - 1) : \E r \in DOMAIN inbox : inbox[r].body = b
    BY DEF InboxInv, Delivery
  <2>3. \A r \in DOMAIN inbox :
          /\ inbox[r].status = "done" => Ingested(r)
          /\ inbox[r].status = "failed" =>
               \/ inbox[r].attempts = MaxAttempts
               \/ Range(Bodies[inbox[r].body]) \cap Unparseable # {} /\ Ingested(r)
    BY DEF InboxInv, Rows, Justified
  <2> QED BY <2>1, <2>2, <2>3 DEF AckedIsSafe
<1> QED BY <1>1, InboxIsInvariant, PTL

(* A marking of a stored push is counted once and then once more at most for *)
(* each fault that makes the row be tried again, whether or not its face is  *)
(* known and its date given; and likewise a push is stored once, and once    *)
(* more for each answer the reader missed.                                   *)
THEOREM CountedOncePerTryHolds == Spec => []CountedOncePerTry
<1>1. InboxInv => CountedOncePerTry
  <2> SUFFICES ASSUME InboxInv PROVE CountedOncePerTry OBVIOUS
  <2>1. \A r \in DOMAIN inbox, p \in Markings : Cardinality(Tries(r, p)) <= 1 + faults
    BY DEF InboxInv, Bounds, PerTry, WithinTries, Counted
  <2>2. ASSUME NEW b \in DOMAIN Bodies PROVE Cardinality(Stored(b)) <= 1 + faults
    <3>1. wq \in Seq(Commands) /\ inbox \in Seq(InboxRows) /\ faults \in Nat
      BY DEF InboxInv, TypeOK
    <3>2. Cardinality(Stored(b)) \in Nat /\ Cardinality(Queued(wq, b)) \in Nat
      BY <3>1, QueuedFinite, StoredFinite DEF Stored, StoredIn
    <3>3. Copies(b) <= 1 + faults BY DEF InboxInv, Bounds, Resends, WithinResends
    <3> QED BY <3>1, <3>2, <3>3 DEF Copies
  <2> QED BY <2>1, <2>2 DEF CountedOncePerTry
<1> QED BY <1>1, InboxIsInvariant, PTL

-----------------------------------------------------------------------------
(* Photos.                                                                  *)

(* The photos of the ingestion under way are those of the event commands.   *)
LEMMA UnderwayInQueue ==
  /\ \A x : x \in Underway <=> \E c \in Range(wq) : c.op = "event" /\ c.event.id = x
  /\ \A x : x \in Underway' <=> \E c \in Range(wq') : c.op = "event" /\ c.event.id = x
BY DEF Underway, Range

(* No photo is orphaned when those that go on belonging to nothing did so   *)
(* before.                                                                  *)
LEMMA NoneOrphaned ==
  ASSUME \A x \in files' : x \in files \/ x \in Underway',
         \A x \in files' : x \in Kept => x \in Kept',
         \A x \in files' : x \in Underway => x \in Underway' \/ x \in Kept'
  PROVE  Orphans' \subseteq Orphans
BY DEF Orphans

(* A step that only adds to the queue, or takes a command without a photo.  *)
LEMMA QueueStep ==
  ASSUME UNCHANGED <<files, events>>,
         \A c \in Range(wq) : c.op = "event" => c \in Range(wq')
  PROVE  Orphans' \subseteq Orphans
<1>1. Kept' = Kept BY DEF Kept
<1>2. \A x \in Underway : x \in Underway' BY UnderwayInQueue
<1> QED BY <1>1, <1>2, NoneOrphaned

(* The steps that touch neither files nor events.                           *)
LEMMA QuietSteps ==
  ASSUME InboxInv,
         \/ Push \/ Ack \/ Unavailable \/ Disconnect \/ StoreRow \/ StoreFails
         \/ MarkRow \/ MarkFails \/ StartPass \/ SelectFails \/ NextRow \/ EndPass
         \/ SkipPart \/ PartFails \/ Resolve \/ Shutdown \/ Restart \/ UNCHANGED vars
         \/ \E person \in {Person[p] : p \in Markings} : Enroll(person)
  PROVE  Orphans' \subseteq Orphans
<1> USE DEF readerVars, drainVars, rowVars
<1>0. wq \in Seq(Commands) BY DEF InboxInv, TypeOK
<1>1. ASSUME NEW c \in Commands, wq' = Append(wq, c), UNCHANGED <<files, events>>
      PROVE  Orphans' \subseteq Orphans
  <2>1. Joined(c) BY <1>0, <1>1, Admits
  <2> QED BY <1>1, <2>1, QueueStep DEF Joined
<1>2. ASSUME NEW op, Executing(op), op # "event", UNCHANGED <<files, events>>
      PROVE  Orphans' \subseteq Orphans
  <2>1. PICK c : c = Head(wq) OBVIOUS
  <2>2. Left(c) /\ c.op = op BY <1>0, <1>2, <2>1, Takes
  <2>3. \A d \in Range(wq) : d.op = "event" => d \in Range(wq') BY <1>2, <2>2 DEF Left
  <2> QED BY <1>2, <2>3, QueueStep
<1>3. CASE Push
  <2>1. PICK c : c = [op |-> "store", body |-> head, caller |-> "handler"] OBVIOUS
  <2>2. head \in DOMAIN Bodies BY <1>3, InboxAssumption DEF Push, InboxInv, TypeOK
  <2>3. c \in Commands BY <2>1, <2>2 DEF Commands
  <2> QED BY <1>1, <1>3, <2>1, <2>3 DEF Push
<1>4. CASE Resolve
  <2>1. PICK v : v = Verdict OBVIOUS
  <2>2. PICK c : c = [op |-> "mark", row |-> row, status |-> v.status,
                      attempts |-> v.attempts]
    OBVIOUS
  <2>3. drain = "part" /\ cursor > Len(RowParts) BY <1>4 DEF Resolve
  <2>4. v.status \in Statuses /\ v.attempts \in 0..MaxAttempts /\ row \in Nat
    BY <2>1, <2>3, AtRow, VerdictIsJustified
  <2>5. c \in Commands BY <2>2, <2>4 DEF Commands
  <2>6. wq' = Append(wq, c) /\ UNCHANGED <<files, events>> BY <1>4, <2>1, <2>2 DEF Resolve
  <2> QED BY <1>1, <2>5, <2>6
<1>5. CASE Disconnect
  <2>1. UNCHANGED <<files, events>> BY <1>5 DEF Disconnect
  <2>2. \A i \in DOMAIN wq : i \in DOMAIN wq' /\ (wq[i].op = "event" => wq'[i] = wq[i])
    BY <1>5 DEF Disconnect
  <2>3. \A c \in Range(wq) : c.op = "event" => c \in Range(wq') BY <2>2 DEF Range
  <2> QED BY <2>1, <2>3, QueueStep
<1>6. CASE StoreRow BY <1>2, <1>6 DEF StoreRow
<1>7. CASE StoreFails BY <1>2, <1>7 DEF StoreFails
<1>8. CASE MarkRow BY <1>2, <1>8 DEF MarkRow
<1>9. CASE MarkFails BY <1>2, <1>9 DEF MarkFails
<1>10. CASE UNCHANGED <<wq, files, events>> BY <1>10, QueueStep
<1>11. Ack \/ Unavailable \/ UNCHANGED vars => UNCHANGED <<wq, files, events>>
  BY DEF Ack, Unavailable, vars
<1>12. StartPass \/ SelectFails \/ NextRow \/ EndPass => UNCHANGED <<wq, files, events>>
  BY DEF StartPass, SelectFails, NextRow, EndPass
<1>13. SkipPart \/ PartFails \/ Shutdown => UNCHANGED <<wq, files, events>>
  BY DEF SkipPart, PartFails, Shutdown
<1>14. Restart => UNCHANGED <<wq, files, events>> BY DEF Restart, Boot
<1>15. (\E person \in {Person[p] : p \in Markings} : Enroll(person))
         => UNCHANGED <<wq, files, events>>
  BY DEF Enroll
<1> QED
  BY <1>3, <1>4, <1>5, <1>6, <1>7, <1>8, <1>9, <1>10, <1>11, <1>12, <1>13, <1>14, <1>15

(* The steps that do: the photo written is under way, the photo of an       *)
(* event that leaves the queue is kept or removed.                          *)
LEMMA PhotoSteps ==
  ASSUME InboxInv, InsertEvent \/ InsertFails \/ IngestPart
  PROVE  Orphans' \subseteq Orphans
<1>0. wq \in Seq(Commands) BY DEF InboxInv, TypeOK
<1>1. CASE InsertEvent
  <2>1. PICK c : c = Head(wq) OBVIOUS
  <2>2. PICK e : e = c.event OBVIOUS
  <2>3. Left(c) /\ c.op = "event" BY <1>0, <1>1, <2>1, Takes DEF InsertEvent
  <2>4. \/ files' = files \ {e.id} /\ events' = events
        \/ events' = events \cup {e} /\ files' = files
    BY <1>1, <2>1, <2>2 DEF InsertEvent
  <2>5. e.id \in files => e.part \in WithPhoto
    BY <2>2, <2>3 DEF InboxInv, Photos, Pictured, Left
  <2>6. e.id \in files' => e.id \in Kept' BY <2>4, <2>5 DEF Kept
  <2>7. \A x \in Kept : x \in Kept' BY <2>4 DEF Kept
  <2>8. \A x \in Underway : x \in Underway' \/ x = e.id
    BY <2>2, <2>3, UnderwayInQueue DEF Left
  <2>9. \A x \in files' : x \in files BY <2>4
  <2> QED BY <2>6, <2>7, <2>8, <2>9, NoneOrphaned
<1>2. CASE InsertFails
  <2>1. PICK c : c = Head(wq) OBVIOUS
  <2>2. PICK e : e = c.event OBVIOUS
  <2>3. Left(c) /\ c.op = "event" BY <1>0, <1>2, <2>1, Takes DEF InsertFails
  <2>4. files' = files \ {e.id} /\ events' = events BY <1>2, <2>1, <2>2 DEF InsertFails
  <2>5. Kept' = Kept BY <2>4 DEF Kept
  <2>6. \A x \in Underway : x \in Underway' \/ x = e.id
    BY <2>2, <2>3, UnderwayInQueue DEF Left
  <2> QED BY <2>4, <2>5, <2>6, NoneOrphaned
<1>3. CASE IngestPart
  <2>1. PICK c \in Commands : c.op = "event" /\ c.event.id = nextId /\ wq' = Append(wq, c)
    <3>1. PICK p : p = RowParts[cursor] OBVIOUS
    <3>2. drain = "part" /\ p \in Markings BY <1>3, <3>1 DEF IngestPart, AtPart
    <3>3. PICK b \in Buckets[p] :
            wq' = Append(wq, [op |-> "event", event |->
                    [id |-> nextId, part |-> p, row |-> row, bucket |-> b,
                     who |-> IF Person[p] \in enrolled THEN Person[p] ELSE Nobody]])
      BY <1>3, <3>1 DEF IngestPart
    <3>4. PICK e :
            e = [id |-> nextId, part |-> p, row |-> row, bucket |-> b,
                 who |-> IF Person[p] \in enrolled THEN Person[p] ELSE Nobody]
      OBVIOUS
    <3>5. p \in Parts /\ nextId \in Nat /\ row \in Nat
      BY <3>2, AtRow DEF Markings, InboxInv, TypeOK
    <3>6. b \in UNION {Buckets[q] : q \in Parts} BY <3>5
    <3>7. (IF Person[p] \in enrolled THEN Person[p] ELSE Nobody) \in People \cup {Nobody}
      BY <3>5 DEF People
    <3>8. e \in EventRows BY <3>4, <3>5, <3>6, <3>7 DEF EventRows
    <3>9. PICK d : d = [op |-> "event", event |-> e] OBVIOUS
    <3>10. d \in Commands BY <3>8, <3>9 DEF Commands
    <3> QED BY <3>3, <3>4, <3>9, <3>10
  <2>2. Joined(c) BY <1>0, <2>1, Admits
  <2>3. \A x \in files' : x \in files \/ x = nextId BY <1>3 DEF IngestPart
  <2>4. \A x \in Underway : x \in Underway' BY <2>2, UnderwayInQueue DEF Joined
  <2>5. nextId \in Underway' BY <2>1, <2>2, UnderwayInQueue DEF Joined
  <2>6. Kept' = Kept BY <1>3 DEF IngestPart, Kept
  <2> QED BY <2>3, <2>4, <2>5, <2>6, NoneOrphaned
<1> QED BY <1>1, <1>2, <1>3

(* A photo that a committed row refers to is always on disk, and only a      *)
(* crash between the write of the photo and the transaction leaves one that  *)
(* nothing refers to (AtomicFileGuard).                                      *)
THEOREM PhotosFollowRowsHolds == Spec => PhotosFollowRows
<1>1. InboxInv' => Kept' \subseteq files' BY DEF InboxInv, Photos, Pictured, Kept
<1>2. InboxInv /\ [Next]_vars /\ ~Crash => Orphans' \subseteq Orphans
  BY QuietSteps, PhotoSteps DEF Next, HandlerStep, WriterStep, DrainStep, FaultStep
<1>3. InboxInv /\ InboxInv' /\ [Next]_vars
        => [Kept' \subseteq files' /\ (~Crash => Orphans' \subseteq Orphans)]_vars
  BY <1>1, <1>2
<1> QED BY <1>3, InboxIsInvariant, PTL DEF Spec, PhotosFollowRows
=============================================================================
