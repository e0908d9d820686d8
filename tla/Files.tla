------------------------------- MODULE Files -------------------------------
(***************************************************************************)
(* The photos of the kiosk and the evidence of leaves: the files of        *)
(* storage/atomic_file.rs, the capture sessions of enrollments/handlers.rs *)
(* with their owner in workers/capture_cleanup.rs, the evidence of         *)
(* leaves/handlers.rs and the sweep of workers/retention.rs.               *)
(*                                                                         *)
(* A name is a capture's or an evidence's, generated by the server and     *)
(* used once.  A file at a name is the one the server published there      *)
(* ("own") or one that somebody else put in its place (foreign); the       *)
(* identity that the code keeps, device, inode and ctime, tells the two    *)
(* apart.  Each of them is at a name once, so that <<name, file>> tells     *)
(* which file it is.                                                       *)
(***************************************************************************)
EXTENDS Naturals, FiniteSets

CONSTANTS
  Captures,  \* capture sessions
  Leaves,    \* requests for a leave with evidence
  Budgets    \* bounds of a behaviour: captures, leaves, crashes, swaps of a
             \* file by somebody else, faults of the disk or of a statement

ASSUME FilesAssumption ==
  /\ Captures \cap Leaves = {}
  /\ IsFiniteSet(Captures) /\ IsFiniteSet(Leaves)
  /\ \A b \in Budgets :
       /\ b.names \subseteq Captures \cup Leaves
       /\ {b.crashes, b.swaps, b.faults} \subseteq Nat

VARIABLES
  budget,    \* the bounds of this behaviour
  process,   \* "down", "booting", "serving", "closing" or "closed"
  disk,      \* the file at each name: "none", "own" or a foreign one
  aged,      \* files past the five minutes, or past the retention
  stranded,  \* temporary and quarantined files nobody is at work on
  rm,        \* removals under way
  task,      \* the task of each capture
  entry,     \* the capture map
  cleaner,   \* the periodic owner of the map
  closer,    \* shutdown_captures
  leave,     \* the requests for a leave
  policy,    \* retention_policy: "keep" or "finite"
  sweep,     \* the retention sweep
  audit,     \* evidence whose deletion is in the audit log
  deleted,   \* evidence that retention deleted
  orphans,   \* names whose file lost its owner in a crash or a failed removal
  swapped,   \* foreign files, with their names
  condemned, \* files that a sweep of orphans found
  ends,      \* processes that ended
  crashes, faults

memory == <<task, entry, cleaner, closer>>
evidence == <<leave, policy, sweep, audit, deleted>>
history == <<orphans, swapped, condemned, ends, crashes>>
vars == <<budget, process, disk, aged, stranded, rm, memory, evidence, history,
          faults>>

Names == Captures \cup Leaves
Removers == {"cleaner", "closer", "retention"}
Foreign == {"foreign1", "foreign2"}
NoRemoval == [pc |-> "none", name |-> 0, id |-> "none", held |-> "none"]
NoEntry == [status |-> "none", stamp |-> 0, due |-> FALSE]
NoWork == {}
IdleCleaner ==
  [pc |-> "idle", work |-> NoWork, aged |-> {}, owned |-> {}, last |-> FALSE]

Init ==
  /\ budget \in Budgets
  /\ process = "booting"
  /\ disk = [n \in Names |-> "none"] /\ aged = {} /\ stranded = {}
  /\ rm = [r \in Removers |-> NoRemoval]
  /\ task = [c \in Captures |-> "none"]
  /\ entry = [c \in Captures |-> NoEntry]
  /\ cleaner = [IdleCleaner EXCEPT !.pc = "sweep"]
  /\ closer = [pc |-> "idle", work |-> NoWork]
  /\ leave = [l \in Leaves |-> "none"]
  /\ policy = "keep" /\ sweep = [pc |-> "idle", name |-> 0, todo |-> {}]
  /\ audit = {} /\ deleted = {} /\ orphans = {} /\ swapped = {} /\ condemned = {}
  /\ ends = 0 /\ crashes = 0 /\ faults = 0

Up == process \in {"booting", "serving", "closing"}
Fault == faults < budget.faults /\ faults' = faults + 1
InPlay(n) == n \in budget.names
File(n) == <<n, disk[n]>>

-----------------------------------------------------------------------------
(* ATOMIC FILES                                                             *)

(* remove_if_owned, in the three steps between which the name may change    *)
(* hands.  A removal starts with an identity: the one that was kept when    *)
(* the file was published, or the one that a sweep found at the name.       *)
StartRemoval(r, n, id) ==
  rm' = [rm EXCEPT ![r] = [pc |-> "open", name |-> n, id |-> id, held |-> "none"]]
EndRemoval(r, outcome) == rm' = [rm EXCEPT ![r].pc = outcome, ![r].held = "none"]

(* Open without following links, and compare the identity.                  *)
RemoveOpens(r) ==
  LET n == rm[r].name
      id == rm[r].id
  IN
  /\ rm[r].pc = "open"
  /\ \/ disk[n] = "none" /\ EndRemoval(r, "ok") /\ UNCHANGED faults
     \/ disk[n] \notin {"none", id} /\ EndRemoval(r, "failed") /\ UNCHANGED faults
     \/ disk[n] = id /\ rm' = [rm EXCEPT ![r].pc = "claim"] /\ UNCHANGED faults
     \/ disk[n] = id /\ Fault /\ EndRemoval(r, "failed")
  /\ UNCHANGED <<budget, process, disk, aged, stranded, memory, evidence, history>>

(* claim_noreplace: whatever is at the name is moved to a quarantine.       *)
RemoveClaims(r) ==
  LET n == rm[r].name IN
  /\ rm[r].pc = "claim"
  /\ \/ disk[n] = "none" /\ EndRemoval(r, "ok") /\ UNCHANGED disk
     \/ /\ disk[n] # "none"
        /\ rm' = [rm EXCEPT ![r].pc = "delete", ![r].held = disk[n]]
        /\ disk' = [disk EXCEPT ![n] = "none"]
  /\ UNCHANGED <<budget, process, aged, stranded, memory, evidence, history, faults>>

(* Mutant: what was claimed is deleted.                                     *)
AnyClaimed(removal) == TRUE
(* The inode that was opened, or the entry is restored.                     *)
ClaimedIsOpened(removal) == removal.held = removal.id

(* A call that fails here leaves the claimed file in the quarantine.        *)
RemoveDeletes(r) ==
  LET n == rm[r].name IN
  /\ rm[r].pc = "delete"
  /\ \/ /\ ClaimedIsOpened(rm[r])
        /\ EndRemoval(r, "ok")
        /\ deleted' = deleted \cup ({n} \cap Leaves)
        /\ UNCHANGED <<disk, stranded, faults>>
     \/ /\ ~ClaimedIsOpened(rm[r])
        /\ EndRemoval(r, "failed") /\ UNCHANGED <<deleted, faults>>
        /\ IF disk[n] = "none"
             THEN disk' = [disk EXCEPT ![n] = rm[r].held] /\ UNCHANGED stranded
             ELSE stranded' = stranded \cup {<<n, rm[r].held>>} /\ UNCHANGED disk
     \/ /\ Fault /\ EndRemoval(r, "failed")
        /\ stranded' = stranded \cup {<<n, rm[r].held>>} /\ UNCHANGED <<disk, deleted>>
  /\ UNCHANGED <<budget, process, aged, memory, leave, policy, sweep, audit, history>>

(* The guard of an AtomicFileGuard that is dropped without keep: the same   *)
(* removal, which leaves a foreign file alone.  One that fails is logged,   *)
(* and nobody is left to remove the file.                                   *)
GuardDropped(n) == [disk EXCEPT ![n] = IF @ = "own" THEN "none" ELSE @]
GuardFails(n) ==
  /\ disk[n] = "own" /\ Fault
  /\ orphans' = orphans \cup {n} /\ UNCHANGED disk

(* Somebody else replaces, or creates, the file at a name.                  *)
Swap(n, file) ==
  /\ n \in Captures /\ InPlay(n) /\ disk[n] \notin Foreign
  /\ Cardinality(swapped) < budget.swaps
  /\ file \notin {f[2] : f \in swapped} /\ swapped' = swapped \cup {<<n, file>>}
  /\ disk' = [disk EXCEPT ![n] = file]
  /\ UNCHANGED <<budget, process, aged, stranded, rm, memory, evidence, orphans,
                 condemned, ends, crashes, faults>>

(* Time passes for a file, or for an entry: 120 s of capturing, or five     *)
(* minutes in a final state.  The lock of the map is not held for minutes:  *)
(* a file does not age while its task waits for it.                         *)
AgeFile(n) ==
  /\ disk[n] # "none" /\ File(n) \notin aged /\ aged' = aged \cup {File(n)}
  /\ n \in Captures => task[n] # "published"
  /\ UNCHANGED <<budget, process, disk, stranded, rm, memory, evidence, history, faults>>
AgeEntry(c) ==
  /\ entry[c] # NoEntry /\ ~entry[c].due /\ Up
  /\ entry' = [entry EXCEPT ![c].due = TRUE]
  /\ UNCHANGED <<budget, process, disk, aged, stranded, rm, task, cleaner, closer,
                 evidence, history, faults>>

-----------------------------------------------------------------------------
(* CAPTURES                                                                 *)

Insert(c, status) ==
  entry' = [entry EXCEPT ![c] = [status |-> status, stamp |-> @.stamp + 1, due |-> FALSE]]

(* capture_from_device: admit inserts the entry and spawns its task, with   *)
(* no suspension between.                                                   *)
capture_from_device(c) ==
  /\ process = "serving" /\ task[c] = "none" /\ InPlay(c)
  /\ task' = [task EXCEPT ![c] = "capturing"]
  /\ Insert(c, "capturing")
  /\ UNCHANGED <<budget, process, disk, aged, stranded, rm, cleaner, closer, evidence,
                 history, faults>>

Task(c, pc) ==
  /\ task' = [task EXCEPT ![c] = pc]
  /\ UNCHANGED <<budget, process, aged, rm, cleaner, closer, evidence, history, faults>>

(* The reader answers: a photo, whose temporary file is created, or an      *)
(* error or a timeout, which are one status here.                           *)
Captured(c) ==
  /\ task[c] = "capturing" /\ Up
  /\ \/ Task(c, "writing") /\ UNCHANGED entry
     \/ Task(c, "done") /\ Insert(c, "failed")
  /\ UNCHANGED <<disk, stranded>>

(* AtomicFileGuard::write publishes without replacing; a taken name or a    *)
(* failed write removes the temporary file.                                 *)
Publish(c) ==
  /\ task[c] = "writing"
  /\ \/ /\ disk[c] = "none" /\ disk' = [disk EXCEPT ![c] = "own"]
        /\ Task(c, "published") /\ UNCHANGED entry
     \/ /\ disk[c] # "none" /\ Insert(c, "failed")
        /\ Task(c, "done") /\ UNCHANGED disk
  /\ UNCHANGED stranded

(* Under the lock of the map: the entry, and the guard is kept.             *)
Keep(c) ==
  /\ task[c] = "published" /\ Insert(c, "captured")
  /\ Task(c, "done") /\ UNCHANGED <<disk, stranded>>

-----------------------------------------------------------------------------
(* THE PERIODIC OWNER                                                       *)

CleanOnly(r) ==
  /\ cleaner' = r
  /\ UNCHANGED <<budget, process, disk, aged, stranded, task, closer, evidence,
                 orphans, swapped, ends, crashes, faults>>
Clean(r) == CleanOnly(r) /\ UNCHANGED condemned

TimedOut(e) ==
  IF e.status = "capturing" /\ e.due
    THEN [status |-> "failed", stamp |-> e.stamp + 1, due |-> FALSE] ELSE e
(* Mutant: a failed session has no terminal_at.                             *)
OnlyCapturedEnds(e) == e.status = "captured"
Terminal(e) == e.status \in {"captured", "failed"}

(* A pass begins: sessions that hang are timed out and the expired ones     *)
(* are listed.  One "now" serves for the whole pass, so that a file         *)
(* published later is not expired.  The last pass, at shutdown, does not    *)
(* sweep.  A pass that would find nothing to do is left out.                *)
CleanerStarts(last) ==
  /\ cleaner.pc = "idle" /\ process \in {"serving", "closing"}
  /\ last \/ \E c \in Captures : entry[c].due \/ File(c) \in aged
  /\ last => closer.pc = "over"
  /\ entry' = [c \in Captures |-> TimedOut(entry[c])]
  /\ Clean([pc |-> "states", aged |-> aged, owned |-> {}, last |-> last,
            work |-> {[name |-> c, status |-> entry[c].status, stamp |-> entry[c].stamp] :
                        c \in {d \in Captures : Terminal(entry[d]) /\ entry[d].due}}])
  /\ UNCHANGED rm

(* Mutant: the entry is removed by its id.                                  *)
AnyState(w) == TRUE
(* The entry is still the one that was listed.                              *)
Unchanged(w) == entry[w.name].status = w.status /\ entry[w.name].stamp = w.stamp

(* The next expired entry.                                                  *)
CleanerPicks ==
  /\ cleaner.pc = "states"
  /\ \E w \in cleaner.work :
       \/ ~Unchanged(w) /\ Clean([cleaner EXCEPT !.work = @ \ {w}]) /\ UNCHANGED rm
       \/ /\ Unchanged(w) /\ w.status = "captured"
          /\ StartRemoval("cleaner", w.name, "own")
          /\ Clean([cleaner EXCEPT !.pc = "removing", !.work = @ \ {w}, !.owned = {w}])
       \/ /\ Unchanged(w) /\ w.status # "captured"
          /\ Clean([cleaner EXCEPT !.pc = "unlist", !.work = @ \ {w}, !.owned = {w}])
          /\ UNCHANGED rm
  /\ UNCHANGED entry

(* The photo is gone, or the entry is left for a later pass.                *)
CleanerRemoved ==
  /\ cleaner.pc = "removing" /\ rm["cleaner"].pc \in {"ok", "failed"}
  /\ Clean([cleaner EXCEPT !.pc = IF rm["cleaner"].pc = "ok" THEN "unlist" ELSE "states"])
  /\ rm' = [rm EXCEPT !["cleaner"] = NoRemoval]
  /\ UNCHANGED entry

(* Compare and remove.                                                      *)
CleanerUnlists ==
  /\ cleaner.pc = "unlist"
  /\ \E w \in cleaner.owned :
       entry' = IF Unchanged(w) THEN [entry EXCEPT ![w.name] = NoEntry] ELSE entry
  /\ Clean([cleaner EXCEPT !.pc = "states"]) /\ UNCHANGED rm

(* Mutant: every photo of the directory may be swept.                       *)
NobodyOwns == {}
(* The photos that a session owns, or will.                                 *)
Owned == {c \in Captures : entry[c] # NoEntry}

(* sweep_orphan_jpegs, or the end of the last pass.                         *)
CleanerSweeps ==
  /\ cleaner.pc = "states" /\ cleaner.work = NoWork
  /\ Clean([cleaner EXCEPT !.pc = IF cleaner.last THEN "stopped" ELSE "sweep",
                           !.owned = Owned])
  /\ UNCHANGED <<rm, entry>>

(* Mutant: the filter on the owned names is inverted.                       *)
OwnedIsSwept(c) == File(c) \in cleaner.aged /\ c \in cleaner.owned
Sweepable(c) == File(c) \in cleaner.aged /\ c \notin cleaner.owned

(* An old file without a session, whoever put it there.                     *)
CleanerFindsOrphan ==
  /\ cleaner.pc = "sweep"
  /\ \E c \in Captures :
       /\ Sweepable(c)
       /\ StartRemoval("cleaner", c, disk[c])
       /\ CleanOnly([cleaner EXCEPT !.pc = "sweeping", !.aged = @ \ {File(c)}])
       /\ condemned' = condemned \cup {File(c)}
  /\ UNCHANGED entry

CleanerSwept ==
  /\ cleaner.pc = "sweeping" /\ rm["cleaner"].pc \in {"ok", "failed"}
  /\ rm' = [rm EXCEPT !["cleaner"] = NoRemoval]
  /\ Clean([cleaner EXCEPT !.pc = "sweep"])
  /\ UNCHANGED entry

(* The pass is over; the one of startup_sweep opens the server.             *)
CleanerDone ==
  /\ cleaner.pc = "sweep" /\ \A c \in Captures : ~Sweepable(c)
  /\ cleaner' = IdleCleaner
  /\ process' = IF process = "booting" THEN "serving" ELSE process
  /\ UNCHANGED <<budget, disk, aged, stranded, rm, task, entry, closer, evidence,
                 history, faults>>

-----------------------------------------------------------------------------
(* SHUTDOWN                                                                 *)

CloseOnly(r) ==
  /\ closer' = r
  /\ UNCHANGED <<budget, disk, aged, stranded, cleaner, evidence, orphans, swapped,
                 crashes, faults>>
Close(r) == CloseOnly(r) /\ UNCHANGED condemned

(* The signal: no capture is admitted any more.                             *)
Shutdown ==
  /\ process = "serving" /\ process' = "closing"
  /\ Close([closer EXCEPT !.pc = "joining"])
  /\ UNCHANGED <<rm, task, entry, ends>>

(* stop_and_join aborts a task where it waits: for the reader, or for the   *)
(* lock of the map with the guard in its hands.                             *)
TaskAborts(c) ==
  /\ process = "closing" /\ task[c] \in {"capturing", "published"}
  /\ \/ /\ disk' = IF task[c] = "published" THEN GuardDropped(c) ELSE disk
        /\ UNCHANGED <<orphans, faults>>
     \/ task[c] = "published" /\ GuardFails(c)
  /\ task' = [task EXCEPT ![c] = "done"]
  /\ UNCHANGED <<budget, process, aged, stranded, rm, entry, cleaner, closer, evidence,
                 swapped, condemned, ends, crashes>>

CloserLists ==
  /\ closer.pc = "joining" /\ \A c \in Captures : task[c] \in {"none", "done"}
  /\ Close([pc |-> "work",
            work |-> {[name |-> c, photo |-> entry[c].status = "captured"] : c \in Owned}])
  /\ UNCHANGED <<process, rm, task, entry, ends>>

CloserPicks ==
  /\ closer.pc = "work"
  /\ \E w \in closer.work :
       \/ /\ w.photo /\ StartRemoval("closer", w.name, "own")
          /\ Close([closer EXCEPT !.pc = "removing"]) /\ UNCHANGED entry
       \/ /\ ~w.photo /\ entry' = [entry EXCEPT ![w.name] = NoEntry]
          /\ Close([closer EXCEPT !.work = @ \ {w}]) /\ UNCHANGED rm
  /\ UNCHANGED <<process, task, ends>>

(* A session's photo that cannot be removed ends shutdown_captures with an  *)
(* error.                                                                   *)
CloserRemoved ==
  LET n == rm["closer"].name IN
  /\ closer.pc = "removing"
  /\ rm' = [rm EXCEPT !["closer"] = NoRemoval]
  /\ \/ /\ rm["closer"].pc = "ok"
        /\ entry' = [entry EXCEPT ![n] = NoEntry]
        /\ Close([pc |-> "work", work |-> {w \in closer.work : w.name # n}])
     \/ /\ rm["closer"].pc = "failed" /\ UNCHANGED entry
        /\ Close([pc |-> "over", work |-> NoWork])
  /\ UNCHANGED <<process, task, ends>>

(* The orphan sweep at the end finds what a crash left and has aged, and    *)
(* goes on with the next file when one cannot be removed.                   *)
CloserSweeps ==
  /\ closer.pc = "work" /\ closer.work = NoWork
  /\ LET found == {f \in aged : \E c \in Captures \ Owned : f = File(c)} IN
       /\ CloseOnly([pc |-> "sweep", work |-> found])
       /\ condemned' = condemned \cup found
  /\ UNCHANGED <<process, rm, task, entry, ends>>

CloserFindsOrphan ==
  /\ closer.pc = "sweep"
  /\ \/ /\ closer.work = NoWork /\ Close([closer EXCEPT !.pc = "over"])
        /\ UNCHANGED rm
     \/ \E f \in closer.work :
          /\ StartRemoval("closer", f[1], f[2])
          /\ Close([pc |-> "sweeping", work |-> closer.work \ {f}])
  /\ UNCHANGED <<process, task, entry, ends>>

CloserSwept ==
  /\ closer.pc = "sweeping" /\ rm["closer"].pc \in {"ok", "failed"}
  /\ rm' = [rm EXCEPT !["closer"] = NoRemoval]
  /\ Close([closer EXCEPT !.pc = "sweep"])
  /\ UNCHANGED <<process, task, entry, ends>>

(* The owner has stopped, and the process ends with what it still has in    *)
(* memory.  Nobody waits for the retention sweep.                           *)
Exit ==
  /\ closer.pc = "over" /\ cleaner.pc = "stopped"
  /\ process' = "closed" /\ ends' = ends + 1
  /\ entry' = [c \in Captures |-> NoEntry]
  /\ rm' = [r \in Removers |-> NoRemoval]
  /\ stranded' = stranded \cup
       {<<rm[r].name, rm[r].held>> : r \in {q \in Removers : rm[q].held # "none"}}
  /\ orphans' = orphans \cup
       {n \in Names : disk[n] = "own" /\ (n \in Captures \/ leave[n] = "written")}
  /\ leave' = [l \in Leaves |-> IF leave[l] = "written" THEN "lost" ELSE leave[l]]
  /\ sweep' = [pc |-> "idle", name |-> 0, todo |-> {}]
  /\ closer' = [pc |-> "idle", work |-> NoWork]
  /\ UNCHANGED <<budget, disk, aged, task, cleaner, policy, audit, deleted, swapped,
                 condemned, crashes, faults>>

-----------------------------------------------------------------------------
(* EVIDENCE AND RETENTION                                                   *)

Leave(l, pc) ==
  /\ leave' = [leave EXCEPT ![l] = pc]
  /\ UNCHANGED <<budget, process, aged, stranded, rm, memory, policy, sweep, audit,
                 deleted, swapped, condemned, ends, crashes>>

(* create_leave writes the evidence before it asks for the leave.           *)
create_leave(l) ==
  /\ process = "serving" /\ leave[l] = "none" /\ InPlay(l)
  /\ disk' = [disk EXCEPT ![l] = "own"] /\ Leave(l, "written")
  /\ UNCHANGED <<orphans, faults>>

(* Mutant: the guard is kept before the leave is committed.                 *)
KeptEarly(l) == disk
(* The guard of a request that fails.                                       *)
EvidenceDropped(l) == GuardDropped(l)

(* create_leave_queued_guarded: a validation, an overlap or a failed        *)
(* commit drops the guard; a commit keeps it.                               *)
LeaveStored(l) ==
  /\ leave[l] = "written" /\ Up
  /\ \/ Leave(l, "kept") /\ UNCHANGED <<disk, orphans, faults>>
     \/ /\ Leave(l, "refused") /\ disk' = EvidenceDropped(l)
        /\ UNCHANGED <<orphans, faults>>
     \/ Leave(l, "refused") /\ GuardFails(l)

(* The operator sets a period.                                              *)
SetPolicy ==
  /\ policy = "keep" /\ policy' = "finite" /\ \E l \in Leaves : InPlay(l)
  /\ UNCHANGED <<budget, process, disk, aged, stranded, rm, memory, leave, sweep,
                 audit, deleted, history, faults>>

Retain(s) ==
  /\ sweep' = s
  /\ UNCHANGED <<budget, process, disk, aged, stranded, memory, leave, policy, history>>

(* sweep_once: the policy is read once, and evidence past the period goes.  *)
RetentionStarts ==
  /\ process = "serving" /\ sweep.pc = "idle" /\ policy = "finite"
  /\ LET old == {l \in Leaves : File(l) \in aged} IN
       old # {} /\ Retain([pc |-> "files", name |-> 0, todo |-> old])
  /\ UNCHANGED <<rm, audit, deleted, faults>>

RetentionPicks ==
  /\ sweep.pc = "files" /\ Up
  /\ \/ /\ \A l \in sweep.todo : disk[l] = "none"
        /\ Retain([sweep EXCEPT !.pc = "idle"]) /\ UNCHANGED rm
     \/ \E l \in sweep.todo :
          /\ disk[l] # "none" /\ StartRemoval("retention", l, disk[l])
          /\ Retain([pc |-> "removing", name |-> l, todo |-> sweep.todo \ {l}])
  /\ UNCHANGED <<audit, deleted, faults>>

RetentionRemoved ==
  /\ sweep.pc = "removing"
  /\ \/ rm["retention"].pc = "ok" /\ Retain([sweep EXCEPT !.pc = "audit"])
     \/ rm["retention"].pc = "failed" /\ Retain([sweep EXCEPT !.pc = "files"])
  /\ rm' = [rm EXCEPT !["retention"] = NoRemoval]
  /\ UNCHANGED <<audit, deleted, faults>>

(* Mutant: the deletions are audited once the sweep is over.                *)
AuditedAtTheEnd(l) ==
  IF sweep.todo = {} THEN audit' = deleted ELSE UNCHANGED audit
(* audit_deletion, after each deletion.                                     *)
Audited(l) == audit' = audit \cup {l}

RetentionAudits ==
  /\ sweep.pc = "audit" /\ Up
  /\ \/ Audited(sweep.name) /\ UNCHANGED faults
     \/ Fault /\ UNCHANGED audit
  /\ Retain([sweep EXCEPT !.pc = "files"])
  /\ UNCHANGED <<rm, deleted>>

-----------------------------------------------------------------------------
(* CRASH AND RESTART                                                        *)

(* What is on disk stays as it is; temporary and quarantined files too.     *)
Crash ==
  /\ Up /\ crashes < budget.crashes
  /\ crashes' = crashes + 1 /\ ends' = ends + 1
  /\ process' = "down"
  /\ stranded' = stranded
       \cup {<<rm[r].name, rm[r].held>> : r \in {q \in Removers : rm[q].held # "none"}}
       \cup {<<c, "tmp">> : c \in {d \in Captures : task[d] = "writing"}}
  /\ orphans' = orphans \cup
       {n \in Names : disk[n] = "own" /\ (n \in Captures \/ leave[n] = "written")}
  /\ leave' = [l \in Leaves |-> IF leave[l] = "written" THEN "lost" ELSE leave[l]]
  /\ task' = [c \in Captures |-> IF task[c] = "none" THEN "none" ELSE "done"]
  /\ entry' = [c \in Captures |-> NoEntry]
  /\ rm' = [r \in Removers |-> NoRemoval]
  /\ cleaner' = IdleCleaner /\ closer' = [pc |-> "idle", work |-> NoWork]
  /\ sweep' = [pc |-> "idle", name |-> 0, todo |-> {}]
  /\ UNCHANGED <<budget, disk, aged, policy, audit, deleted, swapped, condemned, faults>>

(* startup_sweep comes before the server: no session owns a photo yet.      *)
Restart ==
  /\ process = "down" /\ process' = "booting"
  /\ cleaner' = [IdleCleaner EXCEPT !.pc = "sweep", !.aged = aged]
  /\ UNCHANGED <<budget, disk, aged, stranded, rm, task, entry, closer, evidence,
                 history, faults>>

CleanerSteps ==
  (\E last \in BOOLEAN : CleanerStarts(last)) \/ CleanerPicks \/ CleanerRemoved
    \/ CleanerUnlists \/ CleanerSweeps \/ CleanerFindsOrphan \/ CleanerSwept \/ CleanerDone
RemovalSteps(r) == RemoveOpens(r) \/ RemoveClaims(r) \/ RemoveDeletes(r)
TaskSteps(c) == Captured(c) \/ Publish(c) \/ Keep(c)
CloserSteps ==
  CloserLists \/ CloserPicks \/ CloserRemoved
    \/ CloserSweeps \/ CloserFindsOrphan \/ CloserSwept \/ Exit
RetentionSteps == RetentionStarts \/ RetentionPicks \/ RetentionRemoved \/ RetentionAudits

Next ==
  \/ \E r \in Removers : RemovalSteps(r)
  \/ \E n \in Names : AgeFile(n) \/ \E file \in Foreign : Swap(n, file)
  \/ \E c \in Captures : capture_from_device(c) \/ TaskSteps(c) \/ TaskAborts(c) \/ AgeEntry(c)
  \/ CleanerSteps
  \/ Shutdown \/ CloserSteps
  \/ \E l \in Leaves : create_leave(l) \/ LeaveStored(l)
  \/ SetPolicy \/ RetentionSteps
  \/ Crash \/ Restart

Spec == Init /\ [][Next]_vars

(* The runtime goes on scheduling every task, and the clock ticks.          *)
Fairness ==
  /\ \A r \in Removers : WF_vars(RemovalSteps(r))
  /\ \A c \in Captures : WF_vars(TaskSteps(c)) /\ WF_vars(AgeEntry(c))
  /\ \A n \in Names : WF_vars(AgeFile(n))
  /\ WF_vars(CleanerSteps) /\ WF_vars(Restart)

FairSpec == Spec /\ Fairness

-----------------------------------------------------------------------------
Contents == {"none", "own"} \cup Foreign

TypeOK ==
  /\ budget \in Budgets
  /\ process \in {"down", "booting", "serving", "closing", "closed"}
  /\ disk \in [Names -> Contents] /\ aged \subseteq Names \X ({"own"} \cup Foreign)
  /\ stranded \subseteq Names \X ({"tmp", "own"} \cup Foreign)
  /\ \A r \in Removers :
       rm[r].pc \in {"none", "open", "claim", "delete", "ok", "failed"}
         /\ rm[r].id \in Contents /\ rm[r].held \in Contents
  /\ task \in [Captures -> {"none", "capturing", "writing", "published", "done"}]
  /\ \A c \in Captures :
       entry[c].status \in {"none", "capturing", "captured", "failed"}
  /\ leave \in [Leaves -> {"none", "written", "kept", "refused", "lost"}]
  /\ audit \subseteq Leaves /\ deleted \subseteq Leaves
  /\ orphans \subseteq Names /\ swapped \subseteq Captures \X Foreign
  /\ condemned \subseteq aged

Tampered(n) == \E f \in swapped : f[1] = n

(* The removal of n is under way or done: its photo may be gone.            *)
BeingRemoved(n) ==
  \/ \E r \in Removers : rm[r].name = n /\ rm[r].pc # "none"
  \/ cleaner.pc = "unlist" /\ \E w \in cleaner.owned : w.name = n

(* A session that answers "captured" has its photo on disk, until its own   *)
(* expiry or the shutdown removes both: no sweep of orphans and no earlier  *)
(* pass takes the photo of a session that started meanwhile.  Conversely a  *)
(* photo on disk belongs to a task that still has its guard or to an entry  *)
(* of the map, so that something will remove it; only a process that ended  *)
(* before it could, or a guard that failed to, leaves an orphan             *)
(* (handlers.rs, capture_cleanup.rs).                                       *)
PhotosFollowSessions ==
  /\ TypeOK
  /\ \A c \in Captures :
       /\ entry[c].status = "captured" =>
            disk[c] = "own" \/ BeingRemoved(c) \/ Tampered(c) \/ <<c, "own">> \in stranded
       /\ disk[c] = "own" =>
            task[c] = "published" \/ entry[c].status = "captured" \/ c \in orphans

(* The removal of one file never deletes another that somebody put at the   *)
(* name, even between the check and the removal: it is at the name, or kept *)
(* in quarantine.  The only foreign file that goes is the one that a sweep  *)
(* of orphans itself found at a name without a session, five minutes old    *)
(* (atomic_file.rs, remove_if_owned).                                       *)
ForeignSurvives ==
  \A f \in swapped :
    \/ disk[f[1]] = f[2]
    \/ f \in stranded
    \/ \E r \in Removers : rm[r].name = f[1] /\ rm[r].held = f[2]
    \/ f \in condemned \cap aged

(* A committed leave has its evidence, unless retention deletes it; a       *)
(* refused one leaves no file behind, unless its guard failed to remove it  *)
(* (leaves/service.rs, after_commit).                                       *)
EvidenceFollowsLeave ==
  \A l \in Leaves :
    /\ leave[l] = "kept" =>
         disk[l] = "own" \/ l \in deleted \/ rm["retention"].name = l
           \/ <<l, "own">> \in stranded
    /\ leave[l] = "refused" => disk[l] = "none" \/ l \in orphans

(* Each end of a process and each failed statement costs at most one entry  *)
(* of the audit log: the sweep audits a deletion before it starts the next  *)
(* (retention.rs).                                                          *)
AtMostOneUnaudited ==
  Cardinality(deleted \ audit) <= ends + faults + (IF sweep.pc \in {"removing", "audit"} THEN 1 ELSE 0)

(* A session does not stay in the map: it is answered or timed out, and     *)
(* forgotten five minutes later, as long as the process serves and nobody   *)
(* tampers with its photo (cleanup_active_states).  A photo that lost its   *)
(* owner in a crash is removed by the sweeps of the processes that follow   *)
(* (sweep_orphan_jpegs).                                                    *)
SessionsExpire ==
  \A c \in Captures :
    /\ entry[c] # NoEntry ~> entry[c] = NoEntry \/ process # "serving" \/ Tampered(c)
    /\ disk[c] = "own" /\ c \in orphans
         ~> disk[c] # "own" \/ process \in {"closing", "closed"}
=============================================================================
