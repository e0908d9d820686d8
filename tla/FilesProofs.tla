------------------------------ MODULE FilesProofs ------------------------------
(***************************************************************************)
(* Proofs about photos and evidence, for any captures, leaves, crashes,    *)
(* swaps and faults.                                                       *)
(***************************************************************************)
EXTENDS Files, FiniteSetTheorems, TLAPS

-----------------------------------------------------------------------------
(* The inductive invariant.                                                *)

(* What a file at a name can be.                                            *)
Kept == {"own"} \cup Foreign
Removals ==
  [pc : {"none", "open", "claim", "delete", "ok", "failed"},
   name : Names \cup {0}, id : Contents, held : Contents]
Entries ==
  [status : {"none", "capturing", "captured", "failed"}, stamp : Nat, due : BOOLEAN]
Listed ==
  [name : Captures, status : {"none", "capturing", "captured", "failed"}, stamp : Nat]
Photos == [name : Captures, photo : BOOLEAN]
Cleaners ==
  [pc : {"idle", "states", "removing", "unlist", "sweep", "sweeping", "stopped"},
   work : SUBSET Listed, aged : SUBSET (Names \X Kept),
   owned : SUBSET (Listed \cup Captures), last : BOOLEAN]
Closers ==
  [pc : {"idle", "joining", "work", "removing", "over"}, work : SUBSET Photos]
    \cup [pc : {"sweep", "sweeping"}, work : SUBSET (Names \X Kept)]
Sweeps ==
  [pc : {"idle", "files", "removing", "audit"}, name : Leaves \cup {0}, todo : SUBSET Leaves]

Types ==
  /\ budget \in Budgets
  /\ process \in {"down", "booting", "serving", "closing", "closed"}
  /\ disk \in [Names -> Contents] /\ aged \subseteq Names \X Kept
  /\ stranded \subseteq Names \X ({"tmp", "own"} \cup Foreign)
  /\ rm \in [Removers -> Removals]
  /\ task \in [Captures -> {"none", "capturing", "writing", "published", "done"}]
  /\ entry \in [Captures -> Entries]
  /\ cleaner \in Cleaners /\ cleaner.aged \subseteq aged
  /\ closer \in Closers
  /\ leave \in [Leaves -> {"none", "written", "kept", "refused", "lost"}]
  /\ sweep \in Sweeps
  /\ audit \subseteq Leaves /\ deleted \subseteq Leaves
  /\ orphans \subseteq Names /\ swapped \subseteq Captures \X Foreign
  /\ condemned \subseteq aged
  /\ ends \in Nat /\ crashes \in Nat /\ faults \in Nat

(* Each removal belongs to what its remover is doing; the retention's is of *)
(* evidence and the others' are of photos.                                  *)
Removing ==
  /\ \A r \in Removers : rm[r].held # "none" <=> rm[r].pc = "delete"
  /\ rm["cleaner"].pc # "none" <=> cleaner.pc \in {"removing", "sweeping"}
  /\ rm["closer"].pc # "none" <=> closer.pc \in {"removing", "sweeping"}
  /\ rm["retention"].pc # "none" <=> sweep.pc = "removing"
  /\ \A r \in {"cleaner", "closer"} : rm[r].pc # "none" => rm[r].name \in Captures
  /\ \A r \in Removers : rm[r].pc # "none" => rm[r].id \in Kept
  /\ cleaner.pc = "removing" => rm["cleaner"].id = "own"
  /\ closer.pc = "removing" => rm["closer"].id = "own"
  /\ rm["retention"].pc # "none" =>
       rm["retention"].name = sweep.name /\ rm["retention"].id = "own"
  /\ sweep.pc \in {"removing", "audit"} => sweep.name \in Leaves

(* A foreign file is where it was put, or claimed from there; the ones that *)
(* are to be removed were found by a sweep.                                 *)
Intruders ==
  /\ \A n \in Names : disk[n] \in Foreign => <<n, disk[n]>> \in swapped
  /\ \A n \in Names : \A file \in Foreign : <<n, file>> \in aged => <<n, file>> \in swapped
  /\ \A r \in Removers :
       /\ rm[r].held \in Foreign => <<rm[r].name, rm[r].held>> \in swapped
       /\ rm[r].pc # "none" /\ rm[r].id \in Foreign => <<rm[r].name, rm[r].id>> \in condemned

(* The life of the evidence.                                                *)
Evidence ==
  \A l \in Leaves :
    /\ leave[l] = "none" =>
         /\ disk[l] = "none" /\ l \notin deleted \cup sweep.todo
         /\ sweep.pc \in {"removing", "audit"} => sweep.name # l
    /\ leave[l] \in {"written", "kept"} =>
         \/ disk[l] = "own" \/ l \in deleted \/ <<l, "own">> \in stranded
         \/ rm["retention"].pc # "none" /\ rm["retention"].name = l /\ rm["retention"].held = "own"
    /\ leave[l] = "refused" => disk[l] = "none" \/ l \in orphans
    /\ l \in deleted => disk[l] = "none"
    /\ rm["retention"].pc # "none" /\ rm["retention"].name = l =>
         /\ rm["retention"].held = "own" => disk[l] = "none"
         /\ rm["retention"].pc \in {"delete", "failed"} => l \notin deleted

(* The deletion that the retention sweep is at, which it will audit next.   *)
Current == IF sweep.pc \in {"removing", "audit"} THEN {sweep.name} ELSE {}
Accounted == Cardinality((deleted \ audit) \ Current) <= ends + faults

(* The removal of a photo has taken it from its place.                      *)
Taken(c) ==
  \E r \in {"cleaner", "closer"} : rm[r].name = c /\ rm[r].pc \in {"delete", "ok"}
(* The entry that the periodic owner is about to forget.                    *)
Forgotten(c) ==
  cleaner.pc = "unlist" /\ \E w \in cleaner.owned : w.name = c /\ w.status = "captured" /\ Unchanged(w)

(* A photo is published once, by its task, and nobody removes it before its *)
(* task is over.  A foreign file leaves its name before its removal claims  *)
(* it only when another removal took it, at shutdown, when no task will     *)
(* publish there.                                                           *)
Tasks ==
  /\ \A c \in Captures :
       /\ entry[c].status = "captured" => task[c] = "done"
       /\ task[c] = "published" => disk[c] = "own" \/ Tampered(c)
       /\ disk[c] = "own" => task[c] \in {"published", "done"}
       /\ <<c, "own">> \in aged => task[c] = "done"
  /\ \A r \in {"cleaner", "closer"} : rm[r].pc # "none" =>
       IF rm[r].id = "own"
         THEN /\ task[rm[r].name] = "done"
              /\ rm[r].pc \in {"delete", "ok"} => disk[rm[r].name] # "own"
         ELSE /\ rm[r].held # "own"
              /\ rm[r].pc = "claim" /\ disk[rm[r].name] \notin Foreign =>
                   /\ disk[rm[r].name] = "none" /\ process = "closing"
                   /\ task[rm[r].name] \in {"none", "done"}

(* Photos and sessions.                                                     *)
Sessions ==
  \A c \in Captures :
    /\ entry[c].status = "captured" =>
         \/ disk[c] = "own" \/ Tampered(c) \/ Taken(c) \/ Forgotten(c)
         \/ <<c, "own">> \in stranded
    /\ disk[c] = "own" =>
         task[c] = "published" \/ entry[c].status = "captured" \/ c \in orphans

(* The entry that the periodic owner removes is the one it listed, and a    *)
(* photo it sweeps has none.                                                *)
Removes(w) ==
  /\ cleaner.owned = {w}
  /\ cleaner.pc = "removing" => w.status = "captured" /\ rm["cleaner"].name = w.name
  /\ w.status = "captured" =>
       /\ task[w.name] = "done"
       /\ entry[w.name].status = "captured" => entry[w.name].stamp = w.stamp
       /\ cleaner.pc = "unlist" => disk[w.name] # "own"
Owner ==
  /\ cleaner.pc \in {"removing", "unlist"} => \E w \in Listed : Removes(w)
  /\ cleaner.pc \in {"sweep", "sweeping"} =>
       \A c \in Captures \ cleaner.owned :
         <<c, "own">> \in cleaner.aged => entry[c].status # "captured"
  /\ cleaner.pc = "sweeping" /\ rm["cleaner"].id = "own" =>
       entry[rm["cleaner"].name].status # "captured"

(* Once the shutdown has joined the tasks nothing is captured any more.     *)
Closing ==
  /\ closer.pc # "idle" => process = "closing"
  /\ closer.pc \in {"idle", "joining"} => closer.work = NoWork
  /\ process = "down" => cleaner.pc = "idle" /\ \A c \in Captures : entry[c] = NoEntry
  /\ process = "down" \/ closer.pc \notin {"idle", "joining"} =>
       \A c \in Captures : task[c] \in {"none", "done"}
  /\ closer.pc \in {"work", "removing"} =>
       \A w \in closer.work :
         IF w.photo THEN task[w.name] = "done" ELSE entry[w.name].status # "captured"
  /\ closer.pc \in {"sweep", "sweeping"} =>
       \A f \in closer.work :
         f \in condemned /\ f[1] \in Captures /\ entry[f[1]].status # "captured"
  /\ closer.pc = "sweeping" => entry[rm["closer"].name].status # "captured"

FilesInv ==
  /\ Types /\ Removing /\ Intruders /\ ForeignSurvives /\ Evidence /\ Accounted
  /\ Tasks /\ Sessions /\ Owner /\ Closing

-----------------------------------------------------------------------------
(* Removals.                                                                *)

(* The removal of r becomes one with this state, name, identity and claim.  *)
Moved(r, pc, n, id, held) ==
  /\ rm' \in [Removers -> Removals]
  /\ rm'[r].pc = pc /\ rm'[r].name = n /\ rm'[r].id = id /\ rm'[r].held = held
  /\ \A q \in Removers : q # r => rm'[q] = rm[q]

(* A removal starts.                                                        *)
LEMMA Starts ==
  ASSUME Types, NEW r \in Removers, NEW n \in Names, NEW id \in Contents,
         StartRemoval(r, n, id)
  PROVE  Moved(r, "open", n, id, "none")
BY DEF Types, StartRemoval, Moved, Removals, Contents

(* A removal ends and keeps its name.                                       *)
LEMMA Ends ==
  ASSUME Types, NEW r \in Removers, NEW o \in {"ok", "failed"}, EndRemoval(r, o)
  PROVE  Moved(r, o, rm[r].name, rm[r].id, "none")
<1> DEFINE x == [rm[r] EXCEPT !.pc = o, !.held = "none"]
<1>1. rm[r] \in Removals BY DEF Types
<1>2. x \in Removals /\ x.pc = o /\ x.name = rm[r].name
      /\ x.id = rm[r].id /\ x.held = "none"
  BY <1>1 DEF Removals, Contents
<1>3. rm' = [rm EXCEPT ![r] = x] BY <1>1 DEF EndRemoval, Types, Removals
<1> HIDE DEF x
<1> QED BY <1>2, <1>3 DEF Moved, Types

(* The result of a removal is taken.                                        *)
LEMMA Clears ==
  ASSUME Types, NEW r \in Removers, rm' = [rm EXCEPT ![r] = NoRemoval]
  PROVE  Moved(r, "none", 0, "none", "none")
BY DEF Types, NoRemoval, Moved, Removals, Contents

(* The identity was the one that is to go.                                  *)
LEMMA Proceeds ==
  ASSUME Types, NEW r \in Removers, rm' = [rm EXCEPT ![r].pc = "claim"]
  PROVE  Moved(r, "claim", rm[r].name, rm[r].id, rm[r].held)
BY DEF Types, Moved, Removals

(* The file is held under quarantine.                                       *)
LEMMA Claims ==
  ASSUME Types, NEW r \in Removers, NEW h \in Contents,
         rm' = [rm EXCEPT ![r].pc = "delete", ![r].held = h]
  PROVE  Moved(r, "delete", rm[r].name, rm[r].id, h)
<1> DEFINE x == [rm[r] EXCEPT !.pc = "delete", !.held = h]
<1>1. rm[r] \in Removals /\ rm \in [Removers -> Removals] BY DEF Types
<1>2. x \in Removals /\ x.pc = "delete" /\ x.name = rm[r].name
      /\ x.id = rm[r].id /\ x.held = h
  BY <1>1 DEF Removals
<1>3. rm' = [rm EXCEPT ![r] = x] BY <1>1 DEF Removals
<1> HIDE DEF x
<1>4. rm' \in [Removers -> Removals] /\ rm'[r] = x
  BY ONLY <1>1, <1>2, <1>3
<1>5. \A q \in Removers : q # r => rm'[q] = rm[q]
  BY ONLY <1>1, <1>2, <1>3
<1> QED BY ONLY <1>2, <1>4, <1>5 DEF Moved

(* The deletions that wait for their audit are finitely many.               *)
LEMMA FinitelyMany ==
  ASSUME Types
  PROVE  IsFiniteSet(deleted \ audit) /\ ends \in Nat /\ faults \in Nat
BY FilesAssumption, FS_Subset DEF Types

(* A fault pays for one deletion more, and one that costs none changes      *)
(* nothing.                                                                 *)
LEMMA AccountedGrows ==
  ASSUME Types, Accounted, UNCHANGED <<deleted, audit, sweep, ends>>,
         faults' \in Nat, faults <= faults'
  PROVE  Accounted'
<1>1. IsFiniteSet(deleted \ audit) /\ ends \in Nat /\ faults \in Nat BY FinitelyMany
<1>2. Cardinality((deleted \ audit) \ Current) \in Nat
  BY <1>1, FS_Difference, FS_CardinalityType
<1> QED BY <1>1, <1>2 DEF Accounted, Current

(* The shutdown lists sessions, and then files.                             *)
LEMMA CloserNames ==
  ASSUME Types
  PROVE  closer.pc \in {"work", "removing"} => \A w \in closer.work : w.name \in Captures
BY DEF Types, Closers, Photos

(* What the periodic owner has found stays so while it does not move.       *)
LEMMA OwnerStays ==
  ASSUME FilesInv, cleaner' = cleaner,
         rm'["cleaner"].name = rm["cleaner"].name, rm'["cleaner"].id = rm["cleaner"].id,
         \A c \in Captures : entry'[c].status = entry[c].status,
         \A w \in Listed : Removes(w) => Removes(w)'
  PROVE  Owner'
<1>1. cleaner'.pc \in {"removing", "unlist"} => \E w \in Listed : Removes(w)'
  BY DEF FilesInv, Owner
<1>2. cleaner'.pc \in {"sweep", "sweeping"} =>
        \A c \in Captures \ cleaner'.owned :
          <<c, "own">> \in cleaner'.aged => entry'[c].status # "captured"
  BY DEF FilesInv, Owner
<1>3. cleaner.pc = "sweeping" => rm["cleaner"].name \in Captures
  BY DEF FilesInv, Removing
<1>4. cleaner'.pc = "sweeping" /\ rm'["cleaner"].id = "own" =>
        entry'[rm'["cleaner"].name].status # "captured"
  BY <1>3 DEF FilesInv, Owner
<1> QED BY <1>1, <1>2, <1>4 DEF Owner

(* And so does what the shutdown has found.                                 *)
LEMMA ClosingStays ==
  ASSUME FilesInv, UNCHANGED <<process, task, cleaner, closer, condemned>>,
         rm'["closer"].name = rm["closer"].name,
         \A c \in Captures : entry'[c].status = entry[c].status,
         process = "down" => entry' = entry
  PROVE  Closing'
<1>1. /\ closer'.pc # "idle" => process' = "closing"
      /\ closer'.pc \in {"idle", "joining"} => closer'.work = NoWork
      /\ process' = "down" \/ closer'.pc \notin {"idle", "joining"} =>
           \A c \in Captures : task'[c] \in {"none", "done"}
  BY DEF FilesInv, Closing
<1>2. process' = "down" => cleaner'.pc = "idle" /\ \A c \in Captures : entry'[c] = NoEntry
  BY DEF FilesInv, Closing
<1>3. ASSUME closer'.pc \in {"work", "removing"}, NEW w \in closer'.work
      PROVE  IF w.photo THEN task'[w.name] = "done" ELSE entry'[w.name].status # "captured"
  <2>1. w.name \in Captures BY <1>3, CloserNames DEF FilesInv
  <2> QED BY <1>3, <2>1 DEF FilesInv, Closing
<1>4. ASSUME closer'.pc \in {"sweep", "sweeping"}, NEW f \in closer'.work
      PROVE  f \in condemned' /\ f[1] \in Captures /\ entry'[f[1]].status # "captured"
  BY <1>4 DEF FilesInv, Closing
<1>5. closer'.pc = "sweeping" => entry'[rm'["closer"].name].status # "captured"
  <2>1. closer.pc = "sweeping" => rm["closer"].name \in Captures
    BY DEF FilesInv, Removing
  <2> QED BY <2>1 DEF FilesInv, Closing
<1> QED BY <1>1, <1>2, <1>3, <1>4, <1>5 DEF Closing

-----------------------------------------------------------------------------
(* Steps of a removal.                                                      *)

(* The identity that is compared: a removal ends without its file, ends     *)
(* with an error before a file that is there, or goes on to claim it.       *)
LEMMA OpensKeeps ==
  ASSUME FilesInv, NEW r \in Removers, RemoveOpens(r)
  PROVE  FilesInv'
<1> DEFINE n == rm[r].name
           i == rm[r].id
<1>0. Types /\ Removing /\ rm[r] \in Removals BY DEF FilesInv, Types
<1>1. PICK pc \in {"ok", "failed", "claim"} :
        /\ Moved(r, pc, n, i, "none")
        /\ pc = "ok" => disk[n] = "none"
        /\ pc = "failed" => disk[n] # "none"
        /\ pc = "claim" => disk[n] = i
        /\ faults' \in Nat /\ faults <= faults'
  <2>1. rm[r].held = "none" /\ faults \in Nat /\ i # "none"
    BY <1>0 DEF Removing, RemoveOpens, Types, Kept, Foreign
  <2>2. CASE disk[n] = "none" /\ EndRemoval(r, "ok") /\ UNCHANGED faults
    <3>1. Moved(r, "ok", n, i, "none") BY <1>0, <2>2, Ends
    <3> QED BY <2>1, <2>2, <3>1
  <2>3. CASE disk[n] # "none" /\ EndRemoval(r, "failed") /\ (Fault \/ UNCHANGED faults)
    <3>1. Moved(r, "failed", n, i, "none") BY <1>0, <2>3, Ends
    <3> QED BY <2>1, <2>3, <3>1 DEF Fault
  <2>4. CASE disk[n] = i /\ rm' = [rm EXCEPT ![r].pc = "claim"] /\ UNCHANGED faults
    <3>1. Moved(r, "claim", n, i, "none") BY <1>0, <2>1, <2>4, Proceeds
    <3> QED BY <2>1, <2>4, <3>1
  <2> QED BY <2>1, <2>2, <2>3, <2>4 DEF RemoveOpens
<1>2. UNCHANGED <<budget, process, disk, aged, stranded, memory, evidence, history>>
      /\ rm[r].pc = "open"
  BY DEF RemoveOpens
<1> HIDE DEF n, i
<1> USE DEF memory, evidence, history, Moved
<1>3. Types' BY <1>0, <1>1, <1>2 DEF Types
<1>4. Removing' BY <1>0, <1>1, <1>2 DEF Removing, n, i, Removers
<1>5. Intruders' BY <1>1, <1>2 DEF FilesInv, Intruders, n, i, Removers, Foreign
<1>6. ForeignSurvives'
  BY <1>0, <1>1, <1>2 DEF FilesInv, ForeignSurvives, n, Types, Foreign, Removing
<1>7. Evidence'
  <2>1. CASE r = "retention"
    <3>1. /\ rm["retention"].held = "none" /\ rm["retention"].pc = "open"
          /\ rm["retention"].name = n /\ rm'["retention"].name = n
          /\ rm'["retention"].held = "none" /\ rm'["retention"].pc # "delete"
          /\ rm'["retention"].pc = "failed" => disk[n] # "none"
      BY <1>0, <1>1, <1>2, <2>1 DEF Removing, n
    <3> HIDE DEF Moved
    <3> QED BY <1>2, <3>1 DEF FilesInv, Evidence
  <2>2. CASE r # "retention"
    <3>1. rm'["retention"] = rm["retention"] BY <1>1, <2>2 DEF Removers
    <3> QED BY <1>2, <3>1 DEF FilesInv, Evidence
  <2> QED BY <2>1, <2>2
<1>8. Accounted'
  BY <1>0, <1>1, <1>2, FS_Subset, FS_CardinalityType, FilesAssumption DEF FilesInv, Accounted, Current, Types
<1>9. Tasks' BY <1>0, <1>1, <1>2 DEF FilesInv, Tasks, n, i, Tampered, Removers, Removing, Kept, Foreign
<1>10. Sessions'
  <2>1. \A c \in Captures : Tampered(c) => Tampered(c)' BY <1>1, <1>2 DEF Tampered
  <2>2. \A c \in Captures : Taken(c) => Taken(c)'
    BY <1>1, <1>2 DEF Taken, n, Removers
  <2>3. \A c \in Captures : Forgotten(c) => Forgotten(c)' BY <1>1, <1>2 DEF Forgotten, Unchanged
  <2> QED BY <1>2, <2>1, <2>2, <2>3 DEF FilesInv, Sessions
<1>11. Owner'
  <2>1. \A w \in Listed : Removes(w) => Removes(w)'
    BY <1>1, <1>2 DEF Removes, Listed, Names, n, i, Removers
  <2>2. rm'["cleaner"].name = rm["cleaner"].name /\ rm'["cleaner"].id = rm["cleaner"].id
    BY <1>1, <1>2 DEF n, i, Removers
  <2>3. UNCHANGED <<cleaner, entry>> BY <1>2
  <2> QED BY <2>1, <2>2, <2>3, OwnerStays
<1>12. Closing'
  <2>1. rm'["closer"].name = rm["closer"].name BY <1>1, <1>2 DEF n, i, Removers
  <2>2. UNCHANGED <<process, task, entry, cleaner, closer, condemned>> BY <1>2
  <2> QED BY <2>1, <2>2, ClosingStays
<1> QED BY <1>3, <1>4, <1>5, <1>6, <1>7, <1>8, <1>9, <1>10, <1>11, <1>12 DEF FilesInv

(* Whatever is at the name goes to the quarantine.                          *)
LEMMA ClaimsKeeps ==
  ASSUME FilesInv, NEW r \in Removers, RemoveClaims(r)
  PROVE  FilesInv'
<1> DEFINE n == rm[r].name
           i == rm[r].id
<1>0. Types /\ Removing /\ rm[r] \in Removals BY DEF FilesInv, Types
<1>1. rm[r].pc = "claim" /\ rm[r].held = "none" /\ n \in Names
  BY <1>0, FilesAssumption DEF Removing, RemoveClaims, Names, Removers
<1>2. UNCHANGED <<budget, process, aged, stranded, memory, evidence, history, faults>>
  BY DEF RemoveClaims
<1>3. CASE disk[n] = "none" /\ EndRemoval(r, "ok") /\ UNCHANGED disk
  <2>1. Moved(r, "ok", n, i, "none") BY <1>0, <1>3, Ends
  <2> HIDE DEF n, i
  <2> USE DEF memory, evidence, history, Moved
  <2>3. Types' BY <1>0, <1>2, <1>3, <2>1 DEF Types
  <2>4. Removing' BY <1>0, <1>1, <1>2, <1>3, <2>1 DEF Removing, n, i, Removers
  <2>5. Intruders' BY <1>1, <1>2, <1>3, <2>1 DEF FilesInv, Intruders, n, i, Removers, Foreign
  <2>6. ForeignSurvives'
    BY <1>0, <1>1, <1>2, <1>3, <2>1 DEF FilesInv, ForeignSurvives, n, Types, Foreign, Removing
  <2>7. Evidence'
    <3>1. CASE r = "retention"
      BY <1>0, <1>1, <1>2, <1>3, <2>1, <3>1 DEF FilesInv, Evidence, n, Removing, Removers
    <3>2. CASE r # "retention"
      <4>1. rm'["retention"] = rm["retention"] BY <2>1, <3>2 DEF Removers
      <4> QED BY <1>2, <1>3, <4>1 DEF FilesInv, Evidence
    <3> QED BY <3>1, <3>2
  <2>8. Accounted'
    BY <1>2 DEF FilesInv, Accounted, Current
  <2>9. Tasks' BY <1>1, <1>2, <1>3, <2>1 DEF FilesInv, Tasks, n, i, Tampered, Removers
  <2>10. Sessions'
    <3>1. \A c \in Captures : Tampered(c) => Tampered(c)' BY <1>1, <1>2, <2>1 DEF Tampered
    <3>2. \A c \in Captures : Taken(c) => Taken(c)'
      BY <1>1, <1>2, <2>1 DEF Taken, n, Removers
    <3>3. \A c \in Captures : Forgotten(c) => Forgotten(c)' BY <1>1, <1>2, <2>1 DEF Forgotten, Unchanged
    <3> QED BY <1>2, <1>3, <3>1, <3>2, <3>3 DEF FilesInv, Sessions
  <2>11. Owner'
    <3>1. \A w \in Listed : Removes(w) => Removes(w)'
      BY <1>2, <1>3, <2>1 DEF Removes, Listed, Names, n, i, Removers
    <3>2. rm'["cleaner"].name = rm["cleaner"].name /\ rm'["cleaner"].id = rm["cleaner"].id
      BY <1>1, <1>2, <1>3, <2>1 DEF n, i, Removers
    <3>3. UNCHANGED <<cleaner, entry>> BY <1>2
    <3> QED BY <3>1, <3>2, <3>3, OwnerStays
  <2>12. Closing'
    <3>1. rm'["closer"].name = rm["closer"].name BY <1>2, <1>3, <2>1 DEF n, i, Removers
    <3>2. UNCHANGED <<process, task, entry, cleaner, closer, condemned>> BY <1>2
    <3> QED BY <3>1, <3>2, ClosingStays
  <2> QED BY <2>3, <2>4, <2>5, <2>6, <2>7, <2>8, <2>9, <2>10, <2>11, <2>12 DEF FilesInv
<1>4. CASE /\ disk[n] # "none"
           /\ rm' = [rm EXCEPT ![r].pc = "delete", ![r].held = disk[n]]
           /\ disk' = [disk EXCEPT ![n] = "none"]
  <2>0. disk[n] \in Contents BY <1>0, <1>1 DEF Types
  <2>1. Moved(r, "delete", n, i, disk[n]) BY <1>0, <1>4, <2>0, Claims
  <2>2. /\ disk' \in [Names -> Contents] /\ disk'[n] = "none"
        /\ \A m \in Names : m # n => disk'[m] = disk[m]
    BY <1>0, <1>1, <1>4 DEF Types, Contents
  <2> HIDE DEF n, i
  <2> USE DEF memory, evidence, history, Moved
  <2>3. Types' BY <1>0, <1>2, <2>1, <2>2 DEF Types
  <2>4. Removing' BY <1>0, <1>1, <1>2, <1>4, <2>1 DEF Removing, n, i, Removers
  <2>5. Intruders' BY <1>1, <1>2, <2>1, <2>2 DEF FilesInv, Intruders, n, i, Removers, Foreign
  <2>6. ForeignSurvives'
    BY <1>0, <1>1, <1>2, <2>0, <2>1, <2>2 DEF FilesInv, ForeignSurvives, n, Types, Foreign, Removing, Names
  <2>7. Evidence'
    <3>1. CASE r = "retention"
      <4>1. /\ rm["retention"].held = "none" /\ rm["retention"].pc = "claim"
            /\ rm["retention"].name = n /\ rm'["retention"].name = n
            /\ rm'["retention"].held = disk[n] /\ rm'["retention"].pc = "delete"
            /\ n = sweep.name /\ sweep.pc = "removing"
        BY <1>0, <1>1, <2>1, <3>1 DEF Removing, n
      <4>2. n \in Leaves /\ n \notin deleted
        BY <1>0, <1>4, <4>1 DEF FilesInv, Evidence, Removing
      <4> HIDE DEF Moved
      <4> QED BY <1>2, <2>2, <4>1, <4>2 DEF FilesInv, Evidence, Names
    <3>2. CASE r # "retention"
      <4>1. rm'["retention"] = rm["retention"] /\ n \notin Leaves
        BY <1>0, <1>1, <2>1, <3>2, FilesAssumption DEF Removers, Removing, n
      <4> QED BY <1>2, <2>2, <4>1 DEF FilesInv, Evidence, Names
    <3> QED BY <3>1, <3>2
  <2>8. Accounted'
    BY <1>2 DEF FilesInv, Accounted, Current
  <2>9. Tasks'
    <3>1. \A q \in {"cleaner", "closer"} : rm[q].pc # "none" => rm[q].name \in Names
      BY <1>0 DEF Removing, Names
    <3>2. ASSUME NEW q \in {"cleaner", "closer"}, q # r, rm[q].pc # "none", rm[q].name = n
          PROVE  process = "closing" /\ task[n] \in {"none", "done"}
      <4>1. n \in Captures BY <1>0, <3>2 DEF Removing
      <4>2. r # "retention"
        BY <1>0, <1>1, <4>1, FilesAssumption DEF Removing, n
      <4>3. rm["closer"].pc # "none" BY <1>1, <3>2, <4>2 DEF Removers
      <4> QED BY <1>0, <4>1, <4>3 DEF FilesInv, Closing, Removing
    <3>3. r # "retention" /\ i # "own" => disk[n] # "own"
      BY <1>1, <1>4 DEF FilesInv, Tasks, n, i, Removers, Foreign
    <3>4. ASSUME NEW c \in Captures
          PROVE  /\ task[c] = "published" => disk'[c] = "own" \/ Tampered(c)
                 /\ disk'[c] = "own" => task[c] \in {"published", "done"}
      <4>1. c # n \/ task[c] # "published" \/ disk[c] # "own"
        BY <1>0, <1>1, <3>4, FilesAssumption
        DEF FilesInv, Tasks, n, i, Removing, Removers, Foreign
      <4> QED BY <2>2, <3>4, <4>1 DEF FilesInv, Tasks, Names
    <3>5. ASSUME NEW q \in {"cleaner", "closer"}, rm'[q].pc # "none"
          PROVE  IF rm'[q].id = "own"
                   THEN /\ task[rm'[q].name] = "done"
                        /\ rm'[q].pc \in {"delete", "ok"} => disk'[rm'[q].name] # "own"
                   ELSE /\ rm'[q].held # "own"
                        /\ rm'[q].pc = "claim" /\ disk'[rm'[q].name] \notin Foreign =>
                             /\ disk'[rm'[q].name] = "none" /\ process = "closing"
                             /\ task[rm'[q].name] \in {"none", "done"}
      <4>1. CASE q = r
        BY <1>1, <2>1, <2>2, <3>3, <3>5, <4>1 DEF FilesInv, Tasks, n, i, Removers
      <4>2. CASE q # r
        <5>1. rm'[q] = rm[q] /\ rm[q].name \in Names BY <2>1, <3>1, <3>5, <4>2 DEF Removers
        <5> QED BY <2>2, <3>2, <3>5, <4>2, <5>1 DEF FilesInv, Tasks
      <4> QED BY <4>1, <4>2
    <3> QED BY <1>2, <3>4, <3>5 DEF FilesInv, Tasks, Tampered
  <2>10. Sessions'
    <3>1. \A c \in Captures : Tampered(c) => Tampered(c)' BY <1>1, <1>2, <2>1 DEF Tampered
    <3>2. \A c \in Captures : Taken(c) => Taken(c)'
      BY <1>1, <1>2, <2>1 DEF Taken, n, Removers
    <3>3. \A c \in Captures : Forgotten(c) => Forgotten(c)' BY <1>1, <1>2, <2>1 DEF Forgotten, Unchanged
    <3>4. \A c \in Captures : c = n => Taken(c)'
      <4>1. ASSUME r = "retention" PROVE n \notin Captures
        <5>1. rm["retention"].pc # "none" /\ rm["retention"].name = n BY <1>1, <4>1 DEF n
        <5>2. n \in Leaves BY <1>0, <5>1 DEF Removing
        <5> QED BY <5>2, FilesAssumption
      <4>2. r \in {"cleaner", "closer"} => \A c \in Captures : c = n => Taken(c)'
        BY <2>1 DEF Taken
      <4>3. r = "retention" \/ r \in {"cleaner", "closer"} BY DEF Removers
      <4> QED BY <4>1, <4>2, <4>3
    <3>5. \A c \in Captures : disk'[c] = disk[c] \/ (c = n /\ disk'[c] = "none")
      BY <2>2 DEF Names
    <3> QED BY <1>2, <3>1, <3>2, <3>3, <3>4, <3>5 DEF FilesInv, Sessions
  <2>11. Owner'
    <3>1. \A w \in Listed : Removes(w) => Removes(w)'
      BY <1>2, <2>1, <2>2 DEF Removes, Listed, Names, n, i, Removers
    <3>2. rm'["cleaner"].name = rm["cleaner"].name /\ rm'["cleaner"].id = rm["cleaner"].id
      BY <1>1, <1>2, <2>1 DEF n, i, Removers
    <3>3. UNCHANGED <<cleaner, entry>> BY <1>2
    <3> QED BY <3>1, <3>2, <3>3, OwnerStays
  <2>12. Closing'
    <3>1. rm'["closer"].name = rm["closer"].name BY <1>2, <2>1 DEF n, i, Removers
    <3>2. UNCHANGED <<process, task, entry, cleaner, closer, condemned>> BY <1>2
    <3> QED BY <3>1, <3>2, ClosingStays
  <2> QED BY <2>3, <2>4, <2>5, <2>6, <2>7, <2>8, <2>9, <2>10, <2>11, <2>12 DEF FilesInv
<1> QED BY <1>3, <1>4 DEF RemoveClaims

(* What was claimed is deleted when it is what was opened; another file is  *)
(* put back at its name, or stays in the quarantine, as after a failure.    *)
LEMMA DeletesKeeps ==
  ASSUME FilesInv, NEW r \in Removers, RemoveDeletes(r)
  PROVE  FilesInv'
<1> DEFINE n == rm[r].name
           h == rm[r].held
           i == rm[r].id
<1>0. Types /\ Removing /\ rm[r] \in Removals BY DEF FilesInv, Types
<1>1. rm[r].pc = "delete" /\ h # "none" /\ h \in Contents /\ n \in Names
  BY <1>0, FilesAssumption DEF Removing, RemoveDeletes, Names, Removers, Removals
<1>2. UNCHANGED <<budget, process, aged, memory, leave, policy, sweep, audit, history>>
  BY DEF RemoveDeletes
<1>3. \A q \in {"cleaner", "closer"} : rm[q].pc # "none" => rm[q].name \in Captures
  BY <1>0 DEF Removing
<1>4. r = "retention" =>
        /\ rm["retention"].pc = "delete" /\ rm["retention"].name = n /\ rm["retention"].held = h
        /\ n = sweep.name /\ sweep.pc = "removing" /\ n \in Leaves /\ i = "own"
  BY <1>0, <1>1 DEF Removing
<1>5. r # "retention" => n \in Captures /\ r \in {"cleaner", "closer"}
  BY <1>0, <1>1 DEF Removing, Removers
<1>6. CASE /\ h = i /\ EndRemoval(r, "ok")
           /\ deleted' = deleted \cup ({n} \cap Leaves)
           /\ UNCHANGED <<disk, stranded, faults>>
  <2>1. Moved(r, "ok", n, i, "none") BY <1>0, <1>6, Ends
  <2> HIDE DEF n, h, i
  <2> USE DEF memory, history, Moved
  <2>2. r # "retention" => UNCHANGED deleted /\ rm'["retention"] = rm["retention"]
    BY <1>5, <1>6, <2>1, FilesAssumption DEF Removers
  <2>3. Types' BY <1>0, <1>2, <1>6, <2>1 DEF Types
  <2>4. Removing' BY <1>0, <1>1, <1>2, <1>6, <2>1 DEF Removing, n, i, Removers
  <2>5. Intruders' BY <1>1, <1>2, <1>6, <2>1 DEF FilesInv, Intruders, n, i, Removers, Foreign
  <2>6. ForeignSurvives'
    <3>1. ASSUME NEW f \in swapped, f[1] = n, f[2] = h PROVE f \in condemned \cap aged
      <4>1. f = <<n, i>> /\ i \in Foreign BY <1>0, <1>6, <3>1 DEF Types
      <4> QED BY <1>0, <1>1, <4>1 DEF FilesInv, Intruders, Types, n, i
    <3>2. ASSUME NEW q \in Removers, NEW f \in swapped, rm[q].name = f[1], rm[q].held = f[2]
          PROVE  q = r \/ (rm'[q].name = f[1] /\ rm'[q].held = f[2])
      BY <2>1, <3>2
    <3> QED BY <1>2, <1>6, <3>1, <3>2 DEF FilesInv, ForeignSurvives, n, h
  <2>7. Evidence'
    <3>1. CASE r = "retention"
      <4>1. rm'["retention"].pc = "ok" /\ rm'["retention"].name = n /\ rm'["retention"].held = "none"
        BY <2>1, <3>1
      <4> HIDE DEF Moved
      <4> QED BY <1>2, <1>4, <1>6, <3>1, <4>1 DEF FilesInv, Evidence
    <3>2. CASE r # "retention"
      BY <1>2, <1>6, <2>2, <3>2 DEF FilesInv, Evidence
    <3> QED BY <3>1, <3>2
  <2>8. Accounted'
    <3>1. CASE r = "retention"
      <4>1. Current = {n} /\ Current' = {n} BY <1>2, <1>4, <3>1 DEF Current
      <4>2. (deleted' \ audit') \ Current' = (deleted \ audit) \ Current
        BY <1>2, <1>6, <4>1
      <4> QED BY <1>2, <1>6, <4>2 DEF FilesInv, Accounted
    <3>2. CASE r # "retention"
      BY <1>2, <1>6, <2>2, <3>2 DEF FilesInv, Accounted, Current
    <3> QED BY <3>1, <3>2
  <2>9. Tasks' BY <1>1, <1>2, <1>3, <1>6, <2>1 DEF FilesInv, Tasks, n, i, Tampered, Removers
  <2>10. Sessions'
    <3>1. \A c \in Captures : Tampered(c) => Tampered(c)' BY <1>1, <1>2, <2>1 DEF Tampered
    <3>2. \A c \in Captures : Taken(c) => Taken(c)'
      BY <1>1, <1>2, <2>1 DEF Taken, n, Removers
    <3>3. \A c \in Captures : Forgotten(c) => Forgotten(c)' BY <1>1, <1>2, <2>1 DEF Forgotten, Unchanged
    <3> QED BY <1>2, <1>6, <3>1, <3>2, <3>3 DEF FilesInv, Sessions
  <2>11. Owner'
    <3>1. \A w \in Listed : Removes(w) => Removes(w)'
      BY <1>2, <1>6, <2>1 DEF Removes, Listed, Names, n, i, Removers
    <3>2. rm'["cleaner"].name = rm["cleaner"].name /\ rm'["cleaner"].id = rm["cleaner"].id
      BY <1>1, <1>2, <1>6, <2>1 DEF n, i, Removers
    <3>3. UNCHANGED <<cleaner, entry>> BY <1>2
    <3> QED BY <3>1, <3>2, <3>3, OwnerStays
  <2>12. Closing'
    <3>1. rm'["closer"].name = rm["closer"].name BY <1>2, <2>1 DEF n, i, Removers
    <3>2. UNCHANGED <<process, task, entry, cleaner, closer, condemned>> BY <1>2
    <3> QED BY <3>1, <3>2, ClosingStays
  <2> QED BY <2>3, <2>4, <2>5, <2>6, <2>7, <2>8, <2>9, <2>10, <2>11, <2>12 DEF FilesInv
<1>7. CASE /\ h # i /\ EndRemoval(r, "failed") /\ UNCHANGED <<deleted, faults>>
           /\ IF disk[n] = "none"
                THEN disk' = [disk EXCEPT ![n] = h] /\ UNCHANGED stranded
                ELSE stranded' = stranded \cup {<<n, h>>} /\ UNCHANGED disk
  <2>1. Moved(r, "failed", n, i, "none") BY <1>0, <1>7, Ends
  <2>2. h \in Foreign /\ <<n, h>> \in swapped
    <3>1. h # "own" BY <1>1, <1>4, <1>5, <1>7 DEF FilesInv, Tasks
    <3> QED BY <1>1, <3>1 DEF FilesInv, Intruders, Contents
  <2>3. n \in Captures /\ r \in {"cleaner", "closer"} /\ Tampered(n)
    <3>1. n \in Captures BY <1>0, <2>2 DEF Types
    <3> QED BY <1>4, <1>5, <2>2, <3>1, FilesAssumption DEF Tampered
  <2>4. /\ disk' \in [Names -> Contents] /\ (disk'[n] = "own" <=> disk[n] = "own")
        /\ disk[n] = "none" \/ disk[n] \in Foreign => disk'[n] \in Foreign
        /\ \A m \in Names : m # n => disk'[m] = disk[m]
        /\ disk[n] # "none" => disk'[n] = disk[n] /\ <<n, h>> \in stranded'
        /\ disk[n] = "none" => disk'[n] = h
        /\ \A f \in stranded : f \in stranded'
        /\ stranded' \subseteq Names \X ({"tmp", "own"} \cup Foreign)
    <3>1. CASE disk[n] = "none"
      BY <1>0, <1>1, <1>7, <2>2, <3>1 DEF Types, Foreign
    <3>2. CASE disk[n] # "none" BY <1>0, <1>1, <1>7, <2>2, <3>2 DEF Types
    <3> QED BY <3>1, <3>2
  <2>5. rm'["retention"] = rm["retention"]
    BY <2>1, <2>3 DEF Moved, Removers
  <2>6. UNCHANGED <<deleted, faults>> BY <1>7
  <2> HIDE DEF n, h, i
  <2> USE DEF memory, history, Moved
  <2>7. Types' BY <1>0, <1>2, <2>1, <2>4, <2>6 DEF Types
  <2>8. Removing' BY <1>0, <1>1, <1>2, <2>1 DEF Removing, n, i, Removers
  <2>9. Intruders'
    BY <1>1, <1>2, <2>1, <2>2, <2>4 DEF FilesInv, Intruders, n, i, Removers, Foreign
  <2>10. ForeignSurvives'
    BY <1>0, <1>1, <1>2, <2>1, <2>2, <2>4
    DEF FilesInv, ForeignSurvives, n, h, Types, Foreign, Removing, Names
  <2>11. Evidence'
    <3> HIDE DEF Moved
    <3> QED BY ZenonT(60), <1>2, <2>3, <2>4, <2>5, <2>6, FilesAssumption DEF FilesInv, Evidence, Names
  <2>12. Accounted' BY <1>2, <2>6 DEF FilesInv, Accounted, Current
  <2>13. Tasks'
    BY <1>1, <1>2, <1>3, <2>1, <2>3, <2>4
    DEF FilesInv, Tasks, n, i, Tampered, Removers, Names
  <2>14. Sessions'
    <3>1. \A c \in Captures : Tampered(c) => Tampered(c)' BY <1>1, <1>2, <2>1 DEF Tampered
    <3>2. \A c \in Captures : c # n /\ Taken(c) => Taken(c)'
      BY <1>1, <1>2, <2>1 DEF Taken, n, Removers
    <3>3. \A c \in Captures : Forgotten(c) => Forgotten(c)' BY <1>1, <1>2, <2>1 DEF Forgotten, Unchanged
    <3>4. \A c \in Captures : disk'[c] = "own" <=> disk[c] = "own" BY <2>4 DEF Names
    <3> QED BY <1>2, <2>3, <2>4, <3>1, <3>2, <3>3, <3>4 DEF FilesInv, Sessions
  <2>15. Owner'
    <3>1. \A w \in Listed : Removes(w) => Removes(w)'
      BY <1>2, <2>1, <2>4 DEF Removes, Listed, Names, n, i, Removers
    <3>2. rm'["cleaner"].name = rm["cleaner"].name /\ rm'["cleaner"].id = rm["cleaner"].id
      BY <1>1, <1>2, <2>1 DEF n, i, Removers
    <3>3. UNCHANGED <<cleaner, entry>> BY <1>2
    <3> QED BY <3>1, <3>2, <3>3, OwnerStays
  <2>16. Closing'
    <3>1. rm'["closer"].name = rm["closer"].name BY <1>2, <2>1 DEF n, i, Removers
    <3>2. UNCHANGED <<process, task, entry, cleaner, closer, condemned>> BY <1>2
    <3> QED BY <3>1, <3>2, ClosingStays
  <2> QED BY <2>7, <2>8, <2>9, <2>10, <2>11, <2>12, <2>13, <2>14, <2>15, <2>16 DEF FilesInv
<1>8. CASE /\ Fault /\ EndRemoval(r, "failed")
           /\ stranded' = stranded \cup {<<n, h>>} /\ UNCHANGED <<disk, deleted>>
  <2>1. Moved(r, "failed", n, i, "none") BY <1>0, <1>8, Ends
  <2>2. /\ \A f \in stranded : f \in stranded'
        /\ <<n, h>> \in stranded'
        /\ stranded' \subseteq Names \X ({"tmp", "own"} \cup Foreign)
    BY <1>0, <1>1, <1>8 DEF Types, Contents
  <2>3. UNCHANGED <<disk, deleted>> /\ faults \in Nat /\ faults' = faults + 1
    BY <1>0, <1>8 DEF Fault, Types
  <2>4. r # "retention" => rm'["retention"] = rm["retention"]
    BY <2>1 DEF Moved, Removers
  <2> HIDE DEF n, h, i
  <2> USE DEF memory, history, Moved
  <2>5. Types' BY <1>0, <1>2, <2>1, <2>2, <2>3 DEF Types
  <2>6. Removing' BY <1>0, <1>1, <1>2, <2>1 DEF Removing, n, i, Removers
  <2>7. Intruders'
    BY <1>1, <1>2, <2>1, <2>3 DEF FilesInv, Intruders, n, i, Removers, Foreign
  <2>8. ForeignSurvives'
    <3>1. ASSUME NEW f \in swapped, f[1] = n, f[2] = h PROVE f = <<n, h>>
      BY <1>0, <3>1 DEF Types
    <3>2. ASSUME NEW q \in Removers, NEW f \in swapped, rm[q].name = f[1], rm[q].held = f[2]
          PROVE  q = r \/ (rm'[q].name = f[1] /\ rm'[q].held = f[2])
      BY <2>1, <3>2
    <3> QED BY <1>2, <2>2, <2>3, <3>1, <3>2 DEF FilesInv, ForeignSurvives, n, h
  <2>9. Evidence'
    <3>1. CASE r = "retention"
      <4>1. rm'["retention"].pc = "failed" /\ rm'["retention"].name = n
            /\ rm'["retention"].held = "none"
        BY <2>1, <3>1
      <4> HIDE DEF Moved
      <4> QED BY ZenonT(60), <1>2, <1>4, <2>2, <2>3, <3>1, <4>1 DEF FilesInv, Evidence
    <3>2. CASE r # "retention"
      BY <1>2, <2>2, <2>3, <2>4, <3>2 DEF FilesInv, Evidence
    <3> QED BY <3>1, <3>2
  <2>10. Accounted' BY <1>0, <1>2, <2>3, AccountedGrows DEF FilesInv
  <2>11. Tasks'
    BY <1>1, <1>2, <1>3, <2>1, <2>3 DEF FilesInv, Tasks, n, i, Tampered, Removers, Names
  <2>12. Sessions'
    <3>1. ASSUME NEW c \in Captures, Taken(c)
          PROVE  Taken(c)' \/ Tampered(c) \/ <<c, "own">> \in stranded'
      <4>1. CASE c = n
        <5>1. h = "own" \/ <<n, h>> \in swapped
          BY <1>1 DEF FilesInv, Intruders, Contents, n, h
        <5> QED BY <2>2, <4>1, <5>1 DEF Tampered
      <4>2. CASE c # n BY <2>1, <3>1, <4>2 DEF Taken, n, Removers
      <4> QED BY <4>1, <4>2
    <3>2. \A c \in Captures : Forgotten(c) => Forgotten(c)' BY <1>2 DEF Forgotten, Unchanged
    <3> QED BY <1>2, <2>2, <2>3, <3>1, <3>2 DEF FilesInv, Sessions, Tampered
  <2>13. Owner' BY <1>1, <1>2, <2>1, <2>3 DEF FilesInv, Owner, Removes, n, i, Removers
  <2>14. Closing' BY <1>2, <2>1, <2>3 DEF FilesInv, Closing, n, Removers
  <2> QED BY <2>5, <2>6, <2>7, <2>8, <2>9, <2>10, <2>11, <2>12, <2>13, <2>14 DEF FilesInv
<1> QED BY <1>6, <1>7, <1>8 DEF RemoveDeletes, ClaimedIsOpened

-----------------------------------------------------------------------------
(* Files and entries grow old, and somebody else swaps a file.              *)

(* A photo ages once its task is over.                                      *)
LEMMA AgeFileKeeps ==
  ASSUME FilesInv, NEW n \in Names, AgeFile(n)
  PROVE  FilesInv'
<1> USE DEF memory, evidence, history
<1>0. Types /\ Removing BY DEF FilesInv
<1>1. /\ disk[n] # "none" /\ aged' = aged \cup {<<n, disk[n]>>}
      /\ n \in Captures => task[n] # "published"
      /\ UNCHANGED <<budget, process, disk, stranded, rm, memory, evidence, history, faults>>
  BY DEF AgeFile, File
<1>2. n \in Captures /\ disk[n] = "own" => task[n] = "done" BY <1>1 DEF FilesInv, Tasks
<1>3. Types'
  <2>1. <<n, disk[n]>> \in Names \X Kept BY <1>0, <1>1 DEF Types, Contents, Kept
  <2> QED BY <1>1, <2>1 DEF FilesInv, Types
<1>4. Removing' BY <1>1, <1>2 DEF FilesInv, Removing, Removers
<1>5. Intruders' BY <1>1, <1>2 DEF FilesInv, Intruders, Removers, Foreign, Names
<1>6. ForeignSurvives' BY <1>1, <1>2 DEF FilesInv, ForeignSurvives
<1>7. Evidence' BY <1>1, <1>2 DEF FilesInv, Evidence, Names
<1>8. Accounted' BY <1>1, <1>2 DEF FilesInv, Accounted, Current
<1>9. Tasks' BY <1>1, <1>2 DEF FilesInv, Tasks, Tampered, Names
<1>10. Sessions'
  BY <1>1, <1>2
  DEF FilesInv, Sessions, Tampered, Taken, Forgotten, Unchanged, Names
<1>11. Owner' BY <1>1, <1>2 DEF FilesInv, Owner, Removes
<1>12. Closing' BY <1>1, <1>2 DEF FilesInv, Closing
<1> QED
  BY <1>3, <1>4, <1>5, <1>6, <1>7, <1>8, <1>9, <1>10, <1>11, <1>12
  DEF FilesInv

(* An entry that is due keeps its status and its time.                      *)
LEMMA AgeEntryKeeps ==
  ASSUME FilesInv, NEW c \in Captures, AgeEntry(c)
  PROVE  FilesInv'
<1> USE DEF memory, evidence, history
<1>0. Types /\ Removing BY DEF FilesInv
<1>1. /\ UNCHANGED <<budget, process, disk, aged, stranded, rm, task, cleaner, closer,
                     evidence, history, faults>>
      /\ process # "down"
  BY DEF AgeEntry, Up
<1>2. /\ entry' \in [Captures -> Entries]
      /\ \A d \in Captures : entry'[d].status = entry[d].status /\ entry'[d].stamp = entry[d].stamp
  BY <1>0 DEF AgeEntry, Types, Entries
<1>3. Types' BY <1>0, <1>1, <1>2 DEF FilesInv, Types
<1>4. Removing' BY <1>0, <1>1, <1>2 DEF FilesInv, Removing, Removers
<1>5. Intruders' BY <1>0, <1>1, <1>2 DEF FilesInv, Intruders, Removers, Foreign, Names
<1>6. ForeignSurvives' BY <1>0, <1>1, <1>2 DEF FilesInv, ForeignSurvives
<1>7. Evidence' BY <1>0, <1>1, <1>2 DEF FilesInv, Evidence, Names
<1>8. Accounted' BY <1>0, <1>1, <1>2 DEF FilesInv, Accounted, Current
<1>9. Tasks' BY <1>0, <1>1, <1>2 DEF FilesInv, Tasks, Tampered, Names
<1>10. Sessions'
  <2>1. \A d \in Captures : (Tampered(d) => Tampered(d)') /\ (Taken(d) => Taken(d)')
    BY <1>1 DEF Tampered, Taken
  <2>2. \A d \in Captures : Forgotten(d) => Forgotten(d)' BY <1>1, <1>2 DEF Forgotten, Unchanged
  <2> QED BY <1>1, <1>2, <2>1, <2>2 DEF FilesInv, Sessions
<1>11. Owner'
  <2>1. \A w \in Listed : Removes(w) => Removes(w)' BY <1>1, <1>2 DEF Removes, Listed
  <2>2. cleaner' = cleaner /\ rm' = rm BY <1>1
  <2>3. \A d \in Captures : entry'[d].status = entry[d].status BY <1>2
  <2> QED BY <2>1, <2>2, <2>3, OwnerStays
<1>12. Closing'
  <2>1. \A d \in Captures : entry'[d].status = entry[d].status BY <1>2
  <2>2. UNCHANGED <<process, task, cleaner, closer, condemned, rm>> /\ process # "down"
    BY <1>1
  <2> QED BY <2>1, <2>2, ClosingStays
<1> QED
  BY <1>3, <1>4, <1>5, <1>6, <1>7, <1>8, <1>9, <1>10, <1>11, <1>12
  DEF FilesInv

(* The file at the name of a photo is replaced, or appears.                 *)
LEMMA SwapKeeps ==
  ASSUME FilesInv, NEW n \in Names, NEW file \in Foreign, Swap(n, file)
  PROVE  FilesInv'
<1> USE DEF memory, evidence, history
<1>0. Types /\ Removing BY DEF FilesInv
<1>1. /\ n \in Captures /\ n \notin Leaves /\ disk[n] \notin Foreign
      /\ swapped' = swapped \cup {<<n, file>>}
      /\ UNCHANGED <<budget, process, aged, stranded, rm, memory, evidence, orphans,
                     condemned, ends, crashes, faults>>
  BY FilesAssumption DEF Swap
<1>2. /\ disk' \in [Names -> Contents] /\ disk'[n] = file /\ file # "own" /\ file # "none"
      /\ \A m \in Names : m # n => disk'[m] = disk[m]
  BY <1>0 DEF Swap, Types, Contents, Foreign
<1>3. /\ \A c \in Captures : c = n \/ Tampered(c) => Tampered(c)'
      /\ \A m \in Names : disk'[m] = "own" => disk[m] = "own"
      /\ \A l \in Leaves : disk'[l] = disk[l]
  <2>1. <<n, file>> \in swapped' /\ <<n, file>>[1] = n BY <1>1
  <2>2. \A c \in Captures : c = n \/ Tampered(c) => Tampered(c)'
    BY <1>1, <2>1 DEF Tampered
  <2> QED BY <1>1, <1>2, <2>2 DEF Names
<1>4. Types' BY <1>0, <1>1, <1>2 DEF FilesInv, Types
<1>5. Removing' BY <1>0, <1>1, <1>2 DEF FilesInv, Removing, Removers
<1>6. Intruders' BY <1>0, <1>1, <1>2 DEF FilesInv, Intruders, Removers, Foreign, Names
<1>7. ForeignSurvives' BY <1>0, <1>1, <1>2 DEF FilesInv, ForeignSurvives, Types, Names
<1>8. Evidence'
  BY <1>1, <1>3 DEF FilesInv, Evidence
<1>9. Accounted' BY <1>0, <1>1, <1>2 DEF FilesInv, Accounted, Current
<1>10. Tasks' BY <1>0, <1>1, <1>2, <1>3 DEF FilesInv, Tasks, Tampered, Names, Removing
<1>11. Sessions'
  BY <1>0, <1>1, <1>2, <1>3
  DEF FilesInv, Sessions, Tampered, Taken, Forgotten, Unchanged, Names
<1>12. Owner'
  <2>1. \A w \in Listed : Removes(w) => Removes(w)'
    BY <1>1, <1>3 DEF Removes, Listed, Names
  <2> QED BY <1>1, <2>1 DEF FilesInv, Owner
<1>13. Closing' BY <1>0, <1>1, <1>2 DEF FilesInv, Closing
<1> QED
  BY <1>4, <1>5, <1>6, <1>7, <1>8, <1>9, <1>10, <1>11, <1>12, <1>13
  DEF FilesInv

(* The operator sets a period for the evidence.                             *)
LEMMA SetPolicyKeeps ==
  ASSUME FilesInv, SetPolicy
  PROVE  FilesInv'
<1> USE DEF memory, evidence, history
<1>1. UNCHANGED <<budget, process, disk, aged, stranded, rm, task, entry, cleaner, closer,
                  leave, sweep, audit, deleted, history, faults>>
  BY DEF SetPolicy
<1>2. Types' BY <1>1 DEF FilesInv, Types
<1>3. Removing' BY <1>1 DEF FilesInv, Removing, Removers
<1>4. Intruders' BY <1>1 DEF FilesInv, Intruders, Removers, Foreign, Names
<1>5. ForeignSurvives' BY <1>1 DEF FilesInv, ForeignSurvives
<1>6. Evidence' BY <1>1 DEF FilesInv, Evidence, Names
<1>7. Accounted' BY <1>1 DEF FilesInv, Accounted, Current
<1>8. Tasks' BY <1>1 DEF FilesInv, Tasks, Tampered, Names
<1>9. Sessions' BY <1>1 DEF FilesInv, Sessions, Tampered, Taken, Forgotten, Unchanged, Names
<1>10. Owner' BY <1>1 DEF FilesInv, Owner, Removes
<1>11. Closing' BY <1>1 DEF FilesInv, Closing
<1> QED
  BY <1>2, <1>3, <1>4, <1>5, <1>6, <1>7, <1>8, <1>9, <1>10, <1>11
  DEF FilesInv

-----------------------------------------------------------------------------
(* A capture.                                                               *)

(* The entry of c becomes one with this status.                             *)
Became(c, status) ==
  /\ entry' \in [Captures -> Entries] /\ entry'[c].status = status
  /\ \A d \in Captures : d # c => entry'[d] = entry[d]

(* An insertion replaces the entry of one session.                          *)
LEMMA Inserts ==
  ASSUME Types, NEW c \in Captures, NEW s \in {"capturing", "captured", "failed"}, Insert(c, s)
  PROVE  Became(c, s)
BY DEF Types, Insert, Became, Entries

(* A new session has neither a photo nor anybody at work on its name.       *)
LEMMA CaptureKeeps ==
  ASSUME FilesInv, NEW c \in Captures, capture_from_device(c)
  PROVE  FilesInv'
<1> USE DEF memory, evidence, history
<1>0. Types /\ Removing BY DEF FilesInv
<1>1. /\ task[c] = "none" /\ process = "serving"
      /\ UNCHANGED <<budget, process, disk, aged, stranded, rm, cleaner, closer, evidence,
                     history, faults>>
  BY DEF capture_from_device
<1>2. /\ entry' \in [Captures -> Entries] /\ entry'[c].status = "capturing"
      /\ \A d \in Captures : d # c => entry'[d] = entry[d]
  BY <1>0 DEF capture_from_device, Insert, Types, Entries
<1>3. /\ task' \in [Captures -> {"none", "capturing", "writing", "published", "done"}]
      /\ task'[c] = "capturing"
      /\ \A d \in Captures : d # c => task'[d] = task[d]
  BY <1>0 DEF capture_from_device, Types
<1>4. Types' BY <1>0, <1>1, <1>2, <1>3 DEF FilesInv, Types
<1>5. Removing' BY <1>0, <1>1, <1>2, <1>3 DEF FilesInv, Removing, Removers
<1>6. Intruders' BY <1>0, <1>1, <1>2, <1>3 DEF FilesInv, Intruders, Removers, Foreign, Names
<1>7. ForeignSurvives' BY <1>0, <1>1, <1>2, <1>3 DEF FilesInv, ForeignSurvives
<1>8. Evidence'
  BY <1>1 DEF FilesInv, Evidence
<1>9. Accounted' BY <1>1 DEF FilesInv, Accounted, Current
<1>10. Tasks' BY <1>0, <1>1, <1>2, <1>3 DEF FilesInv, Tasks, Tampered, Names, Removing
<1>11. Sessions'
  <2>1. \A d \in Captures : (Tampered(d) => Tampered(d)') /\ (Taken(d) => Taken(d)')
    BY <1>1 DEF Tampered, Taken
  <2>2. \A d \in Captures : d # c /\ Forgotten(d) => Forgotten(d)'
    BY <1>1, <1>2 DEF Forgotten, Unchanged
  <2> QED BY <1>1, <1>2, <1>3, <2>1, <2>2 DEF FilesInv, Sessions, Tasks
<1>12. Owner'
  <2>1. \A w \in Listed : Removes(w) => Removes(w)'
    BY <1>0, <1>1, <1>2, <1>3 DEF FilesInv, Tasks, Removes, Listed, Names
  <2> QED
    BY <1>0, <1>1, <1>2, <1>3, <2>1
    DEF FilesInv, Owner, Tasks, Removing
<1>13. Closing'
  BY <1>0, <1>1, <1>2, <1>3
  DEF FilesInv, Closing, Types, Closers, Photos, NoWork
<1> QED
  BY <1>4, <1>5, <1>6, <1>7, <1>8, <1>9, <1>10, <1>11, <1>12, <1>13
  DEF FilesInv

(* The answer of the reader, or that there is none.                         *)
LEMMA CapturedKeeps ==
  ASSUME FilesInv, NEW c \in Captures, Captured(c)
  PROVE  FilesInv'
<1> USE DEF memory, evidence, history
<1>0. Types /\ Removing BY DEF FilesInv
<1>1. /\ task[c] = "capturing" /\ process # "down"
      /\ UNCHANGED <<budget, process, disk, aged, stranded, rm, cleaner, closer, evidence,
                     history, faults>>
  BY DEF Captured, Task, Up
<1>2. /\ entry' \in [Captures -> Entries]
      /\ entry'[c].status = "failed" \/ entry'[c] = entry[c]
      /\ \A d \in Captures : d # c => entry'[d] = entry[d]
  <2>1. CASE UNCHANGED entry BY <1>0, <2>1 DEF Types
  <2>2. CASE Insert(c, "failed") BY <1>0, <2>2, Inserts DEF Became
  <2> QED BY <2>1, <2>2 DEF Captured
<1>3. /\ task' \in [Captures -> {"none", "capturing", "writing", "published", "done"}]
      /\ task'[c] \in {"writing", "done"}
      /\ \A d \in Captures : d # c => task'[d] = task[d]
  BY <1>0 DEF Captured, Task, Types
<1>4. entry[c].status # "captured" /\ disk[c] # "own"
  BY <1>1 DEF FilesInv, Tasks
<1>5. Types' BY <1>0, <1>1, <1>2, <1>3, <1>4 DEF FilesInv, Types
<1>6. Removing' BY <1>0, <1>1, <1>2, <1>3, <1>4 DEF FilesInv, Removing, Removers
<1>7. Intruders'
  BY <1>0, <1>1, <1>2, <1>3, <1>4
  DEF FilesInv, Intruders, Removers, Foreign, Names
<1>8. ForeignSurvives' BY <1>0, <1>1, <1>2, <1>3, <1>4 DEF FilesInv, ForeignSurvives
<1>9. Evidence'
  BY <1>1 DEF FilesInv, Evidence
<1>10. Accounted' BY <1>1 DEF FilesInv, Accounted, Current
<1>11. Tasks' BY <1>0, <1>1, <1>2, <1>3, <1>4 DEF FilesInv, Tasks, Tampered, Names, Removing
<1>12. Sessions'
  <2>1. \A d \in Captures : (Tampered(d) => Tampered(d)') /\ (Taken(d) => Taken(d)')
    BY <1>1 DEF Tampered, Taken
  <2>2. \A d \in Captures : d # c /\ Forgotten(d) => Forgotten(d)'
    BY <1>1, <1>2 DEF Forgotten, Unchanged
  <2> QED BY <1>1, <1>2, <1>3, <1>4, <2>1, <2>2 DEF FilesInv, Sessions, Tasks
<1>13. Owner'
  <2>1. \A w \in Listed : Removes(w) => Removes(w)'
    BY <1>0, <1>1, <1>2, <1>3, <1>4 DEF FilesInv, Tasks, Removes, Listed, Names
  <2> QED
    BY <1>0, <1>1, <1>2, <1>3, <1>4, <2>1
    DEF FilesInv, Owner, Tasks, Removing
<1>14. Closing'
  BY <1>0, <1>1, <1>2, <1>3, <1>4
  DEF FilesInv, Closing, Types, Closers, Photos, NoWork
<1> QED
  BY <1>5, <1>6, <1>7, <1>8, <1>9, <1>10, <1>11, <1>12, <1>13, <1>14
  DEF FilesInv

(* The photo appears at its name, where nothing was; a taken name is a      *)
(* failure.                                                                 *)
LEMMA PublishKeeps ==
  ASSUME FilesInv, NEW c \in Captures, Publish(c)
  PROVE  FilesInv'
<1> USE DEF memory, evidence, history
<1>0. Types /\ Removing BY DEF FilesInv
<1>1. /\ task[c] = "writing" /\ c \notin Leaves
      /\ UNCHANGED <<budget, process, aged, stranded, rm, cleaner, closer, evidence,
                     history, faults>>
  BY FilesAssumption DEF Publish, Task
<1>2. /\ entry' \in [Captures -> Entries]
      /\ entry'[c].status = "failed" \/ entry'[c] = entry[c]
      /\ \A d \in Captures : d # c => entry'[d] = entry[d]
  <2>1. CASE UNCHANGED entry BY <1>0, <2>1 DEF Types
  <2>2. CASE Insert(c, "failed") BY <1>0, <2>2, Inserts DEF Became
  <2> QED BY <2>1, <2>2 DEF Publish
<1>3. /\ task' \in [Captures -> {"none", "capturing", "writing", "published", "done"}]
      /\ task'[c] \in {"published", "done"}
      /\ \A d \in Captures : d # c => task'[d] = task[d]
  BY <1>0 DEF Publish, Task, Types
<1>4. entry[c].status # "captured" /\ disk[c] # "own"
  BY <1>1 DEF FilesInv, Tasks
<1>5. /\ disk' \in [Names -> Contents]
      /\ \A m \in Names : m # c => disk'[m] = disk[m]
      /\ \/ disk[c] = "none" /\ disk'[c] = "own" /\ task'[c] = "published"
         \/ disk'[c] = disk[c] /\ task'[c] = "done"
  BY <1>0 DEF Publish, Task, Types, Contents, Names
<1>6. \A m \in Names : disk'[m] \in Foreign => disk'[m] = disk[m]
  BY <1>5 DEF Foreign
<1>7. \A l \in Leaves : disk'[l] = disk[l] BY <1>1, <1>5 DEF Names
<1>8. Types' BY <1>0, <1>1, <1>2, <1>3, <1>4, <1>5 DEF FilesInv, Types
<1>9. Removing' BY <1>0, <1>1, <1>2, <1>3, <1>4, <1>5 DEF FilesInv, Removing, Removers
<1>10. Intruders' BY <1>1, <1>6 DEF FilesInv, Intruders
<1>11. ForeignSurvives'
  BY <1>0, <1>1, <1>2, <1>3, <1>4, <1>5
  DEF FilesInv, ForeignSurvives, Types, Names, Foreign
<1>12. Evidence'
  BY <1>1, <1>7 DEF FilesInv, Evidence
<1>13. Accounted' BY <1>1 DEF FilesInv, Accounted, Current
<1>14. Tasks'
  <2>1. \A d \in Captures : Tampered(d)' <=> Tampered(d) BY <1>1 DEF Tampered
  <2>2. ASSUME NEW d \in Captures
        PROVE  /\ entry'[d].status = "captured" => task'[d] = "done"
               /\ task'[d] = "published" => disk'[d] = "own" \/ Tampered(d)
               /\ disk'[d] = "own" => task'[d] \in {"published", "done"}
               /\ <<d, "own">> \in aged => task'[d] = "done"
    <3>1. d # c => disk'[d] = disk[d] /\ entry'[d] = entry[d] /\ task'[d] = task[d]
      BY <1>2, <1>3, <1>5, <2>2 DEF Names
    <3> QED BY <1>1, <1>2, <1>4, <1>5, <2>2, <3>1 DEF FilesInv, Tasks
  <2>3. ASSUME NEW q \in {"cleaner", "closer"}, rm[q].pc # "none"
        PROVE  IF rm[q].id = "own"
                 THEN /\ task'[rm[q].name] = "done"
                      /\ rm[q].pc \in {"delete", "ok"} => disk'[rm[q].name] # "own"
                 ELSE /\ rm[q].held # "own"
                      /\ rm[q].pc = "claim" /\ disk'[rm[q].name] \notin Foreign =>
                           /\ disk'[rm[q].name] = "none" /\ process = "closing"
                           /\ task'[rm[q].name] \in {"none", "done"}
    <3>1. rm[q].name \in Captures BY <1>0, <2>3 DEF Removing
    <3>2. CASE rm[q].name = c
      BY <1>1, <1>5, <2>3, <3>2 DEF FilesInv, Tasks, Foreign
    <3>3. CASE rm[q].name # c
      BY <1>3, <1>5, <2>3, <3>1, <3>3 DEF FilesInv, Tasks, Names
    <3> QED BY <3>2, <3>3
  <2> QED BY <1>1, <2>1, <2>2, <2>3 DEF Tasks
<1>15. Sessions'
  <2>1. \A d \in Captures : (Tampered(d) => Tampered(d)') /\ (Taken(d) => Taken(d)')
    BY <1>1 DEF Tampered, Taken
  <2>2. \A d \in Captures : d # c /\ Forgotten(d) => Forgotten(d)'
    BY <1>1, <1>2 DEF Forgotten, Unchanged
  <2> QED BY <1>1, <1>2, <1>3, <1>4, <1>5, <2>1, <2>2 DEF FilesInv, Sessions, Names
<1>16. Owner'
  <2>1. \A w \in Listed : Removes(w) => Removes(w)'
    BY <1>0, <1>1, <1>2, <1>3, <1>4, <1>5 DEF FilesInv, Tasks, Removes, Listed, Names
  <2> QED
    BY <1>0, <1>1, <1>2, <1>3, <1>4, <1>5, <2>1
    DEF FilesInv, Owner, Tasks, Removing
<1>17. Closing'
  BY <1>0, <1>1, <1>2, <1>3, <1>4, <1>5
  DEF FilesInv, Closing, Types, Closers, Photos, NoWork
<1> QED
  BY <1>8, <1>9, <1>10, <1>11, <1>12, <1>13, <1>14, <1>15, <1>16, <1>17
  DEF FilesInv

(* The session owns its photo from here on.                                 *)
LEMMA KeepKeeps ==
  ASSUME FilesInv, NEW c \in Captures, Keep(c)
  PROVE  FilesInv'
<1> USE DEF memory, evidence, history
<1>0. Types /\ Removing BY DEF FilesInv
<1>1. /\ task[c] = "published" /\ c \notin Leaves
      /\ UNCHANGED <<budget, process, disk, aged, stranded, rm, cleaner, closer, evidence,
                     history, faults>>
  BY FilesAssumption DEF Keep, Task
<1>2. /\ entry' \in [Captures -> Entries]
      /\ entry'[c].status = "captured"
      /\ \A d \in Captures : d # c => entry'[d] = entry[d]
  BY <1>0 DEF Keep, Insert, Types, Entries
<1>3. /\ task' \in [Captures -> {"none", "capturing", "writing", "published", "done"}]
      /\ task'[c] = "done"
      /\ \A d \in Captures : d # c => task'[d] = task[d]
  BY <1>0 DEF Keep, Task, Types
<1>4. disk[c] = "own" \/ Tampered(c)
  BY <1>1 DEF FilesInv, Tasks
<1>5. Types' BY <1>0, <1>1, <1>2, <1>3, <1>4 DEF FilesInv, Types
<1>6. Removing' BY <1>0, <1>1, <1>2, <1>3, <1>4 DEF FilesInv, Removing, Removers
<1>7. Intruders'
  BY <1>0, <1>1, <1>2, <1>3, <1>4
  DEF FilesInv, Intruders, Removers, Foreign, Names
<1>8. ForeignSurvives' BY <1>0, <1>1, <1>2, <1>3, <1>4 DEF FilesInv, ForeignSurvives
<1>9. Evidence'
  BY <1>1 DEF FilesInv, Evidence
<1>10. Accounted' BY <1>1 DEF FilesInv, Accounted, Current
<1>11. Tasks' BY <1>0, <1>1, <1>2, <1>3, <1>4 DEF FilesInv, Tasks, Tampered, Names, Removing
<1>12. Sessions'
  <2>1. \A d \in Captures : (Tampered(d) => Tampered(d)') /\ (Taken(d) => Taken(d)')
    BY <1>1 DEF Tampered, Taken
  <2>2. \A d \in Captures : d # c /\ Forgotten(d) => Forgotten(d)'
    BY <1>1, <1>2 DEF Forgotten, Unchanged
  <2> QED BY <1>1, <1>2, <1>3, <1>4, <2>1, <2>2 DEF FilesInv, Sessions, Tasks
<1>13. Owner'
  <2>1. \A w \in Listed : Removes(w) => Removes(w)'
    BY <1>0, <1>1, <1>2, <1>3, <1>4 DEF FilesInv, Tasks, Removes, Listed, Names
  <2> QED
    BY <1>0, <1>1, <1>2, <2>1 DEF FilesInv, Owner, Tasks, Removing, Types
<1>14. Closing'
  BY <1>0, <1>1, <1>2, <1>3, <1>4
  DEF FilesInv, Closing, Types, Closers, Photos, NoWork
<1> QED
  BY <1>5, <1>6, <1>7, <1>8, <1>9, <1>10, <1>11, <1>12, <1>13, <1>14
  DEF FilesInv

(* An aborted task takes its photo with it, or leaves an orphan.            *)
LEMMA TaskAbortsKeeps ==
  ASSUME FilesInv, NEW c \in Captures, TaskAborts(c)
  PROVE  FilesInv'
<1> USE DEF memory, evidence, history
<1>0. Types /\ Removing BY DEF FilesInv
<1>1. /\ task[c] \in {"capturing", "published"} /\ c \notin Leaves /\ process # "down"
      /\ UNCHANGED <<budget, process, aged, stranded, rm, entry, cleaner, closer, evidence,
                     swapped, condemned, ends, crashes>>
  BY FilesAssumption DEF TaskAborts
<1>2. /\ disk' \in [Names -> Contents] /\ (disk'[c] # "own" \/ c \in orphans')
      /\ \A m \in Names : disk'[m] # disk[m] => m = c /\ disk[m] = "own" /\ disk'[m] = "none"
      /\ orphans \subseteq orphans' /\ orphans' \subseteq Names
      /\ faults' \in Nat /\ faults <= faults'
  <2>1. CASE UNCHANGED <<orphans, faults>>
             /\ disk' = IF task[c] = "published" THEN GuardDropped(c) ELSE disk
    <3>1. task[c] = "capturing" => disk[c] # "own" BY <1>1 DEF FilesInv, Tasks
    <3>2. disk \in [Names -> Contents] /\ c \in Names /\ faults \in Nat /\ orphans \subseteq Names
      BY <1>0 DEF Types, Names
    <3>3. CASE task[c] = "published"
      BY <2>1, <3>2, <3>3 DEF GuardDropped, Contents
    <3>4. CASE task[c] # "published"
      BY <1>1, <2>1, <3>1, <3>2, <3>4
    <3> QED BY <3>3, <3>4
  <2>2. CASE GuardFails(c) BY <1>0, <2>2 DEF GuardFails, Fault, Types, Names
  <2> QED BY <2>1, <2>2 DEF TaskAborts
<1>3. /\ task' \in [Captures -> {"none", "capturing", "writing", "published", "done"}]
      /\ task'[c] = "done"
      /\ \A d \in Captures : d # c => task'[d] = task[d]
  BY <1>0 DEF TaskAborts, Types
<1>4. entry[c].status # "captured" BY <1>1 DEF FilesInv, Tasks
<1>5. \A m \in Names : disk'[m] \in Foreign \/ disk[m] \in Foreign => disk'[m] = disk[m]
  BY <1>2 DEF Foreign
<1>6. \A l \in Leaves : disk'[l] = disk[l] BY <1>1, <1>2 DEF Names
<1>7. Types' BY <1>0, <1>1, <1>2, <1>3, <1>4 DEF FilesInv, Types
<1>8. Removing' BY <1>0, <1>1, <1>2, <1>3, <1>4 DEF FilesInv, Removing, Removers
<1>9. Intruders' BY <1>1, <1>5 DEF FilesInv, Intruders
<1>10. ForeignSurvives' BY <1>0, <1>1, <1>5 DEF FilesInv, ForeignSurvives, Types, Names
<1>11. Evidence'
  BY <1>1, <1>2, <1>6 DEF FilesInv, Evidence
<1>12. Accounted'
  <2>1. deleted' = deleted /\ audit' = audit /\ sweep' = sweep /\ ends' = ends BY <1>1
  <2>2. faults' \in Nat /\ faults <= faults' BY <1>2
  <2>3. Accounted BY DEF FilesInv
  <2> QED BY <1>0, <2>1, <2>2, <2>3, AccountedGrows
<1>13. Tasks'
  <2>1. \A d \in Captures : Tampered(d) => Tampered(d)' BY <1>1 DEF Tampered
  <2>2. \A d \in Captures : disk'[d] = "own" => disk[d] = "own" BY <1>2 DEF Names
  <2>3. ASSUME NEW d \in Captures
        PROVE  /\ entry'[d].status = "captured" => task'[d] = "done"
               /\ task'[d] = "published" => disk'[d] = "own" \/ Tampered(d)'
               /\ disk'[d] = "own" => task'[d] \in {"published", "done"}
               /\ <<d, "own">> \in aged' => task'[d] = "done"
    BY <1>1, <1>2, <1>3, <2>1, <2>2 DEF FilesInv, Tasks, Names
  <2>4. ASSUME NEW q \in {"cleaner", "closer"}, rm[q].pc # "none"
        PROVE  IF rm[q].id = "own"
                 THEN /\ task'[rm[q].name] = "done"
                      /\ rm[q].pc \in {"delete", "ok"} => disk'[rm[q].name] # "own"
                 ELSE /\ rm[q].held # "own"
                      /\ rm[q].pc = "claim" /\ disk'[rm[q].name] \notin Foreign =>
                           /\ disk'[rm[q].name] = "none" /\ process = "closing"
                           /\ task'[rm[q].name] \in {"none", "done"}
    <3>1. rm[q].name \in Captures BY <1>0, <2>4 DEF Removing
    <3>2. disk'[rm[q].name] \notin Foreign => disk[rm[q].name] \notin Foreign
      BY <1>5, <3>1 DEF Names
    <3>3. disk[rm[q].name] = "none" => disk'[rm[q].name] = "none" BY <1>2, <3>1 DEF Names
    <3>4. task[rm[q].name] \in {"none", "done"} => task'[rm[q].name] = task[rm[q].name]
      BY <1>1, <1>3, <3>1
    <3> QED BY <2>2, <2>4, <3>1, <3>2, <3>3, <3>4 DEF FilesInv, Tasks
  <2>5. rm' = rm /\ process' = process BY <1>1
  <2> QED BY <2>3, <2>4, <2>5 DEF Tasks
<1>14. Sessions'
  <2>1. \A d \in Captures : (Tampered(d) => Tampered(d)') /\ (Taken(d) => Taken(d)')
    BY <1>1 DEF Tampered, Taken
  <2>2. \A d \in Captures : Forgotten(d) => Forgotten(d)'
    BY <1>1 DEF Forgotten, Unchanged
  <2> QED BY <1>1, <1>2, <1>3, <1>4, <2>1, <2>2 DEF FilesInv, Sessions, Names
<1>15. Owner'
  <2>1. \A w \in Listed : Removes(w) => Removes(w)'
    BY <1>0, <1>1, <1>2, <1>3, <1>4 DEF FilesInv, Tasks, Removes, Listed, Names
  <2> QED
    BY <1>0, <1>1, <1>2, <1>3, <1>4, <2>1
    DEF FilesInv, Owner, Tasks, Removing
<1>16. Closing'
  BY <1>0, <1>1, <1>2, <1>3, <1>4
  DEF FilesInv, Closing, Types, Closers, Photos, NoWork
<1> QED
  BY <1>7, <1>8, <1>9, <1>10, <1>11, <1>12, <1>13, <1>14, <1>15, <1>16
  DEF FilesInv

-----------------------------------------------------------------------------
(* The periodic owner.                                                      *)

(* The time-outs of a pass turn no session into a captured one.             *)
LEMMA CleanerStartsKeeps ==
  ASSUME FilesInv, NEW last \in BOOLEAN, CleanerStarts(last)
  PROVE  FilesInv'
<1> USE DEF memory, evidence, history
<1>0. Types /\ Removing BY DEF FilesInv
<1>1. /\ cleaner.pc = "idle" /\ process # "down"
      /\ UNCHANGED rm
      /\ UNCHANGED <<budget, process, disk, aged, stranded, task, closer, evidence,
                     history, faults>>
  BY DEF CleanerStarts, Clean, CleanOnly
<1>2. cleaner' \in Cleaners /\ cleaner'.pc = "states" /\ cleaner'.aged = aged
  <2> DEFINE W == {[name |-> c, status |-> entry[c].status, stamp |-> entry[c].stamp] :
                     c \in {d \in Captures : Terminal(entry[d]) /\ entry[d].due}}
  <2>1. \A c \in Captures :
          [name |-> c, status |-> entry[c].status, stamp |-> entry[c].stamp] \in Listed
    BY <1>0 DEF Types, Entries, Listed
  <2>2. W \in SUBSET Listed BY <2>1
  <2>3. cleaner' = [pc |-> "states", aged |-> aged, owned |-> {}, last |-> last, work |-> W]
    BY DEF CleanerStarts, Clean, CleanOnly
  <2>4. aged \in SUBSET (Names \X Kept) /\ {} \in SUBSET (Listed \cup Captures) BY <1>0 DEF Types
  <2> HIDE DEF W
  <2> QED BY <2>2, <2>3, <2>4 DEF Cleaners
<1>3. \A c \in Captures :
        /\ entry'[c] \in Entries
        /\ entry'[c].status = "captured" <=> entry[c].status = "captured"
        /\ entry[c].status = "captured" => entry'[c] = entry[c]
  BY <1>0 DEF Types, Entries, CleanerStarts, TimedOut
<1>4. entry' \in [Captures -> Entries]
  BY <1>3 DEF CleanerStarts
<1>5. Types' BY <1>0, <1>1, <1>2, <1>3, <1>4 DEF FilesInv, Types
<1>6. Removing' BY <1>0, <1>1, <1>2, <1>3, <1>4 DEF FilesInv, Removing, Removers
<1>7. Intruders'
  BY <1>0, <1>1, <1>2, <1>3, <1>4
  DEF FilesInv, Intruders, Removers, Foreign, Names
<1>8. ForeignSurvives' BY <1>0, <1>1, <1>2, <1>3, <1>4 DEF FilesInv, ForeignSurvives
<1>9. Evidence'
  BY <1>1 DEF FilesInv, Evidence
<1>10. Accounted' BY <1>1 DEF FilesInv, Accounted, Current
<1>11. Tasks' BY <1>0, <1>1, <1>2, <1>3, <1>4 DEF FilesInv, Tasks, Tampered, Names
<1>12. Sessions'
  BY <1>0, <1>1, <1>2, <1>3, <1>4
  DEF FilesInv, Sessions, Tampered, Taken, Forgotten, Unchanged, Names
<1>13. Owner' BY <1>1, <1>2 DEF Owner
<1>14. Closing'
  <2>1. closer.pc = "sweeping" => rm["closer"].name \in Captures BY <1>0 DEF Removing
  <2> QED BY <1>0, <1>1, <1>3, <2>1, CloserNames DEF FilesInv, Closing
<1> QED
  BY <1>5, <1>6, <1>7, <1>8, <1>9, <1>10, <1>11, <1>12, <1>13, <1>14
  DEF FilesInv

(* The next entry that is still as it was listed: its photo first, if it    *)
(* has one.                                                                 *)
LEMMA CleanerPicksKeeps ==
  ASSUME FilesInv, CleanerPicks
  PROVE  FilesInv'
<1> USE DEF memory, evidence, history
<1>0. Types /\ Removing BY DEF FilesInv
<1>1. /\ cleaner.pc = "states" /\ rm["cleaner"].pc = "none"
      /\ UNCHANGED entry
      /\ UNCHANGED <<budget, process, disk, aged, stranded, task, closer, evidence,
                     history, faults>>
  BY <1>0 DEF CleanerPicks, Clean, CleanOnly, Removing
<1>2. PICK w \in Listed :
        /\ w \in cleaner.work
        /\ \/ /\ ~Unchanged(w) /\ UNCHANGED rm
              /\ cleaner' = [cleaner EXCEPT !.work = @ \ {w}]
           \/ /\ Unchanged(w) /\ w.status = "captured" /\ StartRemoval("cleaner", w.name, "own")
              /\ cleaner' = [cleaner EXCEPT !.pc = "removing", !.work = @ \ {w}, !.owned = {w}]
           \/ /\ Unchanged(w) /\ w.status # "captured" /\ UNCHANGED rm
              /\ cleaner' = [cleaner EXCEPT !.pc = "unlist", !.work = @ \ {w}, !.owned = {w}]
  <2>1. cleaner.work \subseteq Listed BY <1>0 DEF Types, Cleaners
  <2> QED BY <2>1 DEF CleanerPicks, Clean, CleanOnly
<1>3. w.name \in Captures /\ w.name \in Names BY DEF Listed, Names
<1>4. /\ cleaner' \in Cleaners /\ cleaner'.aged = cleaner.aged
      /\ \/ cleaner'.pc = "states" /\ UNCHANGED rm
         \/ /\ cleaner'.pc = "removing" /\ cleaner'.owned = {w} /\ w.status = "captured"
            /\ Unchanged(w) /\ Moved("cleaner", "open", w.name, "own", "none")
         \/ /\ cleaner'.pc = "unlist" /\ cleaner'.owned = {w} /\ w.status # "captured"
            /\ UNCHANGED rm
  <2>1. {w} \in SUBSET (Listed \cup Captures) /\ cleaner.work \ {w} \in SUBSET Listed
        /\ cleaner \in Cleaners
    BY <1>0 DEF Types, Cleaners
  <2>2. CASE /\ UNCHANGED rm
             /\ \/ cleaner' = [cleaner EXCEPT !.work = @ \ {w}]
                \/ /\ w.status # "captured"
                   /\ cleaner' = [cleaner EXCEPT !.pc = "unlist", !.work = @ \ {w}, !.owned = {w}]
    BY <1>1, <2>1, <2>2 DEF Cleaners
  <2>3. CASE StartRemoval("cleaner", w.name, "own") /\ Unchanged(w) /\ w.status = "captured"
             /\ cleaner' = [cleaner EXCEPT !.pc = "removing", !.work = @ \ {w}, !.owned = {w}]
    <3>1. Moved("cleaner", "open", w.name, "own", "none") BY <1>0, <1>3, <2>3, Starts DEF Removers, Contents
    <3> QED BY <2>1, <2>3, <3>1 DEF Cleaners
  <2> QED BY <1>2, <2>2, <2>3
<1>5. /\ rm' \in [Removers -> Removals] /\ rm'["retention"] = rm["retention"] /\ rm'["closer"] = rm["closer"]
      /\ rm'["cleaner"].held = "none"
      /\ cleaner'.pc = "removing" => rm'["cleaner"].pc = "open" /\ rm'["cleaner"].name = w.name
                                 /\ rm'["cleaner"].id = "own"
      /\ cleaner'.pc # "removing" => rm'["cleaner"].pc = "none"
      /\ \A q \in Removers : q # "cleaner" => rm'[q] = rm[q]
  BY <1>0, <1>1, <1>4 DEF Moved, Removers, Types, Removing
<1>6. cleaner'.pc = "removing" => task[w.name] = "done"
  BY <1>3, <1>4 DEF FilesInv, Tasks, Unchanged
<1>7. Types' BY <1>0, <1>1, <1>3, <1>4, <1>5, <1>6 DEF FilesInv, Types
<1>8. Removing' BY <1>0, <1>1, <1>3, <1>4, <1>5, <1>6 DEF FilesInv, Removing, Removers, Kept
<1>9. Intruders'
  BY <1>0, <1>1, <1>3, <1>4, <1>5, <1>6
  DEF FilesInv, Intruders, Removers, Foreign, Names
<1>10. ForeignSurvives'
  BY <1>0, <1>1, <1>5 DEF FilesInv, ForeignSurvives, Types, Removing, Foreign, Removers
<1>11. Evidence'
  BY ZenonT(60), <1>1, <1>5 DEF FilesInv, Evidence
<1>12. Accounted' BY <1>1 DEF FilesInv, Accounted, Current
<1>13. Tasks' BY <1>0, <1>1, <1>3, <1>4, <1>5, <1>6 DEF FilesInv, Tasks, Tampered, Names
<1>14. Sessions'
  BY <1>0, <1>1, <1>3, <1>4, <1>5, <1>6
  DEF FilesInv, Sessions, Tampered, Taken, Forgotten, Unchanged, Names, Removers
<1>15. Owner'
  <2>1. cleaner'.pc \in {"removing", "unlist"} => Removes(w)'
    BY <1>1, <1>3, <1>4, <1>5, <1>6 DEF Removes, Unchanged
  <2> QED BY <1>4, <2>1 DEF Owner
<1>16. Closing' BY <1>0, <1>1, <1>3, <1>4, <1>5, <1>6 DEF FilesInv, Closing
<1> QED
  BY <1>7, <1>8, <1>9, <1>10, <1>11, <1>12, <1>13, <1>14, <1>15, <1>16
  DEF FilesInv

(* The entry is forgotten once its photo is gone.                           *)
LEMMA CleanerRemovedKeeps ==
  ASSUME FilesInv, CleanerRemoved
  PROVE  FilesInv'
<1> USE DEF memory, evidence, history
<1>0. Types /\ Removing BY DEF FilesInv
<1>1. /\ cleaner.pc = "removing" /\ rm["cleaner"].pc \in {"ok", "failed"}
      /\ rm["cleaner"].held = "none"
      /\ UNCHANGED entry
      /\ UNCHANGED <<budget, process, disk, aged, stranded, task, closer, evidence,
                     history, faults>>
  BY <1>0 DEF CleanerRemoved, Clean, CleanOnly, Removing, Removers
<1>2. /\ cleaner' \in Cleaners /\ cleaner'.aged = cleaner.aged /\ cleaner'.owned = cleaner.owned
      /\ rm["cleaner"].pc = "ok" => cleaner'.pc = "unlist"
      /\ rm["cleaner"].pc = "failed" => cleaner'.pc = "states"
  BY <1>0, <1>1 DEF CleanerRemoved, Clean, CleanOnly, Types, Cleaners
<1>3. Moved("cleaner", "none", 0, "none", "none")
  BY <1>0, Clears DEF CleanerRemoved, Removers
<1>4. rm'["retention"] = rm["retention"] /\ rm'["closer"] = rm["closer"]
  BY <1>3 DEF Moved, Removers
<1>5. PICK w \in Listed : Removes(w) BY <1>1 DEF FilesInv, Owner
<1>6. w.name \in Captures BY DEF Listed
<1>7. rm["cleaner"].pc = "ok" => disk[w.name] # "own"
  BY <1>0, <1>1, <1>5 DEF FilesInv, Tasks, Removes, Removing
<1>8. w \in cleaner.owned /\ w.status = "captured" /\ rm["cleaner"].name = w.name
      /\ (entry[w.name].status = "captured" => entry[w.name].stamp = w.stamp)
  BY <1>1, <1>5 DEF Removes
<1> USE DEF Moved
<1>9. Types' BY <1>0, <1>1, <1>2, <1>3 DEF FilesInv, Types
<1>10. Removing' BY <1>0, <1>1, <1>2, <1>3 DEF FilesInv, Removing, Removers
<1>11. Intruders'
  BY <1>0, <1>1, <1>2, <1>3
  DEF FilesInv, Intruders, Removers, Foreign, Names, Removers, Foreign
<1>12. ForeignSurvives'
  BY <1>0, <1>1, <1>3 DEF FilesInv, ForeignSurvives, Types, Removing, Foreign, Removers
<1>13. Evidence'
  BY <1>1, <1>4 DEF FilesInv, Evidence
<1>14. Accounted' BY <1>1 DEF FilesInv, Accounted, Current
<1>15. Tasks' BY <1>0, <1>1, <1>2, <1>3 DEF FilesInv, Tasks, Tampered, Names, Removers
<1>16. Sessions'
  <2>1. SUFFICES ASSUME NEW c \in Captures
                 PROVE  /\ entry[c].status = "captured" =>
                             \/ disk[c] = "own" \/ Tampered(c) \/ Taken(c)' \/ Forgotten(c)'
                             \/ <<c, "own">> \in stranded
                        /\ disk[c] = "own" =>
                             task[c] = "published" \/ entry[c].status = "captured" \/ c \in orphans
    BY <1>1 DEF Sessions, Tampered
  <2>2. disk[c] = "own" =>
          task[c] = "published" \/ entry[c].status = "captured" \/ c \in orphans
    BY DEF FilesInv, Sessions
  <2>3. ASSUME entry[c].status = "captured", disk[c] # "own", ~Tampered(c),
               <<c, "own">> \notin stranded
        PROVE  Taken(c)' \/ Forgotten(c)'
    <3>1. Taken(c) BY <1>1, <2>3 DEF FilesInv, Sessions, Forgotten
    <3>2. CASE rm["closer"].name = c /\ rm["closer"].pc \in {"delete", "ok"}
      BY <1>4, <3>2 DEF Taken
    <3>3. CASE rm["cleaner"].name = c /\ rm["cleaner"].pc = "ok"
      BY <1>1, <1>2, <1>8, <2>3, <3>3 DEF Forgotten, Unchanged
    <3> QED BY <1>1, <3>1, <3>2, <3>3 DEF Taken
  <2> QED BY <2>2, <2>3
<1>17. Owner'
  <2>1. cleaner'.pc = "unlist" => Removes(w)'
    BY <1>1, <1>2, <1>5, <1>7, <1>8 DEF Removes
  <2> QED BY <1>1, <1>2, <2>1 DEF Owner
<1>18. Closing' BY <1>0, <1>1, <1>2, <1>4 DEF FilesInv, Closing
<1> QED
  BY <1>9, <1>10, <1>11, <1>12, <1>13, <1>14, <1>15, <1>16, <1>17, <1>18
  DEF FilesInv

(* The entry of another session, or of none, is not forgotten.              *)
LEMMA CleanerUnlistsKeeps ==
  ASSUME FilesInv, CleanerUnlists
  PROVE  FilesInv'
<1> USE DEF memory, evidence, history
<1>0. Types /\ Removing BY DEF FilesInv
<1>1. /\ cleaner.pc = "unlist"
      /\ UNCHANGED rm
      /\ UNCHANGED <<budget, process, disk, aged, stranded, task, closer, evidence,
                     history, faults>>
  BY <1>0 DEF CleanerUnlists, Clean, CleanOnly
<1>2. cleaner' \in Cleaners /\ cleaner'.pc = "states" /\ cleaner'.aged = cleaner.aged
  BY <1>0 DEF CleanerUnlists, Clean, CleanOnly, Types, Cleaners
<1>3. PICK w \in Listed : Removes(w) BY <1>1 DEF FilesInv, Owner
<1>4. w.name \in Captures /\ cleaner.owned = {w}
      /\ (w.status = "captured" => disk[w.name] # "own")
  BY <1>1, <1>3 DEF Listed, Removes
<1>5. entry' = IF Unchanged(w) THEN [entry EXCEPT ![w.name] = NoEntry] ELSE entry
  BY <1>4 DEF CleanerUnlists
<1>6. /\ entry' \in [Captures -> Entries]
      /\ \A c \in Captures : entry'[c] # entry[c] => c = w.name /\ Unchanged(w) /\ entry'[c] = NoEntry
      /\ Unchanged(w) => entry'[w.name] = NoEntry
  BY <1>0, <1>4, <1>5 DEF Types, Entries, NoEntry
<1>7. \A c \in Captures : entry'[c].status = "captured" =>
        entry[c].status = "captured" /\ entry'[c] = entry[c]
  BY <1>6 DEF NoEntry
<1>8. Types' BY <1>0, <1>1, <1>2, <1>6, <1>7 DEF FilesInv, Types
<1>9. Removing' BY <1>0, <1>1, <1>2, <1>6, <1>7 DEF FilesInv, Removing, Removers
<1>10. Intruders'
  BY <1>0, <1>1, <1>2, <1>6, <1>7
  DEF FilesInv, Intruders, Removers, Foreign, Names
<1>11. ForeignSurvives' BY <1>0, <1>1, <1>2, <1>6, <1>7 DEF FilesInv, ForeignSurvives
<1>12. Evidence'
  BY <1>1 DEF FilesInv, Evidence
<1>13. Accounted' BY <1>1 DEF FilesInv, Accounted, Current
<1>14. Tasks' BY <1>0, <1>1, <1>2, <1>6, <1>7 DEF FilesInv, Tasks, Tampered, Names
<1>15. Sessions'
  <2>1. SUFFICES ASSUME NEW c \in Captures
                 PROVE  /\ entry'[c].status = "captured" =>
                             \/ disk[c] = "own" \/ Tampered(c) \/ Taken(c)
                             \/ <<c, "own">> \in stranded
                        /\ disk[c] = "own" =>
                             task[c] = "published" \/ entry'[c].status = "captured" \/ c \in orphans
    BY <1>1 DEF Sessions, Tampered, Taken
  <2>2. Forgotten(c) /\ entry[c].status = "captured" => entry'[c].status # "captured"
    BY <1>4, <1>6 DEF Forgotten, NoEntry
  <2>3. disk[c] = "own" /\ entry[c].status = "captured" => entry'[c].status = "captured"
    BY <1>4, <1>6 DEF Unchanged
  <2> QED BY <1>7, <2>2, <2>3 DEF FilesInv, Sessions
<1>16. Owner' BY <1>1, <1>2 DEF Owner
<1>17. Closing'
  <2>1. closer.pc = "sweeping" => rm["closer"].name \in Captures BY <1>0 DEF Removing
  <2>2. \A c \in Captures : entry[c] = NoEntry => entry'[c] = NoEntry BY <1>6
  <2> QED BY <1>0, <1>1, <1>2, <1>7, <2>1, <2>2, CloserNames DEF FilesInv, Closing
<1> QED
  BY <1>8, <1>9, <1>10, <1>11, <1>12, <1>13, <1>14, <1>15, <1>16, <1>17
  DEF FilesInv

(* The sweep of orphans leaves every name alone that has an entry.          *)
LEMMA CleanerSweepsKeeps ==
  ASSUME FilesInv, CleanerSweeps
  PROVE  FilesInv'
<1> USE DEF memory, evidence, history
<1>0. Types /\ Removing BY DEF FilesInv
<1>1. /\ cleaner.pc = "states"
      /\ UNCHANGED <<rm, entry>>
      /\ UNCHANGED <<budget, process, disk, aged, stranded, task, closer, evidence,
                     history, faults>>
  BY DEF CleanerSweeps, Clean, CleanOnly
<1>2. /\ cleaner' \in Cleaners /\ cleaner'.pc \in {"stopped", "sweep"}
      /\ cleaner'.aged = cleaner.aged /\ cleaner'.owned = Owned
  <2>1. Owned \in SUBSET (Listed \cup Captures) BY DEF Owned
  <2> HIDE DEF Owned
  <2> QED BY <1>0, <2>1 DEF CleanerSweeps, Clean, CleanOnly, Types, Cleaners
<1>3. \A c \in Captures \ Owned : entry[c].status # "captured"
  BY DEF Owned, NoEntry
<1>4. Types' BY <1>0, <1>1, <1>2 DEF FilesInv, Types
<1>5. Removing' BY <1>0, <1>1, <1>2 DEF FilesInv, Removing, Removers
<1>6. Intruders' BY <1>0, <1>1, <1>2 DEF FilesInv, Intruders, Removers, Foreign, Names
<1>7. ForeignSurvives' BY <1>0, <1>1, <1>2 DEF FilesInv, ForeignSurvives
<1>8. Evidence'
  BY <1>1 DEF FilesInv, Evidence
<1>9. Accounted' BY <1>1 DEF FilesInv, Accounted, Current
<1>10. Tasks' BY <1>0, <1>1, <1>2 DEF FilesInv, Tasks, Tampered, Names
<1>11. Sessions'
  BY <1>0, <1>1, <1>2
  DEF FilesInv, Sessions, Tampered, Taken, Forgotten, Unchanged, Names
<1>12. Owner' BY <1>1, <1>2, <1>3 DEF Owner
<1>13. Closing' BY <1>0, <1>1, <1>2 DEF FilesInv, Closing
<1> QED
  BY <1>4, <1>5, <1>6, <1>7, <1>8, <1>9, <1>10, <1>11, <1>12, <1>13
  DEF FilesInv

(* A file that is swept has no session.                                     *)
LEMMA CleanerFindsOrphanKeeps ==
  ASSUME FilesInv, CleanerFindsOrphan
  PROVE  FilesInv'
<1> USE DEF memory, evidence, history
<1>0. Types /\ Removing BY DEF FilesInv
<1>1. /\ cleaner.pc = "sweep" /\ rm["cleaner"].pc = "none"
      /\ UNCHANGED entry
      /\ UNCHANGED <<budget, process, disk, aged, stranded, task, closer, evidence,
                     orphans, swapped, ends, crashes, faults>>
  BY <1>0 DEF CleanerFindsOrphan, CleanOnly, Removing
<1>2. PICK n \in Captures :
        /\ Sweepable(n) /\ StartRemoval("cleaner", n, disk[n])
        /\ cleaner' = [cleaner EXCEPT !.pc = "sweeping", !.aged = @ \ {File(n)}]
        /\ condemned' = condemned \cup {<<n, disk[n]>>}
  BY DEF CleanerFindsOrphan, CleanOnly, File
<1>17. /\ n \in Names /\ disk[n] \in Contents /\ disk[n] \in Kept
       /\ <<n, disk[n]>> \in cleaner.aged /\ n \notin cleaner.owned
       /\ cleaner.aged \subseteq aged
  BY <1>0, <1>2 DEF Sweepable, File, Types, Cleaners, Names
<1>3. Moved("cleaner", "open", n, disk[n], "none") BY <1>0, <1>2, <1>17, Starts DEF Removers
<1>4. /\ cleaner' \in Cleaners /\ cleaner'.pc = "sweeping" /\ cleaner'.owned = cleaner.owned
      /\ cleaner'.aged \subseteq cleaner.aged
  BY <1>0, <1>2 DEF Types, Cleaners
<1>5. /\ rm' \in [Removers -> Removals] /\ rm'["retention"] = rm["retention"] /\ rm'["closer"] = rm["closer"]
      /\ rm'["cleaner"].held = "none" /\ rm'["cleaner"].pc = "open" /\ rm'["cleaner"].name = n
      /\ rm'["cleaner"].id = disk[n]
      /\ \A q \in Removers : q # "cleaner" => rm'[q] = rm[q]
  BY <1>3 DEF Moved, Removers
<1>6. disk[n] = "own" => task[n] = "done" /\ entry[n].status # "captured"
  BY <1>1, <1>17 DEF FilesInv, Tasks, Owner
<1>7. Types' BY <1>0, <1>1, <1>2, <1>4, <1>5, <1>17 DEF FilesInv, Types
<1>8. Removing' BY <1>0, <1>1, <1>4, <1>5, <1>17 DEF FilesInv, Removing, Removers
<1>9. Intruders'
  BY <1>0, <1>1, <1>2, <1>4, <1>5
  DEF FilesInv, Intruders, Removers, Foreign, Names
<1>10. ForeignSurvives'
  BY <1>0, <1>1, <1>2, <1>5 DEF FilesInv, ForeignSurvives, Types, Removing, Foreign, Removers
<1>11. Evidence'
  BY ZenonT(60), <1>1, <1>5 DEF FilesInv, Evidence
<1>12. Accounted' BY <1>1 DEF FilesInv, Accounted, Current
<1>13. Tasks' BY <1>0, <1>1, <1>4, <1>5, <1>6 DEF FilesInv, Tasks, Tampered, Names
<1>14. Sessions'
  BY <1>0, <1>1, <1>4, <1>5, <1>6
  DEF FilesInv, Sessions, Tampered, Taken, Forgotten, Unchanged, Names, Removers
<1>15. Owner'
  BY <1>1, <1>4, <1>5, <1>6 DEF FilesInv, Owner
<1>16. Closing' BY <1>0, <1>1, <1>2, <1>4, <1>5 DEF FilesInv, Closing, Removers
<1> QED
  BY <1>7, <1>8, <1>9, <1>10, <1>11, <1>12, <1>13, <1>14, <1>15, <1>16
  DEF FilesInv

(* The sweep goes on after a photo.                                         *)
LEMMA CleanerSweptKeeps ==
  ASSUME FilesInv, CleanerSwept
  PROVE  FilesInv'
<1> USE DEF memory, evidence, history
<1>0. Types /\ Removing BY DEF FilesInv
<1>1. /\ cleaner.pc = "sweeping" /\ rm["cleaner"].pc \in {"ok", "failed"}
      /\ rm["cleaner"].held = "none"
      /\ UNCHANGED entry
      /\ UNCHANGED <<budget, process, disk, aged, stranded, task, closer, evidence,
                     history, faults>>
  BY <1>0 DEF CleanerSwept, Clean, CleanOnly, Removing, Removers
<1>2. /\ cleaner' \in Cleaners /\ cleaner'.pc = "sweep"
      /\ cleaner'.aged = cleaner.aged /\ cleaner'.owned = cleaner.owned
  BY <1>0, <1>1 DEF CleanerSwept, Clean, CleanOnly, Types, Cleaners
<1>3. Moved("cleaner", "none", 0, "none", "none")
  BY <1>0, Clears DEF CleanerSwept, Removers
<1>4. rm'["retention"] = rm["retention"] /\ rm'["closer"] = rm["closer"]
  BY <1>3 DEF Moved, Removers
<1>5. entry[rm["cleaner"].name].status # "captured" \/ Tampered(rm["cleaner"].name)
  <2>1. CASE rm["cleaner"].id = "own" BY <1>1, <2>1 DEF FilesInv, Owner
  <2>2. CASE rm["cleaner"].id # "own"
    <3>1. /\ <<rm["cleaner"].name, rm["cleaner"].id>> \in condemned
          /\ rm["cleaner"].id \in Foreign /\ rm["cleaner"].name \in Names
      BY <1>0, <1>1, <2>2 DEF FilesInv, Intruders, Removing, Removers, Kept, Names
    <3>2. <<rm["cleaner"].name, rm["cleaner"].id>> \in swapped
      BY <1>0, <3>1 DEF FilesInv, Intruders, Types
    <3> QED BY <3>2 DEF Tampered
  <2> QED BY <2>1, <2>2
<1> USE DEF Moved
<1>6. Types' BY <1>0, <1>1, <1>2, <1>3 DEF FilesInv, Types
<1>7. Removing' BY <1>0, <1>1, <1>2, <1>3 DEF FilesInv, Removing, Removers
<1>8. Intruders'
  BY <1>0, <1>1, <1>2, <1>3
  DEF FilesInv, Intruders, Removers, Foreign, Names, Removers, Foreign
<1>9. ForeignSurvives'
  BY <1>0, <1>1, <1>3 DEF FilesInv, ForeignSurvives, Types, Removing, Foreign, Removers
<1>10. Evidence'
  BY <1>1, <1>4 DEF FilesInv, Evidence
<1>11. Accounted' BY <1>1 DEF FilesInv, Accounted, Current
<1>12. Tasks' BY <1>0, <1>1, <1>2, <1>3 DEF FilesInv, Tasks, Tampered, Names, Removers
<1>13. Sessions'
  BY <1>0, <1>1, <1>2, <1>3, <1>4, <1>5
  DEF FilesInv, Sessions, Tampered, Taken, Forgotten, Unchanged, Names, Removers
<1>14. Owner' BY <1>1, <1>2 DEF FilesInv, Owner
<1>15. Closing' BY <1>0, <1>1, <1>2, <1>4 DEF FilesInv, Closing
<1> QED
  BY <1>6, <1>7, <1>8, <1>9, <1>10, <1>11, <1>12, <1>13, <1>14, <1>15
  DEF FilesInv

(* The end of a pass, and the opening of the server.                        *)
LEMMA CleanerDoneKeeps ==
  ASSUME FilesInv, CleanerDone
  PROVE  FilesInv'
<1> USE DEF memory, evidence, history
<1>0. Types /\ Removing BY DEF FilesInv
<1>1. /\ cleaner.pc = "sweep" /\ cleaner' = IdleCleaner
      /\ process' = IF process = "booting" THEN "serving" ELSE process
      /\ UNCHANGED <<budget, disk, aged, stranded, rm, task, entry, closer, evidence,
                     history, faults>>
  BY DEF CleanerDone
<1>2. cleaner' \in Cleaners /\ cleaner'.pc = "idle" /\ cleaner'.aged = {}
  BY <1>1 DEF IdleCleaner, Cleaners, NoWork
<1>3. Types' BY <1>0, <1>1, <1>2 DEF FilesInv, Types
<1>4. Removing' BY <1>0, <1>1, <1>2 DEF FilesInv, Removing, Removers
<1>5. Intruders' BY <1>0, <1>1, <1>2 DEF FilesInv, Intruders, Removers, Foreign, Names
<1>6. ForeignSurvives' BY <1>0, <1>1, <1>2 DEF FilesInv, ForeignSurvives
<1>7. Evidence'
  BY <1>1 DEF FilesInv, Evidence
<1>8. Accounted' BY <1>1 DEF FilesInv, Accounted, Current
<1>9. Tasks' BY <1>0, <1>1, <1>2 DEF FilesInv, Tasks, Tampered, Names
<1>10. Sessions'
  BY <1>0, <1>1, <1>2
  DEF FilesInv, Sessions, Tampered, Taken, Forgotten, Unchanged, Names
<1>11. Owner' BY <1>1, <1>2 DEF Owner
<1>12. Closing' BY <1>0, <1>1, <1>2 DEF FilesInv, Closing
<1> QED
  BY <1>3, <1>4, <1>5, <1>6, <1>7, <1>8, <1>9, <1>10, <1>11, <1>12
  DEF FilesInv

-----------------------------------------------------------------------------
(* The shutdown.                                                            *)

(* The signal stops the admission.                                          *)
LEMMA ShutdownKeeps ==
  ASSUME FilesInv, Shutdown
  PROVE  FilesInv'
<1> USE DEF memory, evidence, history
<1>0. Types /\ Removing BY DEF FilesInv
<1>1. /\ process = "serving" /\ process' = "closing"
      /\ UNCHANGED <<rm, entry>>
      /\ UNCHANGED <<budget, disk, aged, stranded, task, cleaner, evidence, history, faults>>
  BY DEF Shutdown, Close, CloseOnly
<1>2. closer.pc = "idle" /\ closer.work = NoWork BY <1>1 DEF FilesInv, Closing, Types, Closers
<1>3. closer' \in Closers /\ closer'.pc = "joining" /\ closer'.work = NoWork
  BY <1>0, <1>2 DEF Shutdown, Close, CloseOnly, Types, Closers
<1>4. Types' BY <1>0, <1>1, <1>2, <1>3 DEF FilesInv, Types
<1>5. Removing' BY <1>0, <1>1, <1>2, <1>3 DEF FilesInv, Removing, Removers
<1>6. Intruders' BY <1>0, <1>1, <1>2, <1>3 DEF FilesInv, Intruders, Removers, Foreign, Names
<1>7. ForeignSurvives' BY <1>0, <1>1, <1>2, <1>3 DEF FilesInv, ForeignSurvives
<1>8. Evidence'
  BY <1>1 DEF FilesInv, Evidence
<1>9. Accounted' BY <1>1 DEF FilesInv, Accounted, Current
<1>10. Tasks' BY <1>0, <1>1, <1>2, <1>3 DEF FilesInv, Tasks, Tampered, Names
<1>11. Sessions'
  BY <1>0, <1>1, <1>2, <1>3
  DEF FilesInv, Sessions, Tampered, Taken, Forgotten, Unchanged, Names
<1>12. Owner' BY <1>0, <1>1, <1>2, <1>3 DEF FilesInv, Owner, Removes
<1>13. Closing' BY <1>0, <1>1, <1>2, <1>3 DEF FilesInv, Closing, NoWork
<1> QED
  BY <1>4, <1>5, <1>6, <1>7, <1>8, <1>9, <1>10, <1>11, <1>12, <1>13
  DEF FilesInv

(* Once the tasks have ended, the sessions are listed with their photos.    *)
LEMMA CloserListsKeeps ==
  ASSUME FilesInv, CloserLists
  PROVE  FilesInv'
<1> USE DEF memory, evidence, history
<1>0. Types /\ Removing BY DEF FilesInv
<1>1. /\ closer.pc = "joining" /\ \A c \in Captures : task[c] \in {"none", "done"}
      /\ UNCHANGED <<process, rm, entry>>
      /\ UNCHANGED <<budget, disk, aged, stranded, task, cleaner, evidence, history, faults>>
  BY DEF CloserLists, Close, CloseOnly
<1>2. /\ closer' \in Closers /\ closer'.pc = "work"
      /\ \A w \in closer'.work : w \in Photos /\ (w.photo <=> entry[w.name].status = "captured")
  <2> DEFINE W == {[name |-> c, photo |-> entry[c].status = "captured"] : c \in Owned}
  <2>1. \A w \in W : w \in Photos /\ (w.photo <=> entry[w.name].status = "captured")
    <3>1. SUFFICES ASSUME NEW c \in Owned, NEW w,
                          w = [name |-> c, photo |-> entry[c].status = "captured"]
                   PROVE  w \in Photos /\ (w.photo <=> entry[w.name].status = "captured")
      OBVIOUS
    <3>2. c \in Captures /\ w.name = c /\ w.photo = (entry[c].status = "captured")
      BY <3>1 DEF Owned
    <3>3. w \in Photos BY <3>1, <3>2 DEF Photos
    <3> QED BY <3>2, <3>3
  <2>2. closer' = [pc |-> "work", work |-> W] BY DEF CloserLists, Close, CloseOnly
  <2> HIDE DEF W
  <2>3. W \in SUBSET Photos BY <2>1
  <2> QED BY <2>1, <2>2, <2>3 DEF Closers
<1>3. \A c \in Captures : entry[c].status = "captured" => task[c] = "done"
  BY DEF FilesInv, Tasks
<1>4. Types' BY <1>0, <1>1, <1>2 DEF FilesInv, Types
<1>5. Removing' BY <1>0, <1>1, <1>2 DEF FilesInv, Removing, Removers
<1>6. Intruders' BY <1>0, <1>1, <1>2 DEF FilesInv, Intruders, Removers, Foreign, Names
<1>7. ForeignSurvives' BY <1>0, <1>1, <1>2 DEF FilesInv, ForeignSurvives
<1>8. Evidence'
  BY <1>1 DEF FilesInv, Evidence
<1>9. Accounted' BY <1>1 DEF FilesInv, Accounted, Current
<1>10. Tasks' BY <1>0, <1>1, <1>2 DEF FilesInv, Tasks, Tampered, Names
<1>11. Sessions'
  BY <1>0, <1>1, <1>2
  DEF FilesInv, Sessions, Tampered, Taken, Forgotten, Unchanged, Names
<1>12. Owner' BY <1>0, <1>1, <1>2 DEF FilesInv, Owner, Removes
<1>13. Closing' BY <1>0, <1>1, <1>2, <1>3 DEF FilesInv, Closing, Photos
<1> QED
  BY <1>4, <1>5, <1>6, <1>7, <1>8, <1>9, <1>10, <1>11, <1>12, <1>13
  DEF FilesInv

(* A session is removed from the map, or its photo first.                   *)
LEMMA CloserPicksKeeps ==
  ASSUME FilesInv, CloserPicks
  PROVE  FilesInv'
<1> USE DEF memory, evidence, history
<1>0. Types /\ Removing BY DEF FilesInv
<1>1. /\ closer.pc = "work" /\ rm["closer"].pc = "none"
      /\ UNCHANGED process
      /\ UNCHANGED <<budget, disk, aged, stranded, task, cleaner, evidence, history, faults>>
  BY <1>0 DEF CloserPicks, Close, CloseOnly, Removing
<1>2. PICK w \in Photos :
        /\ w \in closer.work
        /\ \/ /\ w.photo /\ StartRemoval("closer", w.name, "own") /\ UNCHANGED entry
              /\ closer' = [closer EXCEPT !.pc = "removing"]
           \/ /\ ~w.photo /\ entry' = [entry EXCEPT ![w.name] = NoEntry] /\ UNCHANGED rm
              /\ closer' = [closer EXCEPT !.work = @ \ {w}]
  <2>1. closer.work \subseteq Photos BY <1>0, <1>1 DEF Types, Closers
  <2> QED BY <2>1 DEF CloserPicks, Close, CloseOnly
<1>3. /\ w.name \in Captures /\ w.name \in Names
      /\ w.photo => task[w.name] = "done"
      /\ ~w.photo => entry[w.name].status # "captured"
  BY <1>1, <1>2 DEF Photos, Names, FilesInv, Closing
<1>4. CASE w.photo
  <2>1. Moved("closer", "open", w.name, "own", "none")
    BY <1>0, <1>2, <1>3, <1>4, Starts DEF Removers, Contents
  <2>2. closer' \in Closers /\ closer'.pc = "removing" /\ closer'.work = closer.work /\ UNCHANGED entry
    BY <1>0, <1>1, <1>2, <1>4 DEF Types, Closers
  <2>3. /\ rm' \in [Removers -> Removals] /\ rm'["retention"] = rm["retention"] /\ rm'["cleaner"] = rm["cleaner"]
        /\ rm'["closer"].held = "none" /\ rm'["closer"].pc = "open" /\ rm'["closer"].name = w.name
        /\ rm'["closer"].id = "own"
        /\ \A q \in Removers : q # "closer" => rm'[q] = rm[q]
    BY <2>1 DEF Moved, Removers
  <2>4. Types' BY <1>0, <1>1, <1>3, <1>4, <2>2, <2>3 DEF FilesInv, Types
  <2>5. Removing' BY <1>0, <1>1, <1>3, <1>4, <2>2, <2>3 DEF FilesInv, Removing, Removers, Kept
  <2>6. Intruders'
    BY <1>0, <1>1, <1>3, <1>4, <2>2, <2>3
    DEF FilesInv, Intruders, Removers, Foreign, Names
  <2>7. ForeignSurvives'
    BY <1>0, <1>1, <2>3 DEF FilesInv, ForeignSurvives, Types, Removing, Foreign, Removers
  <2>8. Evidence' BY ZenonT(60), <1>1, <2>3 DEF FilesInv, Evidence
  <2>9. Accounted' BY <1>1 DEF FilesInv, Accounted, Current
  <2>10. Tasks' BY <1>0, <1>1, <1>3, <1>4, <2>2, <2>3 DEF FilesInv, Tasks, Tampered, Names
  <2>11. Sessions'
    BY <1>0, <1>1, <1>3, <1>4, <2>2, <2>3
    DEF FilesInv, Sessions, Tampered, Taken, Forgotten, Unchanged, Names, Removers
  <2>12. Owner' BY <1>0, <1>1, <1>3, <1>4, <2>2, <2>3 DEF FilesInv, Owner, Removes
  <2>13. Closing' BY <1>0, <1>1, <1>3, <1>4, <2>2, <2>3 DEF FilesInv, Closing
  <2> QED
    BY <2>4, <2>5, <2>6, <2>7, <2>8, <2>9, <2>10, <2>11, <2>12, <2>13
    DEF FilesInv
<1>5. CASE ~w.photo
  <2>1. /\ closer' \in Closers /\ closer'.pc = "work" /\ closer'.work \subseteq closer.work
        /\ UNCHANGED rm
    BY <1>0, <1>1, <1>2, <1>5 DEF Types, Closers
  <2>2. /\ entry' \in [Captures -> Entries] /\ entry'[w.name] = NoEntry
        /\ \A c \in Captures : c # w.name => entry'[c] = entry[c]
    <3>1. entry' = [entry EXCEPT ![w.name] = NoEntry] BY <1>2, <1>5
    <3>2. entry \in [Captures -> Entries] /\ NoEntry \in Entries
      BY <1>0 DEF Types, Entries, NoEntry
    <3> QED BY <1>3, <3>1, <3>2
  <2>3. \A c \in Captures :
          /\ entry'[c].status = "captured" <=> entry[c].status = "captured"
          /\ entry[c].status = "captured" => entry'[c] = entry[c]
    BY <1>3, <1>5, <2>2 DEF NoEntry
  <2>4. Types' BY <1>0, <1>1, <2>1, <2>2, <2>3 DEF FilesInv, Types
  <2>5. Removing' BY <1>0, <1>1, <2>1, <2>2, <2>3 DEF FilesInv, Removing, Removers
  <2>6. Intruders'
    BY <1>0, <1>1, <2>1, <2>2, <2>3
    DEF FilesInv, Intruders, Removers, Foreign, Names
  <2>7. ForeignSurvives' BY <1>0, <1>1, <2>1, <2>2, <2>3 DEF FilesInv, ForeignSurvives
  <2>8. Evidence' BY <1>1, <2>1 DEF FilesInv, Evidence
  <2>9. Accounted' BY <1>1 DEF FilesInv, Accounted, Current
  <2>10. Tasks' BY <1>0, <1>1, <2>1, <2>2, <2>3 DEF FilesInv, Tasks, Tampered, Names
  <2>11. Sessions'
    <3>1. \A c \in Captures : (Tampered(c) => Tampered(c)') /\ (Taken(c) => Taken(c)')
      BY <1>1, <2>1 DEF Tampered, Taken
    <3>2. \A c \in Captures : entry[c].status = "captured" /\ Forgotten(c) => Forgotten(c)'
      BY <1>1, <2>3 DEF Forgotten, Unchanged
    <3> QED BY <1>1, <2>3, <3>1, <3>2 DEF FilesInv, Sessions
  <2>12. Owner'
    <3>1. \A v \in Listed : Removes(v) => Removes(v)'
      BY <1>0, <1>1, <2>1, <2>3 DEF Removes, Listed
    <3> QED BY <1>0, <1>1, <2>1, <2>3, <3>1 DEF FilesInv, Owner, Removing
  <2>13. Closing'
    BY <1>0, <1>1, <2>1, <2>2, <2>3
    DEF FilesInv, Closing, Types, Closers, Photos
  <2> QED
    BY <2>4, <2>5, <2>6, <2>7, <2>8, <2>9, <2>10, <2>11, <2>12, <2>13
    DEF FilesInv
<1> QED BY <1>4, <1>5


(* The photo of a session went, and the session with it.                    *)
LEMMA CloserRemovedKeeps ==
  ASSUME FilesInv, CloserRemoved
  PROVE  FilesInv'
<1> DEFINE n == rm["closer"].name
<1> USE DEF memory, evidence, history
<1>0. Types /\ Removing BY DEF FilesInv
<1>1. /\ closer.pc = "removing" /\ rm["closer"].pc \in {"ok", "failed"}
      /\ rm["closer"].held = "none" /\ n \in Captures
      /\ UNCHANGED process
      /\ UNCHANGED <<budget, disk, aged, stranded, task, cleaner, evidence, history, faults>>
  BY <1>0 DEF CloserRemoved, Close, CloseOnly, Removing, Removers
<1>2. Moved("closer", "none", 0, "none", "none")
  BY <1>0, Clears DEF CloserRemoved, Removers
<1>3. rm'["retention"] = rm["retention"] /\ rm'["cleaner"] = rm["cleaner"]
  BY <1>2 DEF Moved, Removers
<1>4. /\ entry' \in [Captures -> Entries]
      /\ \A c \in Captures : c # n => entry'[c] = entry[c]
      /\ rm["closer"].pc = "ok" => entry'[n] = NoEntry
      /\ rm["closer"].pc = "failed" => entry'[n] = entry[n]
  <2>1. entry \in [Captures -> Entries] /\ NoEntry \in Entries
    BY <1>0 DEF Types, Entries, NoEntry
  <2> QED BY <1>1, <2>1 DEF CloserRemoved, Close, CloseOnly
<1>5. closer' \in Closers /\ closer'.pc \in {"work", "over"} /\ closer'.work \subseteq closer.work
  <2> DEFINE W == {w \in closer.work : w.name # n}
  <2>1. closer.work \in SUBSET Photos /\ W \in SUBSET Photos /\ NoWork \in SUBSET Photos
        /\ W \subseteq closer.work /\ NoWork \subseteq closer.work
    BY <1>0, <1>1 DEF Types, Closers, NoWork
  <2>2. closer' = [pc |-> "work", work |-> W] \/ closer' = [pc |-> "over", work |-> NoWork]
    BY DEF CloserRemoved, Close, CloseOnly
  <2> HIDE DEF W
  <2> QED BY <2>1, <2>2 DEF Closers
<1>6. rm["closer"].pc = "ok" => disk[n] # "own"
  BY <1>0, <1>1 DEF FilesInv, Tasks, Removing
<1>7. \A c \in Captures : entry'[c].status = "captured" =>
        entry[c].status = "captured" /\ entry'[c] = entry[c]
  BY <1>1, <1>4 DEF NoEntry
<1> HIDE DEF n
<1> USE DEF Moved
<1>8. Types' BY <1>0, <1>1, <1>2, <1>4, <1>5, <1>7 DEF FilesInv, Types
<1>9. Removing' BY <1>0, <1>1, <1>2, <1>4, <1>5, <1>7 DEF FilesInv, Removing, Removers
<1>10. Intruders'
  BY <1>0, <1>1, <1>2, <1>4, <1>5, <1>7
  DEF FilesInv, Intruders, Removers, Foreign, Names, Removers, Foreign
<1>11. ForeignSurvives'
  BY <1>0, <1>1, <1>2 DEF FilesInv, ForeignSurvives, Types, Removing, Foreign, Removers
<1>12. Evidence'
  BY <1>1, <1>3 DEF FilesInv, Evidence
<1>13. Accounted' BY <1>1 DEF FilesInv, Accounted, Current
<1>14. Tasks'
  BY <1>0, <1>1, <1>2, <1>4, <1>5, <1>7
  DEF FilesInv, Tasks, Tampered, Names, Removers
<1>15. Sessions'
  <2>1. SUFFICES ASSUME NEW c \in Captures
                 PROVE  /\ entry'[c].status = "captured" =>
                             \/ disk[c] = "own" \/ Tampered(c) \/ Taken(c)' \/ Forgotten(c)'
                             \/ <<c, "own">> \in stranded
                        /\ disk[c] = "own" =>
                             task[c] = "published" \/ entry'[c].status = "captured" \/ c \in orphans
    BY <1>1 DEF Sessions, Tampered
  <2>2. entry'[c].status = "captured" =>
          \/ disk[c] = "own" \/ Tampered(c) \/ Taken(c) \/ Forgotten(c)
          \/ <<c, "own">> \in stranded
    BY <1>7 DEF FilesInv, Sessions
  <2>3. Taken(c) /\ entry'[c].status = "captured" => Taken(c)'
    BY <1>1, <1>3, <1>4 DEF Taken, n, NoEntry
  <2>4. Forgotten(c) /\ entry'[c].status = "captured" => Forgotten(c)'
    BY <1>1, <1>7 DEF Forgotten, Unchanged
  <2>5. disk[c] = "own" /\ entry[c].status = "captured" => entry'[c].status = "captured"
    BY <1>1, <1>4, <1>6
  <2> QED BY <2>2, <2>3, <2>4, <2>5 DEF FilesInv, Sessions
<1>16. Owner'
  <2>1. \A v \in Listed : Removes(v) => Removes(v)'
    BY <1>0, <1>1, <1>3, <1>7 DEF Removes, Listed
  <2> QED BY <1>0, <1>1, <1>3, <1>7, <2>1 DEF FilesInv, Owner, Removing
<1>17. Closing' BY <1>0, <1>1, <1>5, <1>7 DEF FilesInv, Closing, Types, Closers, Photos
<1> QED
  BY <1>8, <1>9, <1>10, <1>11, <1>12, <1>13, <1>14, <1>15, <1>16, <1>17
  DEF FilesInv

(* The files that the last sweep finds have no session.                     *)
LEMMA CloserSweepsKeeps ==
  ASSUME FilesInv, CloserSweeps
  PROVE  FilesInv'
<1> DEFINE found == {f \in aged : \E c \in Captures \ Owned : f = File(c)}
<1> USE DEF memory, evidence, history
<1>0. Types /\ Removing BY DEF FilesInv
<1>1. /\ closer.pc = "work"
      /\ UNCHANGED <<process, rm, entry>>
      /\ UNCHANGED <<budget, disk, aged, stranded, task, cleaner, evidence, orphans,
                     swapped, ends, crashes, faults>>
      /\ closer' = [pc |-> "sweep", work |-> found] /\ condemned' = condemned \cup found
  BY DEF CloserSweeps, CloseOnly
<1>2. /\ found \in SUBSET (Names \X Kept) /\ found \subseteq aged
      /\ \A f \in found : f[1] \in Captures /\ entry[f[1]].status # "captured"
  BY <1>0 DEF Types, File, Owned, NoEntry
<1>3. closer' \in Closers /\ closer'.pc = "sweep" /\ closer'.work = found
  BY <1>1, <1>2 DEF Closers
<1> HIDE DEF found
<1>4. Types' BY <1>0, <1>1, <1>2, <1>3 DEF FilesInv, Types
<1>5. Removing' BY <1>0, <1>1, <1>3 DEF FilesInv, Removing, Removers
<1>6. Intruders' BY <1>1 DEF FilesInv, Intruders
<1>7. ForeignSurvives' BY <1>1 DEF FilesInv, ForeignSurvives
<1>8. Evidence' BY <1>1 DEF FilesInv, Evidence
<1>9. Accounted' BY <1>1 DEF FilesInv, Accounted, Current
<1>10. Tasks' BY <1>1 DEF FilesInv, Tasks, Tampered
<1>11. Sessions' BY <1>1 DEF FilesInv, Sessions, Tampered, Taken, Forgotten, Unchanged
<1>12. Owner'
  <2>1. \A w \in Listed : Removes(w) => Removes(w)' BY <1>1 DEF Removes
  <2> QED BY <1>1, <2>1 DEF FilesInv, Owner
<1>13. Closing' BY <1>1, <1>2, <1>3 DEF FilesInv, Closing
<1> QED
  BY <1>4, <1>5, <1>6, <1>7, <1>8, <1>9, <1>10, <1>11, <1>12, <1>13
  DEF FilesInv

(* The next of them, or none.                                               *)
LEMMA CloserFindsOrphanKeeps ==
  ASSUME FilesInv, CloserFindsOrphan
  PROVE  FilesInv'
<1> USE DEF memory, evidence, history
<1>0. Types /\ Removing BY DEF FilesInv
<1>1. /\ closer.pc = "sweep" /\ rm["closer"].pc = "none"
      /\ closer.work \in SUBSET (Names \X Kept)
      /\ UNCHANGED <<process, entry>>
      /\ UNCHANGED <<budget, disk, aged, stranded, task, cleaner, evidence, history, faults>>
  BY <1>0 DEF CloserFindsOrphan, Close, CloseOnly, Removing, Types, Closers
<1>2. CASE /\ closer.work = NoWork /\ closer' = [closer EXCEPT !.pc = "over"] /\ UNCHANGED rm
  <2>1. closer' = [pc |-> "over", work |-> {}]
    BY <1>0, <1>1, <1>2 DEF Types, Closers, NoWork
  <2>2. closer' \in Closers /\ closer'.pc = "over" BY <2>1 DEF Closers
  <2>3. UNCHANGED rm BY <1>2
  <2>4. Types' BY <1>0, <1>1, <2>2, <2>3 DEF Types
  <2>5. Removing' BY <1>0, <1>1, <2>2, <2>3 DEF Removing, Removers
  <2>6. Intruders' BY <1>1, <2>3 DEF FilesInv, Intruders
  <2>7. ForeignSurvives' BY <1>1, <2>3 DEF FilesInv, ForeignSurvives
  <2>8. Evidence' BY <1>1, <2>3 DEF FilesInv, Evidence
  <2>9. Accounted' BY <1>1 DEF FilesInv, Accounted, Current
  <2>10. Tasks' BY <1>1, <2>3 DEF FilesInv, Tasks, Tampered
  <2>11. Sessions' BY <1>1, <2>3 DEF FilesInv, Sessions, Tampered, Taken, Forgotten, Unchanged
  <2>12. Owner'
    <3>1. \A w \in Listed : Removes(w) => Removes(w)' BY <1>1, <2>3 DEF Removes
    <3> QED BY <1>1, <2>3, <3>1 DEF FilesInv, Owner
  <2>13. Closing' BY <1>1, <2>2 DEF FilesInv, Closing
  <2> QED
    BY <2>4, <2>5, <2>6, <2>7, <2>8, <2>9, <2>10, <2>11, <2>12, <2>13
    DEF FilesInv
<1>3. ASSUME NEW f \in closer.work, StartRemoval("closer", f[1], f[2]),
             closer' = [pc |-> "sweeping", work |-> closer.work \ {f}]
      PROVE  FilesInv'
  <2>1. /\ f[1] \in Captures /\ f[1] \in Names /\ f[2] \in Kept /\ f[2] \in Contents
        /\ f = <<f[1], f[2]>> /\ f \in condemned /\ f \in aged
        /\ entry[f[1]].status # "captured"
    <3>1. f \in Names \X Kept BY <1>1, <1>3
    <3>2. f \in condemned /\ f[1] \in Captures /\ entry[f[1]].status # "captured"
      BY <1>1, <1>3 DEF FilesInv, Closing
    <3> QED BY <1>0, <3>1, <3>2 DEF Types, Kept, Contents
  <2>2. f[2] = "own" => task[f[1]] = "done"
    BY <2>1 DEF FilesInv, Tasks
  <2>3. Moved("closer", "open", f[1], f[2], "none")
    BY <1>0, <1>3, <2>1, Starts DEF Removers
  <2>4. /\ closer' \in Closers /\ closer'.pc = "sweeping"
        /\ closer'.work \subseteq closer.work
    <3>1. closer.work \ {f} \in SUBSET (Names \X Kept) BY <1>1
    <3> QED BY <1>3, <3>1 DEF Closers
  <2>5. /\ rm' \in [Removers -> Removals] /\ rm'["retention"] = rm["retention"]
        /\ rm'["cleaner"] = rm["cleaner"]
        /\ rm'["closer"].held = "none" /\ rm'["closer"].pc = "open"
        /\ rm'["closer"].name = f[1] /\ rm'["closer"].id = f[2]
        /\ \A q \in Removers : q # "closer" => rm'[q] = rm[q]
    BY <2>3 DEF Moved, Removers
  <2>6. Types' BY <1>0, <1>1, <2>4, <2>5 DEF Types
  <2>7. Removing' BY <1>0, <1>1, <2>1, <2>4, <2>5 DEF Removing, Removers
  <2>8. Intruders' BY <1>0, <1>1, <2>1, <2>5 DEF FilesInv, Intruders, Removers, Foreign
  <2>9. ForeignSurvives'
    BY <1>0, <1>1, <2>5 DEF FilesInv, ForeignSurvives, Types, Removing, Foreign, Removers
  <2>10. Evidence' BY ZenonT(60), <1>1, <2>5 DEF FilesInv, Evidence
  <2>11. Accounted' BY <1>1 DEF FilesInv, Accounted, Current
  <2>12. Tasks' BY <1>0, <1>1, <2>1, <2>2, <2>5 DEF FilesInv, Tasks, Tampered
  <2>13. Sessions'
    BY <1>0, <1>1, <2>5
    DEF FilesInv, Sessions, Tampered, Taken, Forgotten, Unchanged, Removers
  <2>14. Owner'
    <3>1. \A w \in Listed : Removes(w) => Removes(w)' BY <1>1, <2>5 DEF Removes
    <3> QED BY <1>1, <2>5, <3>1 DEF FilesInv, Owner
  <2>15. Closing' BY <1>1, <2>1, <2>4, <2>5 DEF FilesInv, Closing
  <2> QED
    BY <2>6, <2>7, <2>8, <2>9, <2>10, <2>11, <2>12, <2>13, <2>14, <2>15
    DEF FilesInv
<1> QED BY <1>2, <1>3 DEF CloserFindsOrphan, Close, CloseOnly

(* The last sweep goes on, whether or not the file could be removed.        *)
LEMMA CloserSweptKeeps ==
  ASSUME FilesInv, CloserSwept
  PROVE  FilesInv'
<1> USE DEF memory, evidence, history
<1>0. Types /\ Removing BY DEF FilesInv
<1>1. /\ closer.pc = "sweeping" /\ rm["closer"].pc \in {"ok", "failed"}
      /\ rm["closer"].held = "none"
      /\ UNCHANGED <<process, entry>>
      /\ UNCHANGED <<budget, disk, aged, stranded, task, cleaner, evidence, history, faults>>
  BY <1>0 DEF CloserSwept, Close, CloseOnly, Removing, Removers
<1>2. closer' \in Closers /\ closer'.pc = "sweep" /\ closer'.work = closer.work
  BY <1>0, <1>1 DEF CloserSwept, Close, CloseOnly, Types, Closers
<1>3. Moved("closer", "none", 0, "none", "none")
  BY <1>0, Clears DEF CloserSwept, Removers
<1>4. rm'["retention"] = rm["retention"] /\ rm'["cleaner"] = rm["cleaner"]
  BY <1>3 DEF Moved, Removers
<1>5. entry[rm["closer"].name].status # "captured" BY <1>1 DEF FilesInv, Closing
<1> USE DEF Moved
<1>6. Types' BY <1>0, <1>1, <1>2, <1>3 DEF Types
<1>7. Removing' BY <1>0, <1>1, <1>2, <1>3 DEF Removing, Removers
<1>8. Intruders' BY <1>0, <1>1, <1>3 DEF FilesInv, Intruders, Removers, Foreign
<1>9. ForeignSurvives'
  BY <1>0, <1>1, <1>3 DEF FilesInv, ForeignSurvives, Types, Removing, Foreign, Removers
<1>10. Evidence' BY <1>1, <1>4 DEF FilesInv, Evidence
<1>11. Accounted' BY <1>1 DEF FilesInv, Accounted, Current
<1>12. Tasks' BY <1>0, <1>1, <1>3, <1>4 DEF FilesInv, Tasks, Tampered, Removers
<1>13. Sessions'
  BY <1>0, <1>1, <1>3, <1>4, <1>5
  DEF FilesInv, Sessions, Tampered, Taken, Forgotten, Unchanged, Removers
<1>14. Owner'
  <2>1. \A w \in Listed : Removes(w) => Removes(w)' BY <1>1, <1>4 DEF Removes
  <2> QED BY <1>1, <1>4, <2>1 DEF FilesInv, Owner
<1>15. Closing' BY <1>1, <1>2 DEF FilesInv, Closing
<1> QED
  BY <1>6, <1>7, <1>8, <1>9, <1>10, <1>11, <1>12, <1>13, <1>14, <1>15
  DEF FilesInv

-----------------------------------------------------------------------------
(* Evidence and retention.                                                  *)

(* A request writes its evidence.                                           *)
LEMMA CreateLeaveKeeps ==
  ASSUME FilesInv, NEW l \in Leaves, create_leave(l)
  PROVE  FilesInv'
<1> USE DEF memory, evidence, history
<1>0. Types /\ Removing BY DEF FilesInv
<1>1. /\ leave[l] = "none" /\ l \notin Captures /\ l \in Names
      /\ UNCHANGED <<budget, process, aged, stranded, rm, memory, policy, sweep, audit,
                     deleted, history, faults>>
  BY FilesAssumption DEF create_leave, Leave, Names, history
<1>2. disk[l] = "none" /\ l \notin deleted BY <1>1 DEF FilesInv, Evidence
<1>3. /\ disk' \in [Names -> Contents] /\ disk'[l] = "own"
      /\ \A m \in Names : m # l => disk'[m] = disk[m]
      /\ \A c \in Captures : disk'[c] = disk[c]
  BY <1>0, <1>1 DEF create_leave, Types, Contents, Names
<1>4. /\ leave' \in [Leaves -> {"none", "written", "kept", "refused", "lost"}]
      /\ leave'[l] = "written"
      /\ \A k \in Leaves : k # l => leave'[k] = leave[k]
  BY <1>0 DEF create_leave, Leave, Types
<1>5. \A w \in Listed : disk'[w.name] = disk[w.name] BY <1>3 DEF Listed
<1>6. Types' BY <1>0, <1>1, <1>3, <1>4 DEF FilesInv, Types
<1>7. Removing' BY <1>0, <1>1, <1>3 DEF FilesInv, Removing, Removers
<1>8. Intruders'
  BY <1>0, <1>1, <1>3, <1>2
  DEF FilesInv, Intruders, Removers, Foreign, Names, Foreign
<1>9. ForeignSurvives' BY <1>0, <1>1, <1>3, <1>2 DEF FilesInv, ForeignSurvives, Types
<1>10. Evidence'
  <2>1. rm["retention"].pc # "none" => rm["retention"].name # l
    BY <1>0, <1>1 DEF FilesInv, Evidence, Removing
  <2>2. \A k \in Leaves : k # l => disk'[k] = disk[k] /\ leave'[k] = leave[k]
    BY <1>3, <1>4 DEF Names
  <2> QED BY ZenonT(60), <1>1, <1>2, <1>3, <1>4, <2>1, <2>2 DEF FilesInv, Evidence
<1>11. Accounted' BY <1>1 DEF FilesInv, Accounted, Current
<1>12. Tasks' BY <1>0, <1>1, <1>3 DEF FilesInv, Tasks, Tampered, Names, Removing
<1>13. Sessions'
  BY <1>1, <1>3 DEF FilesInv, Sessions, Tampered, Taken, Forgotten, Unchanged
<1>14. Owner'
  <2>1. \A v \in Listed : Removes(v) => Removes(v)'
    BY <1>1, <1>5 DEF Removes, Listed
  <2> QED BY <1>1, <2>1 DEF FilesInv, Owner, Removing
<1>15. Closing' BY <1>0, <1>1, <1>3 DEF FilesInv, Closing
<1> QED
  BY <1>6, <1>7, <1>8, <1>9, <1>10, <1>11, <1>12, <1>13, <1>14, <1>15
  DEF FilesInv

(* The commit keeps the evidence; a failure takes it away, or leaves an     *)
(* orphan.                                                                  *)
LEMMA LeaveStoredKeeps ==
  ASSUME FilesInv, NEW l \in Leaves, LeaveStored(l)
  PROVE  FilesInv'
<1> USE DEF memory, evidence, history
<1>0. Types /\ Removing BY DEF FilesInv
<1>1. /\ leave[l] = "written" /\ l \notin Captures /\ l \in Names
      /\ UNCHANGED <<budget, process, aged, stranded, rm, memory, policy, sweep, audit,
                     deleted, swapped, condemned, ends, crashes>>
  BY FilesAssumption DEF LeaveStored, Leave, Names
<1>2. disk[l] \notin Foreign
  <2>1. <<l, disk[l]>> \notin swapped BY <1>0, <1>1 DEF Types
  <2> QED BY <1>1, <2>1 DEF FilesInv, Intruders
<1>3. /\ leave' \in [Leaves -> {"none", "written", "kept", "refused", "lost"}]
      /\ \A k \in Leaves : k # l => leave'[k] = leave[k]
      /\ \/ leave'[l] = "kept" /\ UNCHANGED <<disk, orphans, faults>>
         \/ leave'[l] = "refused" /\ disk' = EvidenceDropped(l) /\ UNCHANGED <<orphans, faults>>
         \/ leave'[l] = "refused" /\ GuardFails(l)
  BY <1>0 DEF LeaveStored, Leave, Types
<1>17. /\ orphans \subseteq orphans' /\ orphans' \subseteq Names
       /\ faults' \in Nat /\ faults <= faults'
  BY <1>0, <1>1, <1>3 DEF GuardFails, Fault, Types
<1>4. /\ disk' \in [Names -> Contents]
      /\ \A m \in Names : m # l => disk'[m] = disk[m]
      /\ \A c \in Captures : disk'[c] = disk[c]
      /\ disk'[l] # "none" => disk'[l] = disk[l]
      /\ \/ leave'[l] = "kept" /\ disk'[l] = disk[l]
         \/ leave'[l] = "refused" /\ (disk'[l] = "none" \/ l \in orphans')
  <2>1. CASE UNCHANGED disk /\ leave'[l] = "kept" BY <1>0, <1>1, <2>1 DEF Types
  <2>3. CASE GuardFails(l) /\ leave'[l] = "refused"
    BY <1>0, <1>1, <2>3 DEF GuardFails, Types
  <2>2. CASE disk' = EvidenceDropped(l) /\ leave'[l] = "refused"
    <3>1. disk[l] \in {"none", "own"} /\ disk \in [Names -> Contents]
      BY <1>0, <1>1, <1>2 DEF Types, Contents
    <3> QED BY <1>1, <2>2, <3>1 DEF EvidenceDropped, GuardDropped, Names, Contents
  <2> QED BY <1>3, <2>1, <2>2, <2>3
<1>5. \A w \in Listed : disk'[w.name] = disk[w.name] BY <1>4 DEF Listed
<1>6. \A f \in swapped : disk'[f[1]] = disk[f[1]] BY <1>0, <1>4 DEF Types
<1>7. Types' BY <1>0, <1>1, <1>4, <1>3, <1>17 DEF FilesInv, Types
<1>8. Removing' BY <1>0, <1>1, <1>4 DEF FilesInv, Removing, Removers
<1>9. Intruders'
  BY <1>0, <1>1, <1>4, <1>2
  DEF FilesInv, Intruders, Removers, Foreign, Names, Foreign
<1>10. ForeignSurvives' BY <1>1, <1>6 DEF FilesInv, ForeignSurvives
<1>11. Evidence' BY ZenonT(60), <1>1, <1>3, <1>4, <1>17 DEF FilesInv, Evidence, Names
<1>12. Accounted' BY <1>0, <1>1, <1>17, AccountedGrows DEF FilesInv
<1>13. Tasks' BY <1>0, <1>1, <1>4 DEF FilesInv, Tasks, Tampered, Names, Removing
<1>14. Sessions'
  BY <1>1, <1>4, <1>17 DEF FilesInv, Sessions, Tampered, Taken, Forgotten, Unchanged
<1>15. Owner'
  <2>1. \A v \in Listed : Removes(v) => Removes(v)'
    BY <1>1, <1>5 DEF Removes, Listed
  <2> QED BY <1>1, <2>1 DEF FilesInv, Owner, Removing
<1>16. Closing' BY <1>0, <1>1, <1>4 DEF FilesInv, Closing
<1> QED
  BY <1>7, <1>8, <1>9, <1>10, <1>11, <1>12, <1>13, <1>14, <1>15, <1>16
  DEF FilesInv

-----------------------------------------------------------------------------
(* The retention sweep.                                                     *)

(* One member more or less.                                                 *)
LEMMA OneFewer ==
  ASSUME NEW S, IsFiniteSet(S), NEW x
  PROVE  /\ Cardinality(S) \in Nat /\ Cardinality(S \ {x}) \in Nat
         /\ Cardinality(S \ {x}) <= Cardinality(S)
         /\ Cardinality(S) <= Cardinality(S \ {x}) + 1
<1>1. Cardinality(S) \in Nat BY FS_CardinalityType
<1>2. CASE x \in S
  <2>1. Cardinality(S \ {x}) = Cardinality(S) - 1 BY <1>2, FS_RemoveElement
  <2>2. Cardinality(S \ {x}) \in Nat BY FS_RemoveElement, FS_CardinalityType, <1>2
  <2> QED BY <1>1, <2>1, <2>2
<1>3. CASE x \notin S
  <2>1. S \ {x} = S BY <1>3
  <2> QED BY <1>1, <2>1
<1> QED BY <1>2, <1>3

(* All the deletions without an audit, the current one included.            *)
LEMMA Unaudited ==
  ASSUME Types, Accounted
  PROVE  Cardinality(deleted \ audit)
           <= ends + faults + (IF sweep.pc \in {"removing", "audit"} THEN 1 ELSE 0)
<1> DEFINE D == deleted \ audit
<1>1. IsFiniteSet(D) /\ ends \in Nat /\ faults \in Nat BY FinitelyMany
<1>2. Cardinality(D \ Current) <= ends + faults BY DEF Accounted
<1>3. CASE sweep.pc \in {"removing", "audit"}
  <2>1. Cardinality(D \ {sweep.name}) <= ends + faults BY <1>2, <1>3 DEF Current
  <2>2. /\ Cardinality(D) \in Nat /\ Cardinality(D \ {sweep.name}) \in Nat
        /\ Cardinality(D) <= Cardinality(D \ {sweep.name}) + 1
    BY ONLY <1>1, OneFewer
  <2> HIDE DEF D
  <2>3. Cardinality(D) <= ends + faults + 1 BY ONLY <1>1, <2>1, <2>2
  <2> QED BY <1>3, <2>3 DEF D
<1>4. CASE sweep.pc \notin {"removing", "audit"}
  <2>1. D \ Current = D BY <1>4 DEF Current
  <2>2. Cardinality(D) <= ends + faults BY <1>2, <2>1
  <2>3. Cardinality(D) \in Nat BY <1>1, FS_CardinalityType
  <2> HIDE DEF D
  <2>4. Cardinality(D) <= ends + faults + 0 BY ONLY <1>1, <2>2, <2>3
  <2> QED BY <1>4, <2>4 DEF D
<1> QED BY <1>3, <1>4

(* A sweep lists evidence that was written.                                 *)
LEMMA RetentionStartsKeeps ==
  ASSUME FilesInv, RetentionStarts
  PROVE  FilesInv'
<1> USE DEF memory, evidence, history
<1>0. Types /\ Removing BY DEF FilesInv
<1>1. /\ sweep.pc = "idle"
      /\ UNCHANGED <<rm, audit, deleted, faults>>
      /\ UNCHANGED <<budget, process, disk, aged, stranded, memory, leave, policy, history>>
  BY DEF RetentionStarts, Retain
<1>2. sweep' \in Sweeps /\ sweep'.pc = "files"
      /\ sweep'.todo \subseteq Leaves
      /\ \A l \in sweep'.todo : disk[l] # "none"
  <2>1. \A l \in Leaves : File(l) \in aged => disk[l] # "none"
    BY <1>0 DEF File, Types, Kept, Foreign
  <2> QED BY <2>1 DEF RetentionStarts, Retain, Sweeps
<1>3. Types' BY <1>0, <1>1, <1>2 DEF FilesInv, Types
<1>4. Removing' BY <1>0, <1>1, <1>2 DEF FilesInv, Removing, Removers
<1>5. Intruders' BY <1>0, <1>1, <1>2 DEF FilesInv, Intruders, Removers, Foreign, Names
<1>6. ForeignSurvives' BY <1>0, <1>1, <1>2 DEF FilesInv, ForeignSurvives
<1>7. Evidence'
  BY <1>1, <1>2 DEF FilesInv, Evidence
<1>8. Accounted' BY <1>1, <1>2 DEF FilesInv, Accounted, Current
<1>9. Tasks' BY <1>1 DEF FilesInv, Tasks, Tampered
<1>10. Sessions'
  BY <1>1 DEF FilesInv, Sessions, Tampered, Taken, Forgotten, Unchanged
<1>11. Owner'
  <2>1. \A w \in Listed : Removes(w) => Removes(w)' BY <1>1 DEF Removes
  <2> QED BY <1>1, <2>1 DEF FilesInv, Owner
<1>12. Closing' BY <1>0, <1>1, <1>2 DEF FilesInv, Closing
<1> QED
  BY <1>3, <1>4, <1>5, <1>6, <1>7, <1>8, <1>9, <1>10, <1>11, <1>12
  DEF FilesInv

(* The next evidence.                                                       *)
LEMMA RetentionPicksKeeps ==
  ASSUME FilesInv, RetentionPicks
  PROVE  FilesInv'
<1> USE DEF memory, evidence, history
<1>0. Types /\ Removing BY DEF FilesInv
<1>1. /\ sweep.pc = "files" /\ rm["retention"].pc = "none" /\ rm["retention"].held = "none"
      /\ UNCHANGED <<audit, deleted, faults>>
      /\ UNCHANGED <<budget, process, disk, aged, stranded, memory, leave, policy, history>>
  BY <1>0 DEF RetentionPicks, Retain, Removing, Removers
<1>2. CASE UNCHANGED rm /\ sweep' = [sweep EXCEPT !.pc = "idle"]
  <2>1. sweep' \in Sweeps /\ sweep'.pc = "idle" /\ sweep'.todo = sweep.todo
    BY <1>0, <1>2 DEF Types, Sweeps
  <2>2. UNCHANGED rm BY <1>2
  <2>3. Types' BY <1>0, <1>1, <2>1, <2>2 DEF FilesInv, Types
  <2>4. Removing' BY <1>0, <1>1, <2>1, <2>2 DEF FilesInv, Removing, Removers
  <2>5. Intruders'
    BY <1>0, <1>1, <2>1, <2>2
    DEF FilesInv, Intruders, Removers, Foreign, Names
  <2>6. ForeignSurvives' BY <1>0, <1>1, <2>1, <2>2 DEF FilesInv, ForeignSurvives
  <2>7. Evidence' BY <1>1, <2>1, <2>2 DEF FilesInv, Evidence
  <2>8. Accounted' BY <1>1, <2>1 DEF FilesInv, Accounted, Current
  <2>9. Tasks' BY <1>1, <2>2 DEF FilesInv, Tasks, Tampered
  <2>10. Sessions'
    BY <1>1, <2>2 DEF FilesInv, Sessions, Tampered, Taken, Forgotten, Unchanged
  <2>11. Owner'
    <3>1. \A w \in Listed : Removes(w) => Removes(w)' BY <1>1, <2>2 DEF Removes
    <3> QED BY <1>1, <2>2, <3>1 DEF FilesInv, Owner
  <2>12. Closing' BY <1>0, <1>1, <2>1, <2>2 DEF FilesInv, Closing
  <2> QED
    BY <2>3, <2>4, <2>5, <2>6, <2>7, <2>8, <2>9, <2>10, <2>11, <2>12
    DEF FilesInv
<1>3. ASSUME NEW l \in sweep.todo, disk[l] # "none", StartRemoval("retention", l, disk[l]),
             sweep' = [pc |-> "removing", name |-> l, todo |-> sweep.todo \ {l}]
      PROVE  FilesInv'
  <2>0. l \in Leaves /\ l \in Names /\ sweep.todo \in SUBSET Leaves
    BY <1>0, <1>3 DEF Types, Sweeps, Names
  <2>1. /\ sweep' \in Sweeps /\ sweep'.pc = "removing" /\ sweep'.name = l
        /\ sweep'.todo \subseteq sweep.todo
    BY <1>3, <2>0 DEF Sweeps
  <2>15. disk[l] = "own"
    <3>1. disk[l] \in Contents BY <1>0, <2>0 DEF Types
    <3>2. disk[l] \notin Foreign
      BY <1>0, <2>0, FilesAssumption DEF FilesInv, Intruders, Types
    <3> QED BY <1>3, <3>1, <3>2 DEF Contents
  <2>2. Moved("retention", "open", l, "own", "none")
    BY <1>0, <1>3, <2>0, <2>15, Starts DEF Removers, Contents
  <2>3. /\ rm' \in [Removers -> Removals] /\ rm'["closer"] = rm["closer"] /\ rm'["cleaner"] = rm["cleaner"]
        /\ rm'["retention"].held = "none" /\ rm'["retention"].pc = "open" /\ rm'["retention"].name = l
        /\ rm'["retention"].id = "own"
        /\ \A q \in Removers : q # "retention" => rm'[q] = rm[q]
    BY <2>2 DEF Moved, Removers
  <2>4. leave[l] # "none" BY <1>3, <2>0 DEF FilesInv, Evidence
  <2>5. Types' BY <1>0, <1>1, <2>0, <2>1, <2>3 DEF FilesInv, Types
  <2>6. Removing' BY <1>0, <1>1, <2>0, <2>1, <2>3 DEF FilesInv, Removing, Removers, Kept
  <2>7. Intruders'
    BY <1>0, <1>1, <2>0, <2>1, <2>3
    DEF FilesInv, Intruders, Removers, Foreign, Names
  <2>8. ForeignSurvives'
    BY <1>0, <1>1, <2>3 DEF FilesInv, ForeignSurvives, Types, Removing, Foreign, Removers
  <2>9. Evidence' BY <1>1, <2>1, <2>3, <2>4 DEF FilesInv, Evidence
  <2>10. Accounted'
    <3>1. /\ IsFiniteSet(deleted \ audit) /\ ends \in Nat /\ faults \in Nat
          /\ Cardinality(deleted \ audit) <= ends + faults
      BY <1>0, <1>1, FinitelyMany DEF FilesInv, Accounted, Current
    <3>2. /\ Cardinality(deleted \ audit) \in Nat /\ Cardinality((deleted \ audit) \ {l}) \in Nat
          /\ Cardinality((deleted \ audit) \ {l}) <= Cardinality(deleted \ audit)
      BY ONLY <3>1, OneFewer
    <3>3. Cardinality((deleted \ audit) \ {l}) <= ends + faults BY ONLY <3>1, <3>2
    <3> QED BY <1>1, <2>1, <3>3 DEF Accounted, Current
  <2>11. Tasks' BY <1>1, <2>3 DEF FilesInv, Tasks, Tampered
  <2>12. Sessions'
    <3>1. \A c \in Captures : Tampered(c) => Tampered(c)' BY <1>1 DEF Tampered
    <3>2. \A c \in Captures : Taken(c) => Taken(c)' BY <2>3 DEF Taken
    <3>3. \A c \in Captures : Forgotten(c) => Forgotten(c)' BY <1>1 DEF Forgotten, Unchanged
    <3> QED BY <1>1, <3>1, <3>2, <3>3 DEF FilesInv, Sessions
  <2>13. Owner'
    <3>1. \A w \in Listed : Removes(w) => Removes(w)' BY <1>1, <2>3 DEF Removes
    <3> QED BY <1>1, <2>3, <3>1 DEF FilesInv, Owner
  <2>14. Closing' BY <1>0, <1>1, <2>0, <2>1, <2>3 DEF FilesInv, Closing
  <2> QED
    BY <2>5, <2>6, <2>7, <2>8, <2>9, <2>10, <2>11, <2>12, <2>13, <2>14
    DEF FilesInv
<1> QED BY <1>2, <1>3 DEF RetentionPicks, Retain

(* What was removed is audited next, and what was not is still there.       *)
LEMMA RetentionRemovedKeeps ==
  ASSUME FilesInv, RetentionRemoved
  PROVE  FilesInv'
<1> USE DEF memory, evidence, history
<1>0. Types /\ Removing BY DEF FilesInv
<1>1. /\ sweep.pc = "removing" /\ rm["retention"].pc \in {"ok", "failed"}
      /\ rm["retention"].held = "none" /\ rm["retention"].name = sweep.name /\ sweep.name \in Leaves
      /\ UNCHANGED <<audit, deleted, faults>>
      /\ UNCHANGED <<budget, process, disk, aged, stranded, memory, leave, policy, history>>
  BY <1>0 DEF RetentionRemoved, Retain, Removing, Removers
<1>2. /\ sweep' \in Sweeps /\ sweep'.name = sweep.name /\ sweep'.todo = sweep.todo
      /\ rm["retention"].pc = "ok" => sweep'.pc = "audit"
      /\ rm["retention"].pc = "failed" => sweep'.pc = "files"
  BY <1>0, <1>1 DEF RetentionRemoved, Retain, Types, Sweeps
<1>3. Moved("retention", "none", 0, "none", "none")
  BY <1>0, Clears DEF RetentionRemoved, Removers
<1>4. rm'["closer"] = rm["closer"] /\ rm'["cleaner"] = rm["cleaner"] /\ rm'["retention"].pc = "none"
  BY <1>3 DEF Moved, Removers
<1>5. rm["retention"].pc = "failed" => sweep.name \notin deleted
  BY <1>1 DEF FilesInv, Evidence
<1>6. Types' BY <1>0, <1>1, <1>2, <1>3 DEF FilesInv, Types, Moved
<1>7. Removing' BY <1>0, <1>1, <1>2, <1>3 DEF FilesInv, Removing, Removers, Moved
<1>8. Intruders'
  BY <1>0, <1>1, <1>2, <1>3
  DEF FilesInv, Intruders, Removers, Foreign, Names, Moved, Removers, Foreign
<1>9. ForeignSurvives'
  BY <1>0, <1>1, <1>3 DEF FilesInv, ForeignSurvives, Types, Removing, Foreign, Removers, Moved
<1>10. Evidence'
  BY <1>1, <1>2, <1>4 DEF FilesInv, Evidence
<1>11. Accounted'
  <2>1. (deleted \ audit) \ Current' = (deleted \ audit) \ Current
    BY <1>1, <1>2, <1>5 DEF Current
  <2> QED BY <1>1, <2>1 DEF FilesInv, Accounted
<1>12. Tasks' BY <1>1, <1>4 DEF FilesInv, Tasks, Tampered
<1>13. Sessions'
  BY <1>1, <1>4 DEF FilesInv, Sessions, Tampered, Taken, Forgotten, Unchanged
<1>14. Owner'
  <2>1. \A w \in Listed : Removes(w) => Removes(w)' BY <1>1, <1>4 DEF Removes
  <2> QED BY <1>1, <1>4, <2>1 DEF FilesInv, Owner
<1>15. Closing' BY <1>0, <1>1, <1>2, <1>4 DEF FilesInv, Closing
<1> QED
  BY <1>6, <1>7, <1>8, <1>9, <1>10, <1>11, <1>12, <1>13, <1>14, <1>15
  DEF FilesInv

(* The audit of the deletion, or the failure that costs it.                 *)
LEMMA RetentionAuditsKeeps ==
  ASSUME FilesInv, RetentionAudits
  PROVE  FilesInv'
<1> USE DEF memory, evidence, history
<1>0. Types /\ Removing BY DEF FilesInv
<1>1. /\ sweep.pc = "audit" /\ sweep.name \in Leaves
      /\ UNCHANGED <<rm, deleted>>
      /\ UNCHANGED <<budget, process, disk, aged, stranded, memory, leave, policy, history>>
  BY <1>0 DEF RetentionAudits, Retain, Removing
<1>2. sweep' \in Sweeps /\ sweep'.pc = "files" /\ sweep'.todo = sweep.todo
  BY <1>0 DEF RetentionAudits, Retain, Types, Sweeps
<1>3. \/ audit' = audit \cup {sweep.name} /\ UNCHANGED faults
      \/ UNCHANGED audit /\ faults' = faults + 1
  BY DEF RetentionAudits, Audited, Fault
<1>4. audit' \subseteq Leaves /\ faults' \in Nat BY <1>0, <1>1, <1>3 DEF Types
<1>5. Types' BY <1>0, <1>1, <1>2, <1>4 DEF FilesInv, Types
<1>6. Removing' BY <1>0, <1>1, <1>2 DEF FilesInv, Removing, Removers
<1>7. Intruders' BY <1>0, <1>1, <1>2 DEF FilesInv, Intruders, Removers, Foreign, Names
<1>8. ForeignSurvives' BY <1>0, <1>1, <1>2 DEF FilesInv, ForeignSurvives
<1>9. Evidence'
  BY <1>1, <1>2 DEF FilesInv, Evidence
<1>10. Accounted'
  <2> DEFINE D == deleted \ audit
             one == Cardinality(D \ {sweep.name})
  <2>1. IsFiniteSet(D) /\ ends \in Nat /\ faults \in Nat /\ one <= ends + faults
    BY <1>0, <1>1, FinitelyMany DEF FilesInv, Accounted, Current
  <2>2. Cardinality(D) \in Nat /\ one \in Nat /\ Cardinality(D) <= one + 1
    BY ONLY <2>1, OneFewer
  <2>3. Current' = {} BY <1>2 DEF Current
  <2>4. CASE audit' = audit \cup {sweep.name} /\ UNCHANGED faults
    <3>1. (deleted' \ audit') \ Current' = D \ {sweep.name} BY <1>1, <2>3, <2>4
    <3> QED BY <1>1, <2>1, <2>4, <3>1 DEF Accounted
  <2>5. CASE UNCHANGED audit /\ faults' = faults + 1
    <3>1. (deleted' \ audit') \ Current' = D BY <1>1, <2>3, <2>5
    <3> HIDE DEF D, one
    <3>2. Cardinality(D) <= ends + (faults + 1) BY ONLY <2>1, <2>2
    <3> QED BY <1>1, <2>5, <3>1, <3>2 DEF Accounted
  <2> QED BY <1>3, <2>4, <2>5
<1>11. Tasks' BY <1>1 DEF FilesInv, Tasks, Tampered
<1>12. Sessions'
  BY <1>1 DEF FilesInv, Sessions, Tampered, Taken, Forgotten, Unchanged
<1>13. Owner'
  <2>1. \A w \in Listed : Removes(w) => Removes(w)' BY <1>1 DEF Removes
  <2> QED BY <1>1, <2>1 DEF FilesInv, Owner
<1>14. Closing' BY <1>0, <1>1, <1>2 DEF FilesInv, Closing
<1> QED
  BY <1>5, <1>6, <1>7, <1>8, <1>9, <1>10, <1>11, <1>12, <1>13, <1>14
  DEF FilesInv

-----------------------------------------------------------------------------
(* The end of a process, and the next one.                                  *)

(* What an exit and a crash have in common: the memory is gone, the files   *)
(* stay, and those of nobody are counted.                                   *)
ProcessEnds ==
  /\ process' \in {"down", "closed"}
  /\ process' = "down" => cleaner'.pc = "idle"
  /\ cleaner' \in Cleaners /\ cleaner'.pc \in {"idle", "stopped"}
  /\ cleaner'.aged \subseteq cleaner.aged
  /\ ends' = ends + 1 /\ crashes' \in Nat
  /\ task' \in [Captures -> {"none", "done"}]
  /\ \A c \in Captures : task[c] # "none" => task'[c] = "done"
  /\ entry' = [c \in Captures |-> NoEntry]
  /\ rm' = [r \in Removers |-> NoRemoval]
  /\ closer' = [pc |-> "idle", work |-> NoWork]
  /\ sweep' = [pc |-> "idle", name |-> 0, todo |-> {}]
  /\ leave' = [l \in Leaves |-> IF leave[l] = "written" THEN "lost" ELSE leave[l]]
  /\ stranded \subseteq stranded' /\ stranded' \subseteq Names \X ({"tmp", "own"} \cup Foreign)
  /\ \A r \in Removers : rm[r].held # "none" => <<rm[r].name, rm[r].held>> \in stranded'
  /\ orphans' = orphans \cup
       {n \in Names : disk[n] = "own" /\ (n \in Captures \/ leave[n] = "written")}
  /\ UNCHANGED <<budget, disk, aged, policy, audit, deleted, swapped, condemned, faults>>

(* No photo, evidence or foreign file is lost with the memory.              *)
LEMMA ProcessEndsKeeps ==
  ASSUME FilesInv, ProcessEnds
  PROVE  FilesInv'
<1>0. Types /\ Removing BY DEF FilesInv
<1>1. UNCHANGED <<budget, disk, aged, policy, audit, deleted, swapped, condemned, faults>>
  BY DEF ProcessEnds
<1>2. /\ \A r \in Removers : rm'[r] = NoRemoval
      /\ rm' \in [Removers -> Removals]
  BY DEF ProcessEnds, NoRemoval, Removals, Contents
<1>3. /\ \A c \in Captures : entry'[c] = NoEntry
      /\ entry' \in [Captures -> Entries]
  BY DEF ProcessEnds, NoEntry, Entries
<1>4. /\ closer' \in Closers /\ closer'.pc = "idle" /\ closer'.work = {}
      /\ sweep' \in Sweeps /\ sweep'.pc = "idle" /\ sweep'.todo = {}
  BY DEF ProcessEnds, Closers, Sweeps, NoWork
<1>5. /\ cleaner' \in Cleaners /\ cleaner'.pc \in {"idle", "stopped"} /\ cleaner'.aged \subseteq cleaner.aged
      /\ process' \in {"down", "closed"}
      /\ process' = "down" => cleaner'.pc = "idle"
  BY DEF ProcessEnds
<1>6. /\ leave' \in [Leaves -> {"none", "written", "kept", "refused", "lost"}]
      /\ \A l \in Leaves : leave'[l] # "written" /\ (leave'[l] # leave[l] => leave'[l] = "lost")
  BY <1>0 DEF ProcessEnds, Types
<1>7. /\ stranded \subseteq stranded' /\ stranded' \subseteq Names \X ({"tmp", "own"} \cup Foreign)
      /\ \A r \in Removers : rm[r].held # "none" => <<rm[r].name, rm[r].held>> \in stranded'
  BY DEF ProcessEnds
<1>8. ends \in Nat /\ faults \in Nat /\ ends' = ends + 1 /\ ends' \in Nat /\ crashes' \in Nat
  BY <1>0 DEF ProcessEnds, Types
<1>9. /\ task' \in [Captures -> {"none", "done"}]
      /\ \A c \in Captures : task[c] # "none" => task'[c] = "done"
  BY DEF ProcessEnds
<1>10. /\ orphans' \subseteq Names
       /\ \A c \in Captures : disk[c] = "own" => c \in orphans'
  BY <1>0 DEF ProcessEnds, Types, Names
<1>11. Types'
  <2>1. task' \in [Captures -> {"none", "capturing", "writing", "published", "done"}] BY <1>9
  <2>2. process' \in {"down", "booting", "serving", "closing", "closed"} BY <1>5
  <2> QED BY <1>0, <1>1, <1>2, <1>3, <1>4, <1>5, <1>6, <1>7, <1>8, <1>10, <2>1, <2>2 DEF Types
<1>12. Removing' BY <1>2, <1>4, <1>5 DEF Removing, NoRemoval, Removers
<1>13. Intruders' BY <1>1, <1>2 DEF FilesInv, Intruders, NoRemoval, Foreign
<1>14. ForeignSurvives'
  BY <1>0, <1>1, <1>7 DEF FilesInv, ForeignSurvives, Types, Foreign
<1>15. Evidence'
  <2>1. rm'["retention"].pc = "none" BY <1>2 DEF NoRemoval, Removers
  <2>2. rm["retention"].held = "own" => <<rm["retention"].name, "own">> \in stranded'
    BY <1>7 DEF Removers
  <2>3. orphans \subseteq orphans' BY DEF ProcessEnds
  <2> QED BY <1>1, <1>4, <1>6, <1>7, <2>1, <2>2, <2>3 DEF FilesInv, Evidence
<1>16. Accounted'
  <2> DEFINE D == deleted \ audit
  <2>1. Cardinality(D) <= ends + faults + (IF sweep.pc \in {"removing", "audit"} THEN 1 ELSE 0)
    BY <1>0, Unaudited DEF FilesInv
  <2>2. Cardinality(D) \in Nat BY <1>0, FinitelyMany, FS_CardinalityType
  <2>3. (deleted' \ audit') \ Current' = D BY <1>1, <1>4 DEF Current
  <2> HIDE DEF D
  <2>4. Cardinality(D) <= ends' + faults BY ONLY <1>8, <2>1, <2>2
  <2> QED BY <1>1, <2>3, <2>4 DEF Accounted
<1>17. Tasks'
  BY <1>1, <1>2, <1>3, <1>5, <1>9 DEF FilesInv, Tasks, NoEntry, NoRemoval, Removers
<1>18. Sessions' BY <1>1, <1>3, <1>10 DEF Sessions, NoEntry
<1>19. Owner' BY <1>5 DEF Owner
<1>20. Closing' BY <1>3, <1>4, <1>5, <1>9 DEF Closing, NoWork
<1> QED
  BY <1>11, <1>12, <1>13, <1>14, <1>15, <1>16, <1>17, <1>18, <1>19, <1>20
  DEF FilesInv

(* An exit comes after the tasks were joined.                               *)
LEMMA ExitKeeps ==
  ASSUME FilesInv, Exit
  PROVE  FilesInv'
<1> USE DEF memory, evidence, history
<1>0. Types /\ Removing BY DEF FilesInv
<1>1. \A r \in Removers : rm[r].held # "none" =>
        rm[r].name \in Names /\ rm[r].held \in {"own"} \cup Foreign
  BY <1>0 DEF Types, Removals, Contents, Removing, Removers, Names
<1>2. /\ stranded' \subseteq Names \X ({"tmp", "own"} \cup Foreign)
      /\ stranded \subseteq stranded'
      /\ \A r \in Removers : rm[r].held # "none" => <<rm[r].name, rm[r].held>> \in stranded'
  BY <1>0, <1>1 DEF Exit, Types
<1>3. task' = task /\ \A c \in Captures : task[c] \in {"none", "done"}
  BY DEF Exit, FilesInv, Closing
<1>4. task' \in [Captures -> {"none", "done"}] BY <1>0, <1>3 DEF Types
<1>5. cleaner' = cleaner /\ cleaner \in Cleaners /\ cleaner.pc = "stopped"
      /\ crashes' = crashes /\ crashes \in Nat
  BY <1>0 DEF Exit, Types
<1>6. ProcessEnds BY <1>2, <1>3, <1>4, <1>5 DEF ProcessEnds, Exit
<1> QED BY <1>6, ProcessEndsKeeps

(* A crash leaves temporary files of the writers behind too.                *)
LEMMA CrashKeeps ==
  ASSUME FilesInv, Crash
  PROVE  FilesInv'
<1> USE DEF memory, evidence, history
<1>0. Types /\ Removing BY DEF FilesInv
<1>1. \A r \in Removers : rm[r].held # "none" =>
        rm[r].name \in Names /\ rm[r].held \in {"own"} \cup Foreign
  BY <1>0 DEF Types, Removals, Contents, Removing, Removers, Names
<1>2. /\ stranded' \subseteq Names \X ({"tmp", "own"} \cup Foreign)
      /\ stranded \subseteq stranded'
      /\ \A r \in Removers : rm[r].held # "none" => <<rm[r].name, rm[r].held>> \in stranded'
  BY <1>0, <1>1 DEF Crash, Types, Names
<1>3. /\ task' \in [Captures -> {"none", "done"}]
      /\ \A c \in Captures : task[c] # "none" => task'[c] = "done"
  BY DEF Crash
<1>4. cleaner' \in Cleaners /\ cleaner'.pc = "idle" /\ cleaner'.aged = {}
  BY DEF Crash, IdleCleaner, Cleaners, NoWork
<1>5. crashes' \in Nat BY <1>0 DEF Crash, Types
<1>6. ProcessEnds BY <1>2, <1>3, <1>4, <1>5 DEF ProcessEnds, Crash
<1> QED BY <1>6, ProcessEndsKeeps

(* The next process sweeps before it serves: nothing has a session yet.     *)
LEMMA RestartKeeps ==
  ASSUME FilesInv, Restart
  PROVE  FilesInv'
<1> USE DEF memory, evidence, history
<1>0. Types /\ Removing BY DEF FilesInv
<1>1. /\ process = "down" /\ process' = "booting"
      /\ cleaner.pc = "idle" /\ \A c \in Captures : entry[c] = NoEntry
      /\ UNCHANGED <<budget, disk, aged, stranded, rm, task, entry, closer, evidence,
                     history, faults>>
  BY DEF Restart, FilesInv, Closing
<1>2. cleaner' \in Cleaners /\ cleaner'.pc = "sweep" /\ cleaner'.aged = aged
  <2>1. IdleCleaner \in Cleaners BY DEF IdleCleaner, Cleaners, NoWork
  <2>2. aged \in SUBSET (Names \X Kept) BY <1>0 DEF Types
  <2>3. cleaner' = [IdleCleaner EXCEPT !.pc = "sweep", !.aged = aged] BY DEF Restart
  <2> QED BY <2>1, <2>2, <2>3 DEF Cleaners
<1>3. Types' BY <1>0, <1>1, <1>2 DEF FilesInv, Types
<1>4. Removing' BY <1>0, <1>1, <1>2 DEF FilesInv, Removing, Removers
<1>5. Intruders' BY <1>0, <1>1, <1>2 DEF FilesInv, Intruders, Removers, Foreign, Names
<1>6. ForeignSurvives' BY <1>0, <1>1, <1>2 DEF FilesInv, ForeignSurvives
<1>7. Evidence' BY <1>1 DEF FilesInv, Evidence
<1>8. Accounted' BY <1>1 DEF FilesInv, Accounted, Current
<1>9. Tasks'
  <2>1. closer.pc = "idle" BY <1>1 DEF FilesInv, Closing
  <2>2. rm["cleaner"].pc = "none" /\ rm["closer"].pc = "none" BY <1>0, <1>1, <2>1 DEF Removing
  <2>3. \A q \in {"cleaner", "closer"} : rm'[q].pc = "none" BY <1>1, <2>2
  <2>4. \A c \in Captures : Tampered(c) => Tampered(c)' BY <1>1 DEF Tampered
  <2>5. \A c \in Captures :
          /\ entry'[c].status = "captured" => task'[c] = "done"
          /\ task'[c] = "published" => disk'[c] = "own" \/ Tampered(c)'
          /\ disk'[c] = "own" => task'[c] \in {"published", "done"}
          /\ <<c, "own">> \in aged' => task'[c] = "done"
    BY <1>1, <2>4 DEF FilesInv, Tasks
  <2> QED BY <2>3, <2>5 DEF Tasks
<1>10. Sessions'
  <2>1. \A c \in Captures : entry[c].status = "none" BY <1>1 DEF NoEntry
  <2>2. UNCHANGED <<disk, task, entry, orphans>> BY <1>1
  <2> QED BY <2>1, <2>2 DEF FilesInv, Sessions
<1>11. Owner' BY <1>1, <1>2 DEF Owner, NoEntry
<1>12. Closing' BY <1>0, <1>1, <1>2 DEF FilesInv, Closing
<1> QED
  BY <1>3, <1>4, <1>5, <1>6, <1>7, <1>8, <1>9, <1>10, <1>11, <1>12
  DEF FilesInv

-----------------------------------------------------------------------------
(* The theorems.                                                            *)

(* A process starts with nothing on disk.                                   *)
LEMMA FilesInit ==
  ASSUME Init
  PROVE  FilesInv
<1>1. \A r \in Removers : rm[r] = NoRemoval BY DEF Init
<1>2. \A c \in Captures : entry[c] = NoEntry /\ task[c] = "none" /\ disk[c] = "none"
  BY DEF Init, Names
<1>3. \A l \in Leaves : leave[l] = "none" /\ disk[l] = "none" BY DEF Init, Names
<1>4. cleaner \in Cleaners /\ cleaner.pc = "sweep" /\ cleaner.aged = {}
  BY DEF Init, IdleCleaner, Cleaners, NoWork
<1>5. closer \in Closers /\ closer.pc = "idle" /\ closer.work = {}
  BY DEF Init, Closers, NoWork
<1>6. sweep \in Sweeps /\ sweep.pc = "idle" /\ sweep.todo = {}
  BY DEF Init, Sweeps
<1>7. Types
  BY <1>4, <1>5, <1>6 DEF Init, Types, Removals, Entries, NoRemoval, NoEntry, Contents
<1>8. Removing BY <1>1, <1>4, <1>5, <1>6 DEF Removing, NoRemoval, Removers
<1>9. Intruders /\ ForeignSurvives
  BY <1>1 DEF Init, Intruders, ForeignSurvives, NoRemoval, Foreign
<1>10. Evidence
  <2>1. rm["retention"].pc = "none" BY <1>1 DEF NoRemoval, Removers
  <2> QED BY <1>3, <1>6, <2>1 DEF Init, Evidence
<1>11. Accounted
  <2>1. (deleted \ audit) \ Current = {} BY DEF Init
  <2>2. Cardinality({}) = 0 BY FS_EmptySet
  <2> QED BY <2>1, <2>2 DEF Accounted, Init
<1>12. Tasks BY <1>1, <1>2, <1>4 DEF Init, Tasks, NoRemoval, NoEntry, Removers
<1>13. Sessions BY <1>2 DEF Sessions, NoEntry
<1>14. Owner BY <1>4 DEF Owner
<1>15. Closing BY <1>5 DEF Init, Closing, NoWork
<1> QED
  BY <1>7, <1>8, <1>9, <1>10, <1>11, <1>12, <1>13, <1>14, <1>15 DEF FilesInv

(* Every step of the runtime, of the disk and of time keeps the invariant.  *)
LEMMA FilesStep ==
  ASSUME FilesInv, [Next]_vars
  PROVE  FilesInv'
<1>1. CASE UNCHANGED vars
  <2> USE <1>1 DEF vars, memory, evidence, history
  <2>1. Types' /\ Removing' BY DEF FilesInv, Types, Removing
  <2>2. Intruders' /\ ForeignSurvives' BY DEF FilesInv, Intruders, ForeignSurvives
  <2>3. Evidence' /\ Accounted' BY DEF FilesInv, Evidence, Accounted, Current
  <2>4. Tasks' BY DEF FilesInv, Tasks, Tampered
  <2>5. Sessions' BY DEF FilesInv, Sessions, Tampered, Taken, Forgotten, Unchanged
  <2>6. Owner' BY DEF FilesInv, Owner, Removes
  <2>7. Closing' BY DEF FilesInv, Closing
  <2> QED BY <2>1, <2>2, <2>3, <2>4, <2>5, <2>6, <2>7 DEF FilesInv
<1>2. ASSUME NEW r \in Removers, RemovalSteps(r) PROVE FilesInv'
  BY <1>2, OpensKeeps, ClaimsKeeps, DeletesKeeps DEF RemovalSteps
<1>3. ASSUME NEW n \in Names, AgeFile(n) \/ \E file \in Foreign : Swap(n, file) PROVE FilesInv'
  BY <1>3, AgeFileKeeps, SwapKeeps
<1>4. ASSUME NEW c \in Captures,
             capture_from_device(c) \/ TaskSteps(c) \/ TaskAborts(c) \/ AgeEntry(c)
      PROVE  FilesInv'
  BY <1>4, CaptureKeeps, CapturedKeeps, PublishKeeps, KeepKeeps, TaskAbortsKeeps, AgeEntryKeeps
  DEF TaskSteps
<1>5. CASE CleanerSteps
  BY <1>5, CleanerStartsKeeps, CleanerPicksKeeps, CleanerRemovedKeeps, CleanerUnlistsKeeps,
     CleanerSweepsKeeps, CleanerFindsOrphanKeeps, CleanerSweptKeeps, CleanerDoneKeeps
  DEF CleanerSteps
<1>6. CASE Shutdown \/ CloserSteps
  BY <1>6, ShutdownKeeps, CloserListsKeeps, CloserPicksKeeps, CloserRemovedKeeps,
     CloserSweepsKeeps, CloserFindsOrphanKeeps, CloserSweptKeeps, ExitKeeps
  DEF CloserSteps
<1>7. ASSUME NEW l \in Leaves, create_leave(l) \/ LeaveStored(l) PROVE FilesInv'
  BY <1>7, CreateLeaveKeeps, LeaveStoredKeeps
<1>8. CASE SetPolicy \/ RetentionSteps
  BY <1>8, SetPolicyKeeps, RetentionStartsKeeps, RetentionPicksKeeps, RetentionRemovedKeeps,
     RetentionAuditsKeeps
  DEF RetentionSteps
<1>9. CASE Crash \/ Restart BY <1>9, CrashKeeps, RestartKeeps
<1> QED BY <1>1, <1>2, <1>3, <1>4, <1>5, <1>6, <1>7, <1>8, <1>9 DEF Next

(* The invariant holds of every behaviour.                                  *)
THEOREM FilesAreInvariant == Spec => []FilesInv
BY FilesInit, FilesStep, PTL DEF Spec

(* A captured session has its photo until its own expiry or the shutdown,   *)
(* and a photo has an owner unless a process ended before it could leave    *)
(* one or a guard failed to remove it, for any captures, crashes, swaps and *)
(* faults (handlers.rs, capture_cleanup.rs, main.rs).                       *)
THEOREM PhotosFollowSessionsHolds == Spec => []PhotosFollowSessions
<1>1. ASSUME FilesInv PROVE PhotosFollowSessions
  <2>1. TypeOK
    <3>1. Types BY <1>1 DEF FilesInv
    <3>2. \A r \in Removers :
            rm[r].pc \in {"none", "open", "claim", "delete", "ok", "failed"}
              /\ rm[r].id \in Contents /\ rm[r].held \in Contents
      BY <3>1 DEF Types, Removals
    <3>3. \A c \in Captures :
            entry[c].status \in {"none", "capturing", "captured", "failed"}
      BY <3>1 DEF Types, Entries
    <3> QED BY <3>1, <3>2, <3>3 DEF Types, TypeOK, Kept
  <2>2. \A c \in Captures : Taken(c) \/ Forgotten(c) => BeingRemoved(c)
    BY DEF Taken, Forgotten, BeingRemoved, Removers
  <2> QED BY <1>1, <2>1, <2>2 DEF FilesInv, Sessions, PhotosFollowSessions
<1> QED BY <1>1, FilesAreInvariant, PTL

(* No removal deletes another file than the one it was asked for, whatever  *)
(* happens between its three steps; only a sweep asks for a file that       *)
(* somebody else put at a name (atomic_file.rs, remove_if_owned).           *)
THEOREM ForeignSurvivesHolds == Spec => []ForeignSurvives
<1>1. FilesInv => ForeignSurvives BY DEF FilesInv
<1> QED BY <1>1, FilesAreInvariant, PTL

(* A committed leave keeps its evidence until retention deletes it, and a   *)
(* refused one leaves no file unless its guard fails to remove it, over     *)
(* crashes, restarts and faults (leaves/service.rs, retention.rs).          *)
THEOREM EvidenceFollowsLeaveHolds == Spec => []EvidenceFollowsLeave
<1>1. FilesInv => EvidenceFollowsLeave
  BY DEF FilesInv, Evidence, EvidenceFollowsLeave
<1> QED BY <1>1, FilesAreInvariant, PTL

(* The audit log misses at most one deletion for each end of a process and  *)
(* each failed statement (retention.rs, sweep_once).                        *)
THEOREM AtMostOneUnauditedHolds == Spec => []AtMostOneUnaudited
<1>1. FilesInv => AtMostOneUnaudited BY Unaudited DEF FilesInv, AtMostOneUnaudited
<1> QED BY <1>1, FilesAreInvariant, PTL
=============================================================================
