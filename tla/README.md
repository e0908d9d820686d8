# Cronometrix: TLA+ models of the backend

Cronometrix records attendance. Hikvision face readers report markings, a Rust
backend (`src/backend/src`) stores them in SQLite, derives a daily record per
employee and payroll reports from them, and pushes the faces of enrolled
employees to the readers. A Next.js frontend talks to it over HTTP, and a
serverless function issues licences. This directory models the parts of the
backend whose correctness depends on order, failure and concurrency, checks
them with TLC on small instances and proves the safety properties with TLAPS
for every instance.

Paths below are relative to `src/backend/src` unless they say otherwise.

## 1. The system

Everything runs in one process. All writes to SQLite go through one queue and
one writer task; reads use connections of their own and see committed data. The
rest are tasks that talk over channels held in memory, so what survives a crash
is what a transaction has committed.

    reader --POST--> receive_push --+                  +--> SSE
    reader <--alert stream-- device tasks --> ingest --+--> photos on disk
    browser --HTTP--> handlers -----+                  |
                                    v                  v
                             write queue (one writer) --after_commit--> recompute worker
                                    ^                                        |
              drain / purge / backfill / saga / retention / nightly <--------+

| Part | State | Operations | What is hard | What makes it correct | Where |
|---|---|---|---|---|---|
| Write queue (`db/write_queue.rs`) | bounded channel, admission mutex, closed flag, counters, one-shot replies | job, transact, flush, close_and_flush, the worker | callers dropped at any await, a full channel, retries, close against admission, panics | an answer says what the database did; close loses nothing; flush is a barrier; everyone gets an answer | `DbWriteQueue`, `WriteLedger`, `DbWriteQueueProofs` |
| Push ingestion (`devices/push.rs`, `workers/push_drain.rs`) | `device_push_inbox` | receive_push, drain_once, process_row, retry, dead letter | lost answers, resends, replay after a crash, faults between parts of one body | 200 means stored and, in the end, counted; counted again only for a fault; dead letters are justified | `PushInbox`, `PushInboxProofs` |
| Attendance ingestion (`isapi/ingest.rs`, `attendance/ingest.rs`, `events/service.rs`) | `attendance_events`, photo files | classify, look up, INSERT OR IGNORE, keep or remove the photo | a photo without a row and the converse | rows and photos agree | `PushInbox`, `Supervisor`, `Recompute` |
| Enrollment saga (`enrollments/`) | enrollments, pushes, checkpoints, mappings | start, push, retry, finalize, recover | calls that cannot be undone and whose answer is lost | no call is repeated while its outcome is unknown; rows tell the truth | `EnrollmentSaga`, `EnrollmentSagaProofs` |
| Purge, backfill (`workers/purge.rs`, `workers/backfill.rs`) | queues in memory, checkpoints, mappings | revoke on every reader; enrol on a new reader | the same, and races with the saga | an absent mapping means a revoked face | `EnrollmentSaga`, `EnrollmentSagaProofs` |
| Recomputation (`recompute/`, `daily_records/service.rs`) | channel, local queue, `pending_days`, `daily_records` | receive, deduplicate, chunk, recompute_for_day, 02:00 pass | changes during the reads, two writers of a day, shutdown | no change is forgotten; a graceful stop leaves records current | `Recompute`, `RecomputeProofs` |
| Leaves (`leaves/`) | `leaves`, evidence files | create, cancel, query of a day | overlaps; a file and a row | one active leave per day; the evidence follows the leave | `Recompute`, `RecomputeProofs`, `Files`, `FilesProofs`, `Payroll` |
| Device supervision and registry (`supervisor/`, `isapi/stream.rs`, `isapi/client.rs`, `devices/`) | `devices` row, lifecycle channel, handle map, one task per device, `connection_state`, `command_audit_log` | create, patch, deactivate, command; start, stop, restart; stream, provision, back off; watchdog | requests that commit and report in different orders, cancellation at every await, dropped handlers, a held back marking | one task per device, with its address; a marking stored once with its photo; an answered command is in the audit log; a reset reader found again | `Supervisor`, `SupervisorProofs` |
| Users, sessions, setup (`users/`, `auth/`, `setup/`) | users, refresh hash, cookies, claims | login, refresh, logout, create, patch, delete, first administrator | check then act across awaits, stale claims | a token rotates once; sessions end with the password; setup runs once; an administrator remains | `Accounts`, `AccountsProofs` |
| Licence (`license/`, `setup/handlers.rs`) | licence file, one flag | activate, renew, boot, gate | a crash inside the write, races of activation and renewal, another machine | never in force without its proof; never lost in a crash | `Licence`, in `Accounts`; `AccountsProofs` |
| Files (`storage/atomic_file.rs`, captures, evidence, `workers/retention.rs`) | files, capture map, retention policy, audit | publish, identity-checked removal, expire, sweep at start, periodically and at the end, retention | a crash between file and row, a name whose file changed, three removers | a session has its photo, a photo has an owner or is swept, foreign files survive | `Files`, `FilesProofs` |
| Calculation (`calc/`) | none | windows, aggregation, pairing, lunch, lateness, overtime, anomalies | midnight, clock changes, ties, boundaries | matches a reference definition | `Calc`, checked in `Payroll`, proved in `PayrollProofs` |
| Daily records, reports (`daily_records/`, `reports/`) | records, overrides, report under way | recompute, override, periods, queries, money, absences, audit of exports | totals of other days, overflow, rounding, two queries of one report | every minute paid once; columns and fortnights add up; breaches show | `Payroll`, `PayrollProofs` |
| Startup, shutdown (`main.rs`) | handles, tokens | recover, spawn, join in order | producers that outlive what they feed | nothing accepted is lost | in the models of the parts it starts and stops |
| Listings, SSE, audit, tenant, rate limit, departments, rules, export, parsers, crypto, images, frontend, licence authority, deployment | none of their own, or one row | reads, formatting, single statements | little | unit tests suffice | not modelled; reasons in `PROJECT.json` |

`PROJECT.json` lists every component with its status and every hazard at its
line.

## 2. Modules

### DbWriteQueue, WriteLedger

A task is one call. Its `pc` walks through `admit_once`: waiting for the
mutex (`waiters` is its FIFO queue), checking `closed`, reserving a slot,
sending, awaiting the reply, sleeping between background retries. `chan` is the
channel, `current` and `worker` the writer, `log` what was committed, `reply`
the one-shot, `answer` what the caller was told. The deadline of an admission
is an action that may happen whenever the code awaits with one; closing awaits
without one, and so does the model. A caller may be cancelled at every await.
A transaction that fails leaves nothing; a plain job that fails may leave its
first statements (`dirty`).

`WriteLedger` is the promise: each write commits at most once, success only
after the commit, an error only for a write that never commits. The other
models use writes in that form, as steps that commit or are refused.

Abstractions: a rollback is taken to be effective; main awaits `close_and_flush`
to its end. A slot reserved before the worker dies and filled after it is never
answered (section 7), so `EveryCallReturns` excepts a dead worker; `MayDie` says
whether it can die, and in the run it can.

### PushInbox

One push-mode reader resends the head of its queue until it sees a 200. A body
is a sequence of parts. The drain worker selects the oldest pending rows, at
most `BatchSize` of them, as the set `batch`, and resolves them in order: `row`
is the one at work, `cursor` its next part. A part goes through classification,
the lookup of the employee, the photo guard and INSERT OR IGNORE on (employee,
device, direction, bucket); after the last one the status is written. The writer
commits or refuses each write. Enrollment of a person can happen in between, so
the lookup may be stale. A cancelled worker finishes the pass it is at and makes
one more (`final`), which select! may put behind a tick that is due. Faults
(refused write, lost answer, failed read, crash) take from a budget.

Abstractions: the row of the device exists while a push is drained (a push of a
device whose row is gone is given up at once, but no handler deletes such a row:
only `tests/push_drain_test.rs` does); one device and one direction; a push that
fails authorisation stores nothing; `connection_state` belongs to supervision;
removal of a photo by its guard succeeds; ties of `received_at` are broken by
rowid.

### EnrollmentSaga

One employee. Every call to a reader is bracketed:
`prepared`, call, `device_applied`, then the local rows and the removal of the
checkpoint in one transaction; an unknown outcome becomes `manual`. Each
dispatch command (an enrollment or a retry) has one attempt per reader with a
`pc`; `call[k][d]` is what really happened at the reader: `sent` may still be
carried out (`ReaderApplies`), after the timeout too. Backfill and purge have the
same bracket. Recovery handles every checkpoint at startup, in the code's
order, and its own writes may be refused.

Abstractions: an attempt that cannot reach its reader's row, its credentials or
the queue (`pusher.rs`, `purge.rs`) ends as one whose reader refused or whose
write was refused, which are modelled; the unauthorized push path has only test
callers; the branches for a re-activated employee and for a stale backfill
checkpoint are unreachable; a graceful stop behaves like a crash as far as
queues in memory are concerned; the reads before a retry commute with the rest.

### Recompute

One employee, a few days. Events, leaves, overrides and a deactivation commit
and send requests (`Day` or `Range`). The worker moves them, one step each and in
bursts, into its local queue with `pending_days`, takes one, processes at most `ChunkDays` days
of it, and puts the continuation behind what arrived. `recompute_for_day` is
three steps: the events, the leave, the upsert. The nightly pass takes the same
three steps concurrently. Windows and anchors are the arithmetic of
`shift_window` and `anchor_dates_for_instant` in minutes, in a zone without
daylight saving time (the product's, America/Caracas).

A record stands for the events and the leave it was computed from. `excused`
is a history variable: days whose last change may have been lost to a refused
write, a failed read, a crash, the fallback of an unreadable shift, or a nightly
pass that the worker overtook. The last is a real race: without the excuse TLC
violates `StaleIsQueued` in twelve states, the pass overwriting a newer record.
The code does not claim otherwise, so it is listed as a hazard.

Abstractions: what a record is computed to is `Payroll`'s subject; changes of
department or rules are left out; writes accepted
before the flush returns may commit at any moment until then; locals that are
no longer read are reset.

### Supervisor

One device, in either ingest mode. `row` is its row in `devices`, guarded by
`version`; `reqs` are the administrators' requests, each walking through its
handler: read, commit, report to the lifecycle channel `chan`, answer, or
dropped in between. `sup` is the reconcile loop of `supervisor/mod.rs`, `handle`
its map (one slot number), `tasks` has room for two tasks so that a second one
would be seen. A task connects, provisions or streams, fails, backs off and is
cancelled at any await; on the stream a marking waits in `pending` for the part
that may bring its photo. The push task writes the reader's host list slot by
slot (`isapi/client.rs`), and the reader may forget it. The watchdog turns a
`stale` row offline. A stream that opens writes `connection_state` and then
`last_seen_at`, two writes between which the watchdog may come (`Opened`,
`Seen`); the offline write at the end of a connection may fail, and its failure
is ignored (`WriteOffline`). A command goes to the reader (`calling`), comes
back with an outcome (`called`), is recorded (`recorded`) and answered; `told`
is what the client saw. The reader may carry it out after the timeout, or when
its answer is lost; the write of the audit row may be refused, which answers the
client with an internal error; and the handler is dropped wherever it awaits
when its client goes away (`cut`), or with the process (`lost`). A restart waits
for the requests the server had begun, as its graceful shutdown does. `lost` is
also a history variable: a committed change whose report was dropped with its
request, which the code does not repair until a restart.

Abstractions: what a pushing reader is shown as serves no property, so its two
writes are one; address, credentials and TLS flag are one number; sleeps end, at
no particular time; the supervisor's bootstrap reads the row in one step.

### Licence, Accounts

`Accounts` extends `Licence`, so that one process boots, serves and crashes. A
licence is a token for one machine in one file; a crash in the middle of a
write leaves it torn unless the code renames a whole one into place. Activation
and renewal are the request to the authority, its answer (any token, forged
ones too), the write and the flag. The authority is outside.

An account is a row with role, status, version and the hash of its one refresh
token, modelled as the token's place in `issued`. A request carries what its
handler read or verified before the statement it commits: a login the password
it verified, a refresh the token of the cookie, an administrator's request the
claims of its access token, which are trusted until they expire. `ended` and
`late` are history: the number of commits that must end a user's sessions, and
a login that verified before and stored after one. `usurped` marks a change on
claims that had become false.

### Files

`disk` is what lies at each name: nothing, our file, or one that somebody else
put there, which the identity kept by `atomic_file.rs` tells apart. A removal
(`rm`) has the identity it may delete, the one that was kept or the one that a
sweep found at the name, and three steps: open and compare, rename into
quarantine, compare again and delete or put back. A deletion that fails leaves
the file in quarantine (`stranded`). Three removers run it: the owner of the
capture map, the shutdown, and retention. The guard of a file that is dropped
runs it too, as one step, and may fail and leave an orphan (`GuardFails`). A
capture is its task with the guard of its photo and its entry in the map; expiry
has two phases, as in `cleanup_active_states`. The sweeps judge age by the clock
at the start of their pass and read the owned names from the map before they
look at the directory; they take whatever old `.jpg` has no session, ours or
not, and go on after one that cannot be removed. A leave's evidence is published
before its transaction and kept or removed by `after_commit`. `orphans`,
`swapped`, `condemned` (what a sweep of orphans found) and `ends` are history
variables.

Abstractions: names are generated and used once; ageing is a step; the final
sweep lists its files at once; evidence is a `.jpg`, the only kind that
retention deletes; event photos are swept by the same code on another directory;
recognising a file type is left out.

### Calc, Payroll

`Calc` has every function of `calc/` as an operator in real seconds and
minutes, with a zone whose offset changes once. `Payroll` adds
`recompute_for_day` with the totals of the week and the year, leaves and
overrides, the money of `reports/money.rs` in integer cents with its checked and saturating
arithmetic, the periods of `reports/periods.rs`, and a report as two queries
over one snapshot with the audit of its export. The properties compare these
with definitions of their own: presence is measured without the scan,
pay is per minute, not per day, a month is two fortnights.

Abstractions: one employee; `recompute_for_day` is one step and the queue a set
of days, since `Recompute` has their interleavings; subtotals over employees,
names and layout are left out.

## 3. Runs

| Run | Instance | Shows |
|---|---|---|
| `db_queue` | any four of a job, a background transaction, a flush and two closers, capacity 2, one retry, a worker that may die | answers are truthful; execution is serial, with its callbacks, barriers and drained shutdown; counters; nothing after close; the refinement of `WriteLedger`; every call returns and a close stops the worker, unless it has died |
| `push_inbox` | two bodies of two parts: dated with photo, heartbeat, undated, unparseable; two attempts, two faults | acknowledged means safe and dead letters are justified; a marking is counted and a push is stored once, and again only for a fault; photos follow rows; both sides drain |
| `saga_pushes` | two readers, one enrollment, one retry, two faults | no replay; an unknown outcome or unfinished push keeps its checkpoint; the status is the aggregate; every push ends in spite of any one fault |
| `saga_leave` | a reader from the start that can be switched off, one registered later, the employee may leave, one fault | success and revocation are real |
| `recompute` | three days, a night shift, an exit that belongs to two days, overlapping leaves, chunks of 2, bursts of 1, three changes, one pass, one fault | no change forgotten, `pending_days` exact, closed is current; one leave per day; records catch up |
| `supervisor` | both modes; two requests, or one with two markings, or one with a command; one fault | one task, with the row's address once things are quiet; unserved means offline; markings stored once; who is told how a command ended finds it in the audit log, and only a fault costs its trace; shutdown ends; a reset reader is pointed at the service again |
| `accounts` | two users, browsers, requests, machines and activations, symmetric; a new installation with three requests and a crash, a licence activated twice, renewed once, with two crashes and two odd boots, or a staffed system with four requests | tokens rotate once; sessions end; setup runs once and an administrator remains; the licence is proven and survives |
| `files` | two captures; one with a crash and a fault; one with two swaps, or a swap and a fault; or the evidence of two leaves with a crash and a fault | sessions and photos follow each other; a foreign file survives every removal but that of a sweep that found it; evidence follows its leave; at most one unaudited deletion per failure; sessions expire and orphans are swept |
| `payroll` | twelve settings: odd and simultaneous punches, a week over the turn of the year, nights with the clock set back, forward or not at all, a leave over the middle of a month, a leaver, reports under way, four salaries at the edges | work is presence; open and ambiguous days are flagged; breaches show; every minute is paid once; a report's columns add up and are one state; fortnights add up to the month |

The bounds are the smallest at which the interesting case exists: a channel
that can be full with a writer waiting (the fifth call of `db_queue` is cut off
by a state constraint; nobody has to submit, so the behaviours that are left are
complete); a retry that meets its predecessor; two
attempts so that one row is retried and given up; a range longer than a chunk,
and a burst smaller than the channel; two requests, which is what it takes to
commit and report in different orders; two swaps, so that the file put back is
replaced again. Two faults in the inbox let one fault hit the handling of
another. In `Supervisor`, `Accounts` and `Files` a behaviour draws one of the
budgets of its MC module: the combinations that interact, and not their
product. `Payroll` uses the code's caps, except the annual one (600 for 6000,
so that a week reaches it) and `MaxInt` (10^9 for `i64::MAX`).

Three commands in `saga_pushes` and two enrollments were also run once (196 000
and 4.1 million states), and `recompute` with a second event that belongs to
the day before only (1.0 million); they passed and are too slow to keep.
`CHECK_DEADLOCK FALSE` appears where all work may be done.

Three runs end in a violation on purpose. Each checks one sentence of the
repository:

| Run | Sentence | What the code does |
|---|---|---|
| `saga_leaver` | "auto-purge from all devices" (`.planning`, phase 7) | a push that completes after the listing leaves an active mapping |
| `supervisor_cut` | "The audit write happens BEFORE the response is returned so a client disconnect cannot lose the audit trail for a door-open event" (`devices/handlers.rs:236`) | the handler awaits the reader before it writes the row; dropped there with its client, it leaves a door that was opened and no row |
| `payroll_week` | "running weekly OT ... must not exceed 600 minutes (10h). Breach -> `OtCapExceededWeekly`" (`calc/overtime.rs:6`) | a late punch raises an earlier day of the week; the later day, which now breaches the cap, is not computed again |

## 4. Fairness

Weak fairness stands for tokio running a task that can run.

* Queue: the writer, and each step of a call that is under way. Nobody has to
  submit, and nobody has to be cancelled.
* Inbox: handler, writer, drain worker, restart by the container runtime
  (`restart: unless-stopped` in `src/deploy`). The reader keeps resending, as the device does.
* Saga: attempts, finalizing driver, backfill, purge, and startup. Neither a
  reader nor an administrator has to do anything: a silent reader is what
  the timeout is for.
* Recomputation: the worker, a nightly pass that has begun, a shutdown that has
  begun. Nothing has to shut down, and 02:00 need not come.
* Supervisor: the reconcile loop, and of each task its failure path, its
  cancellation and its provisioning. A reader need not send anything; that the
  provisioning succeeds in the end rests on the budget of faults.
* Files: removals under way, capture tasks, the owner of the map, the passing of
  time, and the restart.

Faults are bounded, so "eventually" means once they stop.

## 5. Proofs

Eight modules prove, for every value of the constants, every safety property that
the passing runs check. Each proof has the same shape: an inductive invariant that is a conjunction of named
parts, one lemma per action or group of like actions, one step per part, and
theorems that read the property off the invariant. The longer invariants went
through TLC first, on the instances of section 3. The assumptions are those of
the models' `ASSUME`s, which TLC evaluates in every run (numbers are numbers,
names of different kinds differ, sets that are counted are finite, the code's
limits are positive, and what a setting of `Payroll` is, below), and one
hypothesis of `StaleIsQueuedHolds`, named below.

| Module | Theorems |
|---|---|
| `DbWriteQueueProofs` | `TypeCorrect`, `RefusalsAreFinal`, `AnswersAreTruthful`, `NothingAfterClose`, `QueueImplementsLedger`, `ExecutionIsSerial`, `CountersAreExact` |
| `PushInboxProofs` | `InboxIsInvariant`, `AckedIsSafeHolds`, `CountedOncePerTryHolds`, `PhotosFollowRowsHolds` |
| `EnrollmentSagaProofs` | `SagaTypes`, `SagaIsInvariant`, `NoReplayHolds`, `CheckpointIsKeptHolds`, `SuccessIsRealHolds`, `StatusIsAggregateHolds`, `RevocationIsRealHolds` |
| `SupervisorProofs` | `SupervisorIsInvariant`, `ReconciledHolds`, `StoredOnceHolds`, `CommandIsAuditedHolds` |
| `AccountsProofs` | `AccountsTypes`, `AccountsAreInvariant`, `RotatedOnceHolds`, `SessionsEndHolds`, `AdminRemainsHolds`, `LicenceIsProvenHolds` |
| `FilesProofs` | `FilesAreInvariant`, `PhotosFollowSessionsHolds`, `ForeignSurvivesHolds`, `EvidenceFollowsLeaveHolds`, `AtMostOneUnauditedHolds` |
| `RecomputeProofs` | `RecordsAreInvariant`, `StaleIsQueuedHolds`, `OneLeave`, `AnchorsAreComplete` |
| `PayrollProofs` | `TypeCorrect`, `WorkAlwaysIsPresence`, `OpenDayIsAlwaysFlagged`, `BreachIsAlwaysSeen`, `DayIsAlwaysAccountedFor`, `DayIsAlwaysPaidPerMinute`, `FortnightsAlwaysAddUp` |

**Write queue.** `TypeOK` is not inductive: `TypeInv` adds that the worker has
a current command exactly while it executes one and that a sleeping call has a
retry left. `SafeInv` says where a call can be: before its
send it is nowhere (`NotSent`), only the holder of the mutex reserves or sends
(`Mutex`), a command is in one place once (`OnePlace`), what is queued is
unanswered and not committed (`Pending`), replies and answers agree with the log.
From it follow the truth of the answers and the refinement of `WriteLedger`,
where each step is a ledger step or a stutter.
`OrderInv` carries `SerialExecution`. `Line`: the channel is the end of
`admitted`, the running command is the one received last, and the closing command
is the last of all. `Ordered`: the log follows `admitted`. `Barriers`: a living
worker has executed what it received, and an answered flush found it so. `Tally`
is `CountersExact` with the holder of the mutex in place of the set of senders:
there is only one.

**Push inbox.** `Delivery` ties the reader's position to rows: every body before
`head` has one, and the one waiting caller is the handler of `head`. `Rows` says
when a status is justified, which does not become false later: `Ingested` only
grows with `events`. `Progress` is the loop invariant of `process_row`: unless
an error was seen, the markings before the cursor are covered by an event;
`permanent` is only set for a body with an unparseable part. `Commanded` says
that at most one command in the queue is the drain worker's and that it still
matches `row` and `cursor`; without it a status could be written for a row that
has changed. `Bounds` carries `CountedOncePerTry`, which is not inductive:
`PerTry` says of a row that waits for another try that its markings are counted
at most `faults` times, of the row at work that a part the cursor has not passed
is, and that an error has already cost the fault it stands for; `Resends` counts
a push in the inbox and in the queue together, and once less while the reader is
to send it again. `Photos` is about identities: an event's number is fresh, its
photo has that number and no other event refers to it.

**Saga.** `Ownership` is the heart of `NoReplay`: while an attempt is busy the
checkpoint of its push stays, no other attempt of the push is busy, and no other
call to that reader stands. `CallShape` is what an attempt knows of its call at each
place, `Real` that a success, a `device_applied` checkpoint and a mapping were
preceded by an applied call, `Once` the same for backfill and purge, `Kept`
that a standing call has a checkpoint or a success, `Whole` that a successful
enrollment has no open push, `Calm` what holds while there was no fault.
Recovery keeps `Ownership` since nothing runs while it does (`Memory`).

**Supervisor.** `Reconciled` needs to know why a stale task will be stopped.
`Told`: a task in the map that is not the row's has an event other than Start in
the channel, or a handler that has committed and will send one, unless a report
was lost. That a handler's comparison can be trusted is `Snapshots`: a request
whose version is the row's has read the row as it is, because every commit but
the creation raises the version. `Versions` bounds the version by the requests.
`Owners`: at most one task runs; one that is not in the map is cancelled, and
the supervisor is joining it. `Streams` keeps a connection's position ahead of
everything stored before, so that a marking read again on another connection is
not stored twice, and ties the waiting marking to the last one read. `Offline`
completes that. `Audited` is the trail of a command: no row before the call has
ended, the row of its outcome from then on, an answer only after the row or
after the refusal to write it, and a request that is over without a row only
after a fault.

**Accounts, licence.** `Newest`: the hash of a user is a token of that user that
nobody has exchanged; with the fact that a refresh commits only against the hash it
has read, that is `RotatedOnce`. `Asked` says what a request has verified at each
place of its handler. `Staffed` counts administrators; `usurped` excepts
changes on stale claims. `LicenceInv` adds to `LicenceIsProven` that
exchanges under way are for this machine (`Sound`) and that a granted activation
has its token on disk.

**Files.** `Removing` ties each of the three removals, and the identity it has,
to the place of the pass that runs it; `Intruders` says where a foreign file can
be, and that one is the object of a removal only after a sweep of orphans found
it; from them a removal that claims another file puts it back. `Sessions` with
`Tasks`, `Owner` and `Closing` says who may take a photo: its task, the periodic
owner for an entry it has listed and not seen change, or the shutdown once the
owner has stopped; what a sweep of orphans is at has no captured session
(`Owner`, `Closing`). `Evidence` follows a leave's file from its writing to
retention, through the hands of the removal; `Accounted` bounds the unaudited
deletions, beside the one that the sweep is at.

**Recomputation.** `Asked(d)`: a request for `d` waits whose computation has not
begun; it becomes false only when the computation begins. `Answered` says
that a stale day is asked for, at work with what it reads now, or excepted
(`excused`, or the employee is inactive). It is not inductive alone, for a
reading may be outdated when it is stored. `WorkerReads`: then the day has
been asked for since, and is taken from the queue only after this
computation. `NightReads` says the same of the pass, which the worker may also
have overtaken (`passed`). `Earlier` is for the case where the worker has read
the day before the pass did, and the pass stores it later: what the worker read
is part of what the pass read, because events are only added, and a leave that
changed after the pass read it has its request. `QueueInv` is the order of the
queues: `pending_days` exact, a continuation is never a `Day` (`Shapes`), and
the worker stops only in the drain with both queues empty (`Flow`), since a
burst takes at least one request if there is one. That an event's
requests name every day that reads it is `AnchorsAreComplete`; its condition
`WindowsStayInside` is the hypothesis of the theorem, and holds on the instance
that TLC runs.

**Leaves, anchors.** `OneLeavePerDay` rests on `ActiveApart`: different active
leaves do not overlap. It needs that overlapping is symmetric (the check looks
at it from the new leave's side only) and that two leaves over one day overlap.
`AnchorsAreComplete`: every day whose window reads an instant is among those
`anchor_dates_for_instant` asks for, for any shift and tolerances with
`WindowsStayInside` (the widened window opens on its own date and closes before
the midnight after the shift's last date). That condition is what the code's
comment takes for granted; section 7 has a shift without it.

**Calculation, reports.** These are facts about sums and scans over data of any
size, so they need induction. The library's induction theorems take an operator
as a parameter, which the provers cannot instantiate; its least-number principle
(`WFMin` on the naturals) takes a set. `Induction` and `SubsetInduction` follow
from it: a set of subsets that contains a finite set whenever it contains its
proper subsets contains them all. With it the folds that `Calc` and
`Payroll` are written with are shown to satisfy their equations once (one more
element, disjoint union, one more punch), and the rest is by cases.

The inductive invariant has, beside the types, `PunchesKept` (finitely many
punches), `LeaveKept` (the number of an active leave is not the one
that stands for none), `NightsKept`, `OverridesKept`, `ReportKept` (a report between
its two queries is a function of its snapshot) and `RecordsKept`: every record is
one the engine could have written, and, while the employee is active, a
day for which no recompute is due carries the leave of its day. It is needed because the money,
the breaches and the columns are read from records that were computed at
different times, not from the punches. TLC checked it on the `payroll`
instance (35 056 states) before it was proved.

* `WorkAlwaysIsPresence` compares the scan of `pair_work_intervals` with
  presence, which is defined without it. By induction over the initial parts of the time line:
  the scan's open entry is the first since the last exit, and what it has counted is
  the presence up to the last punch.
* `OpenDayIsAlwaysFlagged`: a record that is up to date says what the engine says
  (`FreshSays`), and an entry with no later exit is what the scan leaves open.
* `BreachIsAlwaysSeen`: a sum of naturals above the cap has a last day that adds to
  it; on that day the running total is the whole sum, and the day is flagged.
* `DayIsAlwaysAccountedFor`: the deficit of a day is what is missing up to the ordinary minutes, and
  summing keeps both bounds; a day with a leave has no work in a settled
  record, and the two queries count days of one set.
* `DayIsAlwaysPaidPerMinute`: each of the four amounts is within half a cent of its
  exact value as long as no product overflows, which `fits` says; the rest is
  linear.
* `FortnightsAlwaysAddUp`: a month is the disjoint union of two ranges, so sums of
  days split; so do the saturating ones while `NothingSaturates`, and the absences,
  by the two days of hire and end that clip each range. `HiredInTime` is the code's
  own limit: an employee hired after the 15th is not listed in the first fortnight,
  so what is on file from before the hire would be in the month alone.

What it assumes of a setting (`SettingsAssumption`): its days are contiguous and
contain those a punch or a leave asks for, and the calendar (`CalendarAssumption`)
has months of 28 to 31 days around them and years that begin with a month. The ordinary minutes are
not negative, as the column's default and the handlers leave them. That a setting
has one leave, and one value per override, is a bound of the model;
`OneLeavePerDay` has the interleaving of several. `CapsAssumption` is that the
caps are numbers. `WeekBreachIsFlagged`, which the code does not keep, is not proved, of
course: `BreachIsSeen` is what remains of it, over spans whose days are up to date.

Models that changed for their proofs: in `PushInbox` the batch is a set with the row
at work beside it, since its order is that of the rows and need not be kept twice.
In `Recompute` a burst is one step per request, as `try_recv` has it; the
debounce before it is time that passes. In `Calc` the scan folds
over a set of punches in time order where it folded over the sorted sequence, and
`Payroll` sums functions. The attempt to prove `Payroll`'s properties corrected two of them: the
overflow premise of `PaidPerMinute` was about the product alone and left out the
term added for rounding, and `FortnightsAddUp` took for granted that sums
do not saturate (`NothingSaturates`) and that nothing is on file from before the
hire (`HiredInTime`). TLC's instances met none of these.

Model-checked only: liveness, which rests on fairness and `ENABLED`
(`EveryCallReturns`, `WorkerDrains`, `PushSettles`, `RecordsCatchUp`, `ShutdownEnds`,
`PointedAgain`, `SessionsExpire`).

## 6. Plan

No safety property of a passing run is without a theorem. What is left is breadth:
the parts of section 8, and daylight saving time in `Recompute`, whose anchors are
proved for a zone without it.

New properties join an existing instance, or replace a weaker one: the project
keeps to about a dozen runs.

## 7. Observations

Behaviour met while modelling that a reader of the code may want to know. The
models follow the code in each case; none is hidden by a property.

Ingestion and enrollment:

* `workers/push_drain.rs:333`: `drain_once(&state).await?` leaves `run` when the
  SELECT of pending rows fails once, until a restart, although line 12 says "A
  database that is momentarily busy must not be given up on after one try".
  `WorkerDrains` excepts a dead worker.
* `workers/push_drain.rs:175` says "a row is never double-counted for having been
  retried". The index covers dated markings of known faces; unknown faces and
  undated markings (dated now, at each try) are inserted again, once more for each
  fault that has the row tried again; `CountedOncePerTry` says that it is no more.
* `workers/purge.rs:308`: a failed revocation stays `pending_delete` with a
  `manual` checkpoint and nothing retries it, although migration 016 line 22 says
  "purge failed, will retry".
* The purge request exists only in memory (`employees/handlers.rs:157`): a crash
  after the deactivation forgets it.
* `enrollments/dispatcher.rs:134`: recovery fails on a backfill checkpoint of an
  employee who has left, and `main.rs:173` ends the startup; every later start
  fails alike.

Devices:

* `devices/service.rs:464` lists the devices to start with `deleted_at IS NULL`,
  and a PATCH that makes a deleted device active (`devices/service.rs:371`) leaves
  `deleted_at`: it has a task until the next start and none after it.
* A task keeps the direction it was started with; a PATCH of the direction alone
  does not restart it (`devices/handlers.rs:136`, `isapi/stream.rs:496`).
* A request dropped after its commit does not report: a deactivated device may keep
  its task.
* A command can be carried out without a row in the audit log: its client goes away
  while the reader is called (`supervisor_cut`), or the write is refused and the
  client is told of an internal error (`devices/handlers.rs:297`).
* `isapi/stream.rs:9` says "Any byte successfully read from the device sets
  `connection_state='online'`". Only the opening of a stream does; later bytes touch
  `last_seen_at` (`supervisor/status.rs:40`). Once the watchdog has called a slow
  reader offline it is shown so until it reconnects, although its markings arrive.

Accounts and licence:

* A PATCH to inactive leaves the refresh hash; refresh checks the status instead.
* A logout that races a refresh answers OK while the rotated session lives on.
* The renewal task sleeps 24 hours before its first try (`license/service.rs:332`).
* When every administrator is gone the setup stays closed, since it counts rows.

Files:

* `workers/capture_cleanup.rs:220`: the sweep skips names that do not end in
  `.jpg`, and a killed process leaves `.atomic-*.tmp` files
  (`storage/atomic_file.rs:260`, `:330`) that nothing removes; `stranded` holds them.
* The sweep of orphans deletes a `.jpg` that somebody else put into the directory
  once it is five minutes old and no session has its name
  (`workers/capture_cleanup.rs:225`).
* A file that cannot be deleted from its quarantine (`storage/atomic_file.rs:351`)
  stays there; its session says "captured" without a photo until its next expiry.
* One I/O error in `cleanup_once` ends the periodic owner until a restart.
* Evidence written just before a crash, for a leave that was never committed, is
  never swept.

Queue: a slot reserved before the writer died can still be filled, and the
caller waits for ever; hence `EveryCallReturns` excepts a dead worker.

Calculation and reports:

* `calc/aggregation.rs:77` says "`own_date` is the only possible anchor" of a day
  shift. With a shift to 23:55 and ten minutes of tolerance an exit at 00:02
  belongs to the day before, whose recomputation nobody asks for.
* `calc/overnight.rs:75` parses the times of a shift with `expect`; the
  departments API does not validate them, so a malformed one ends the worker.
* An override below zero is accepted (`daily_records/handlers.rs:117`), and then
  the deficit exceeds what was expected, which `reports/service.rs:856` calls
  structurally impossible. An override leaves the overtime as it was.
* Filtering by `shift_type` makes days on the other shift absences
  (`reports/service.rs:284`).
* In punch mode a day with a punched break and an open last entry has lunch deducted
  and `LunchPunchMissing` (`calc/lunch.rs:21`).
* Days of a leave after the end of employment are counted, so the fortnights of
  a leaver need not add up; punches and leave changes after a deactivation are
  not computed (`daily_records/service.rs:50`), although `reports/service.rs:219`
  says such work "must still be paid". The end is an instant read as a date in UTC.

## 8. Not modelled

Byte-level work whose correctness is a library's or a unit test's: HTTP digest,
the parsing of XML, JSON and multipart, encryption, images, spreadsheets.
Record keeping of one statement per request: departments, rules, tenant data, the
editing of employees. Read-only listings, the SSE broadcast and the audit
triggers. Rate limiting, whose state is the governor library's. The web
frontend, the licence authority and the deployment scripts, which are other
programs; the models keep the answers the backend tells apart. `PROJECT.json`
has the reason for each.
