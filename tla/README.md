# A verification project for cinema (plurx)

`plurx` is a self-hosted media server written in Rust: one daemon (`plurxd`)
per node, a replicated store (an embedded Raft-backed SQLite, "hiqlite"), a
plain SQLite store for single nodes, background workers that scan and probe
libraries, on-demand transcoding, and clients that report what they play.

This directory holds TLA+ models of the parts whose correctness rests on the
order in which things happen, TLC configurations that check them on small
instances, and TLAPS proofs of the most important ones for every instance.

Paths below are relative to `src/crates/`.

## 1. Inventory

The complete list, with what is left out and why, is in `PROJECT.json` under
`components`; hazards, each at its line and with the properties that watch it,
are under `hazards`. The parts that keep protocol state are these.

| Part | State it keeps | Operations | Interacts with | What is hard | What makes it correct |
|---|---|---|---|---|---|
| Cluster job lease: `plurxd/src/job_lease.rs`, `plurx-core/src/store/hiqlite_coordination.rs`, `plurx-core/src/cluster/coordination.rs` | one row per resource (owner, fence, revision, expiry); per process a token, a heartbeat task, a loss token | acquire, renew, release, drop | the replicated store; the job; membership changes | requests that execute after their caller has gone, answers that arrive late, clocks that disagree, crashes, renewals racing release | one holder's writes at a time; no two requests of a job outdate each other's token; a job learns that it lost |
| Publication fence: `plurx-core/src/store/publication.rs`, `hiqlite_publication.rs` | the process's copy of the token behind a read-write lock; a revocation flag | renew, fenced call, invalidate, revoke, name an artwork file | the lease's heartbeat and the job's publisher share it | a renewal and a publication both replace the token | a publication commits only under the live row; unfenced files are still exclusive |
| Library worker: `plurx-worker-control/src/library_lifecycle.rs`, `library_driver.rs`; `plurxd/src/library_work/env.rs` | where the pass is; what it holds; the requests to perform | one request at a time: acquire, bind, poll, revoke, cancel, join, release, settle, retire | the durable queue (claim), the job lease (domain), the scan future, the machine's pressure | loss of either lease at any await; the task aborted at any await | resources given back inside out; no panic; the queue told the truth |
| Watch progress: `plurxd/src/progress.rs`; `plurx-core/src/store/sqlite/watch.rs`, `jellyfin_watch.rs` | per user and item an entry with the committed row, a pending beat, a flush worker; the row and its edit revision in the store | put, put_jellyfin, put_final, flush, drain, sweep | players, manual edits, other nodes | a queued beat meets a row someone else has moved | no queued beat undoes an edit; a queued beat is always flushed or given up |
| Durable job queue: `plurx-core/src/store/background_jobs*.rs`, `plurxd/src/background_jobs.rs` | job rows with claim id, revision, deadline, attempts | enqueue, claim, renew, settle, sweep | workers, libraries, resource ledger | lost replies resolved by claim id; settlement against expiry | one live claim; an attempt is charged once |
| Scratch ledger: `plurxd/src/scratch_ledger.rs` | per session incarnation its grant, measured, landed and reserved bytes, pins, writers | reserve, authorize, settle, walk, regrant, pin, retire, convert, release | `copyseg.rs`, `transcode/rolling/`, responses, flow control | walks outside the lock while writes land and objects are renamed; cleanup under readers and writers | never overcommitted; what is on the disk is charged; a charge is forgotten only when it is gone |
| Blocked-GET wait pool and materialise clocks: `plurxd/src/waitpool.rs`; `plurxd/src/vod/` (`serve/serve.rs`, `reader.rs`, `shared.rs`, `driver.rs`) | registered GETs, the slots and pins they hold, counts and caps; per segment a clock with its owners and watchdog; the manifest's set of materialised segments | register, recheck, wait, deadline, disconnect, wake, retire; publish, evict; expire, forget | the producer's sink, the driver that makes room, one watchdog per clock, clients that come again | wakeups sent outside the lock race deadlines and disconnects; a clock ends and another starts while an old watchdog still runs; eviction decides from a snapshot | nobody sleeps through a wakeup; nobody is refused before its clock has run out; counts are exact; what a GET was woken for stays |
| Transcoder admission: `plurxd/src/admission.rs` | hardware slots, software permits | admit, reserve, release | transcoding, background work | live work against background | slots never overcommitted |
| Producer scheduling: `plurxd/src/prodsched.rs`, `prodrun.rs` | the encoder's window and the readers' positions | decide | VOD serving | many readers, one producer | no reader starves |
| Serving fence: `plurxd/src/serving_fence.rs`; `transcode/manager/control.rs` (`serving_fence_loop`, `register_session`), `transcode/manager/publication.rs`; `http/hls/fence.rs`, `http/hls/response.rs`, `http/mod.rs` | the authority word (ready and loss generation), the count of announced losses, a watch channel of the newest word; the owner's budget of grace and what it has torn down; `outage_resolution`; admissions during a planned outage | poll, lose, recover; observe, admit, guard, commit; hold, wait, retry; tell an outage pending, recovered or expired; sweep and retire; register | HTTP responses, the registry of sessions, cluster membership | two atomics read one after the other; a watch that skips values; a recovery or a loss while the owner acts on the one before; registrations beside a teardown | nothing commits under a lost generation; an outage is told as what it was; a flapping quorum gets one grace; an expired outage leaves nothing running |
| Watched outbox: `plurxd/src/watched.rs` | queued notifications with backoff | enqueue, claim, deliver, retry | an external service | two claimants, retries after success | at-least-once in order per item |
| Media sessions, playback control, live TV, offline packages, library sharing | sessions, generations, tuner leases, package queues, peers | - | - | take-over, sequence fencing | see `components` |

The rest (HTTP surface, container parsing, authentication, user interfaces,
installers, the vendored Raft) keeps no protocol state of its own, is pure
byte-level code, or is a library taken as a serial store whose callers can time
out. The repository has verification packages of its own under
`src/verification/`: `durable-jobs` (enqueueing, claiming and publication of
library work), `operation-progress`, `worker-control` (Kani proofs about the
driver's control) and `worker-refinement`. They are not repeated here. What this
project adds to them is the lease protocol with its delayed requests, revisions
and wall clocks (and proofs of it), the library worker's real environment, that
is the `Option` fields, what an await holds and the order in which an aborted
task drops them, watch progress, scratch and the waiting of segment GETs.

## 2. Modules

| Module | Models |
|---|---|
| `FencedPublication` | abstract: what a lease-fenced job promises to the catalogue |
| `FencedPublicationProofs` | its invariant and the order of its publications |
| `JobLease` | the lease row, `PublicationFence`, `ActiveJobLease`, removal of nodes |
| `JobLeaseProofs` | type correctness, the fencing invariant, and that `JobLease` implements `FencedPublication` |
| `JobLeaseConductProofs` | what rests on a worker's own conduct: only a publication it dropped can fence it off, its end is told, its artwork names are its own |
| `MCJobLease` | instances for TLC |
| `LibraryDriver` | one pass of a library worker: lifecycle, driver and environment together |
| `LibraryDriverProofs` | its safety properties |
| `WatchProgress` | the coalescer of one user and item on several nodes, over the `watch_state` row |
| `WatchProgressProofs` | its safety properties, and that the findings are the only holes in two of them |
| `MCWatchProgress` | instances for TLC |
| `ScratchLedger` | the ledger of rolling scratch, and a session's writers, walks, readers, retirement and cleanup |
| `ScratchLedgerProofs` | type correctness, reservations inside the grant, the exact collapse of a retired charge, what is on the disk is charged, the ceiling |
| `MCScratchLedger` | instances for TLC |
| `SegmentWait` | GETs that wait for a segment: the wait pool, the materialise clocks and their watchdogs, the sink and the eviction of one rendition |
| `SegmentWaitProofs` | its safety properties |
| `MCSegmentWait` | the instance for TLC |
| `ServingFence` | the serving authority of one node, the owner of its rolling sessions, responses that wait out an outage, sessions being registered |
| `ServingFenceProofs` | its safety properties, and that finding 4 is the only hole in `NoSurvivor` |

`map` in `PROJECT.json` gives, for each definition, the lines it stands for.

### JobLease

A *worker* is one `ActiveJobLease`. It has three tasks: `owner` (acquire,
release, drop), `heartbeat`, and `publisher`. A store call is three steps: the
task *asks* (`call[w][t]` is `sent`), the store *serves* (the row changes, the
call is `accepted` or `refused`), the task takes the answer. Until the third
step the caller may time out, be dropped or die; a request that was not served by
then is lost or becomes a *stray*, which the store may still execute (`Abandon`).
What the caller's end does to the fence depends on how it ends. An error empties it
(`RenewFailed`, `PublishFailed`); a publication whose future is dropped at its await
(`PublishDropped`) releases the lock and leaves the predecessor's token where it was,
since `fenced_call` empties the fence in its `Err` arm alone.

| Action | Code |
|---|---|
| `Acquire`, `Acquired`, `NotAcquired` | `acquire_cluster_job_with_policy`, `spawn` of the heartbeat |
| `Heartbeat`, `HeartbeatCancelled`, `HeartbeatExpired` | the heartbeat loop and its `select!` |
| `Renew`, `RenewAnswered`, `RenewFailed`, `Renewed` | `PublicationFence::renew`, `validate_lease_renewal`, the heartbeat's reaction |
| `Publish`, `PublishAnswered`, `PublishFailed`, `PublishDropped` | `PublicationStore::fenced_call`: the call, its answer, its error, its future dropped |
| `Release`, `Joined`, `Released`, `ReleaseFailed`, `Drop` | `ActiveJobLease::release` and `Drop` |
| `Accepts`, `Written` | the `WHERE` and `SET` clauses of the four statements |
| `BeginRemoval`, `RollbackRemoval` | the fencing of a removed node's rows in the membership transaction |
| `Crash`, `Tick`, `AdjustClock` | the environment |

The catalogue statements a publication carries are one append to `log`.
`grantee`, `log`, `erred` (workers with a publication that failed) and `dropped`
(tokens with which a publication was dropped) are history variables; the abstract
specification sees only the first two and `row.fence`.

### LibraryDriver

One action per request the driver sends to `TokioEnvironment::perform`, and two
where the task can be aborted in between with a resource taken out of its field
(`AwaitWork`/`WorkReturns`, `ReleaseDomain`/`DomainReleased`,
`RetireQueue`/`QueueRetired`). `Step` is the lifecycle's transition function,
`Install`, `Emit` and `Continue` the driver's. `slot` is the set of `Option`
fields that are `Some`, `carried` what the running `perform` has taken out of
them. `Abort` drops the running `perform`; `DropField` then drops the fields in
declaration order, one step at a time, so that work running on another thread
can be seen in between.

### WatchProgress

`entry[n]` is the `Entry` of one key on node `n`, `lock[n]` its mutex,
`worker[n]` its flush worker. `Read`/`Decide` are `put_inner` (one action up to
the store's read, one from there); `PutFinal` is `put_final`; `Flush` is
`flush_worker`'s write under the mutex with everything that follows from its
answer; `Drain` and `Sweep` are shutdown and the map's cap. `Outcomes` is what a
write comes to: it lands, it is refused by its predicate, it fails, or it lands
and its answer is lost. `ManualEdit` and `DeleteItem` are the other writers.
`seen`, `src` and `newest` are history.

### ScratchLedger

Every critical section of the ledger's lock is one action, and every directory
operation another; what a task knows between two of them is in its record
(`task`, `walk`, `conv`, `reading`). All figures count objects of one length, so
a write, which reserves its object twice over, reserves two.

| Action | Code |
|---|---|
| `Reserve`, `Bind`, `Abandon` | `reserve`, `bind_session`, `ScratchPermit::drop` |
| `RegisterWriter`, `FinishWriter` | `register_writer` before the task is spawned, `ScratchWriter::drop` |
| `AskWrite`, `Grow`, `AskAgain` | the three critical sections of `authorize_write` |
| `Write`, `Landed`, `RenameObject`, `Unlanded` | `publish_file`: the blocking write, `ScratchWrite::landed`, the rename; `ScratchWrite::drop` |
| `WalkBegin`, `WalkSees`, `WalkFails`, `WalkObserves` | `refresh_scratch_bytes`: `written_of`, `measure_scratch_bytes`, `observe_walk` |
| `Regrant` | flow control's `regrant` |
| `OpenObject`, `AcquirePin`, `ReleasePin` | a response opens an object, pins it, ends |
| `BeginRetirement`, `WritersSettle`, `ConvertBegins`, `ConvertSees`, `ConvertCommits` | `settle_rolling_scratch_charge` and the detached owner that retries the conversion |
| `BeginRelease`, `ClearDir`, `RemoveDir`, `AccountUnlinkAll` | the cleanup owners |

`collect` runs straight after the section of its caller, with no await between,
and is part of the caller's action. A walk is atomic except for what makes its
number wrong in a way that matters: an object renamed while it runs may be
missed. (It may also be counted twice, which errs on the safe side and is left
out.) `stage` says how far the session and its owners have come. Incarnations
outside `Started` reserve and drop only: they are the rivals for the ceiling.
`lost` is a ghost: it says whether a walk was believed that missed an object or
that a later call to the ledger had overtaken, and whether a good one has
followed.

### SegmentWait

A request is one GET of one reader for one segment; when it has left it may come
again, as the client's retry. `stage[r]` is where its future stands: at the
reopen after registration (`opening`), in `RegisteredWait::wait` (`waiting`), with a
wakeup and a file to open (`ready`), about to leave its clock for a retry
(`owing`), dropping its guards (`leaving`, `refused`, `unowned`).

| Action | Code |
|---|---|
| `Register` | the first section of `blocked_wait_for_with_read_custody`: `WaitPool::register_reader`, then `arm_materialize_watchdog_locked`, which joins a clock or starts one, both under the clocks' mutex |
| `Reopen`, `Receive`, `OpenReady`, `Deadline`, `LeaveToRetry` | the rest of `blocked_wait_for_with_read_custody`: the recheck, `RegisteredWait::wait` with its `timeout` and the `try_recv` after it, the file of a wakeup, `expired_verdict`, `retry_pending` |
| `Disconnect` | the future is dropped at one of its awaits |
| `DropDemand`, `DropSlot` | `MaterializeDemand::drop`, then `SlotGuard::drop` |
| `Send` | one `oneshot` send, after the pool's mutex |
| `RecordFailure`, `WakeFailed`, `Close`, `WakeClosed`, `FailUnplaced`, `RetireReader` | the other wakes, with the record that comes before them |
| `SetGlobalCap` | an administrator's cap |
| `Publish`, `Satisfy`, `SinkReturn` | the producer's sink |
| `Snapshot`, `Sweep` | the driver's turn: windows and pins, then `make_room` |
| `Elapse`, `WatchdogWake`, `WatchdogInspect`, `WatchdogExpire`, `WatchdogForget`, `WatchdogAborted` | a clock's budget and its watchdog task |

A step is one critical section of a mutex (pool, clocks, manifest). Where a task
goes from one section to the next without an await, and nothing another task does in
between can be told apart, the two are one action: the bytes written under the build
gate and the manifest's claim (the driver's sweep takes the same gate), the recheck
and the verdict that follows it in `Reopen`, the record of a failure on the clock
and its expiry. The last one's order does show, and is kept: the look at the
manifest and the expiry are two steps. Wakeups drained for a GET that no longer
listens come to nothing. `ProducerFailed` and `Gone` are one outcome, since a GET
leaves alike on both. Time is not a number: `overdue` is the set of requests whose
clock has no budget left, and `Elapse` lets a newer clock of a segment run out only
after the older ones, because all have the same budget. A clock's name (`Episode`)
is used again once its watchdog is over and nobody holds it, so that a run has a
bound on clocks at one time and none on their number. `known`, `peak` are history.

### ServingFence

`word` is the packed atomic of `ServingAuthority`, `watch` the channel that
follows it, `unseen` that its newest value has not reached the owner. A
publication is five steps of `publisher` (announce, store under the write lock,
send, unlock, withdraw the announcement); `Pending` is the count of announced
losses.

| Action | Code |
|---|---|
| `Poll`, `Store`, `Send`, `Unlock`, `Withdraw` | `refresh`'s decision, `publish` with `AuthorityWord::publish`, `PendingLossTransition` |
| `ReadCount`, `ReadWord`, `ReadAgain` | the three reads of `observe()` and its retry |
| `Arrive`, `Look`, `Gate` | `mutable_media_serving_gate`, `hold_for_outage_resolution`, `serving_gate` |
| `Admit`, `TakeGuard`, `CheckGuard`, `Commit` | `admit_publication`, `commit_guard_before`, `commit_authorized_media` |
| `Answer`, `TimeOut` | `wait_for_outage_resolution` and its deadlines; `with_authority_recovery` runs a response once more |
| `Begin`, `LockRegistry`, `Register` | `register_session`: the admission, the check inside the registry's lock, the insertion |
| `EndSession`, `Retire` | the end of a session of its own, and of one the teardown has fenced |
| `NoticeLoss`, `Resolve`, `Expire` | `serving_fence_loop` up to `SessionGrace::resolve_loss_from` and its `select!` |
| `TellRecovered`, `CountKept` | the `Recovered` arm, which waits for the registry's lock |
| `TellExpired`, `Sweep`, `Stopped` | the `Expired` arm: told first, then fenced under the lock, then retired |
| `StayTorn`, `NoLoss`, `Rearm`, `Wake` | the loop's other paths: torn down and still fenced, nothing lost, the second read of the watch, `changed()` |
| `Tick` | time, in units of the grace |

The poller is the only publisher that runs while a node serves. A response's
observations are three steps each, because they decide what it commits under and
what it waits for; the gate's look asks `is_ready` and is one step. The admission of a
session (`admit`) and the checks inside the registry's lock (`is_current`) go through
`observe` too and are one step each: a reading whose two counts agree says no more
than that authority was held at a moment during it, the sweep takes the same lock,
and nothing waits after what these readings name. A response that was refused for
authority alone waits and is run again once (`retried`). `Tick` waits while a task is ready to run (`Prompt`):
a grace is seconds, a scheduled task is not. `Punctual` says in addition that the
poller's period of 25 ms is longer than that; only the run of the finding needs it.
`dark` and `swept` are history. The field `serving_ready`, which the loop sets and
calls its gate, is read nowhere outside tests, and has no variable.

## 3. Runs

Every bound is a constant of the module and named there.

| Run | Question | Bounds | Result |
|---|---|---|---|
| `job_lease_takeover` | Is the catalogue ever written by a superseded job? Is artwork authority exclusive, does a window only grow? Does anything but a publication it dropped let a job fence itself off? Does a clean release leave a renewal behind? Is a job told that its heartbeat stopped? | 2 jobs on 2 nodes, a clock that moves by up to 1 both ways, safety window 1, TTL 2, time 0..1, 1 stray, counters to 3, one failed publisher; 1.05 million states | holds |
| `job_lease_ends` | Can a removed node own the resource? Is `FencedPublication` implemented? Does `release()` return, and does a superseded job find out? | 2 jobs on 2 nodes, removal of one and rollback, 2 release attempts, time and counters to 2, no strays; 120 000 states, with liveness | holds |
| `library_driver` | No panic, nested custody, an honest settlement, whatever is lost or aborted when | times saturate at 8; 16 000 states | holds |
| `watch_progress_edits` | Does a queued beat keep one worker, undo an edit, come back after a newer one? | 2 nodes, 3 native beats, 1 edit, 1 error, a deletion; 1.2 million states | holds |
| `watch_progress_final` | Does a queued beat keep its baseline, and is it always settled? | 1 node, a play with its final beat, 2 errors; 335 000 states | holds |
| `watch_progress_final_edit` | Does a late final beat let an older beat undo an edit? | 1 node, 3 beats, 1 edit | violated: finding 1 |
| `watch_progress_deleted` | Does deletion leave a beat without its baseline? | 1 node, 3 beats, a deletion | violated: finding 2 |
| `scratch_ledger` | Is what is on the disk, or on its way there, charged, within the ceiling, never forgotten? Does a retired charge collapse onto what is there? | a session with 2 objects, 2 writers, a walker and a reader, beside a start that fails; ceiling 4; 1.5 million states | holds |
| `scratch_ledger_walk` | Does a landed write stay charged? | 1 session, 1 writer, 1 walker | violated: finding 3 |
| `segment_wait` | Does a GET sleep through its answer? Is it refused too early, or for a segment that is there? Are slots, viewers and owners counted exactly, and the reserve kept? Does a pin keep the file? | 2 GETs of one viewer for one segment, coming again without limit, caps of 2 and 3 that change, 2 clocks at a time; 2.2 million states | holds |
| `serving_fence` | Does a response commit across a loss? Does it wait for an outage that never came or is over? Is an outage told as what it was? Does a flapping quorum get more than one grace? Does a session slip past a teardown? | 1 response and 1 session, each coming again without limit, 2 losses, a grace of 2; 1.6 million states | holds |
| `serving_fence_survivor` | Does an expired outage leave a session running? | 2 sessions, 2 losses, a punctual poller, no responses | violated: finding 4 |

**Why the bounds are enough.** A takeover needs a holder, a successor and a
request of the holder that arrives afterwards: two workers, one stray, and time
to pass one TTL. In `job_lease_takeover` time passes once and the clock of one node
may be one ahead, so that the other's lease expires there, its own lease expires under
it, and a renewal still extends what it renews. Counters to 3 let a resource change
hands, be renewed and be published to, and reach the limit where an acquire or a
renewal must stop. A state constraint (`OneFailedPublisher` in `MCJobLease`) follows a
behaviour until a second worker's publication has failed, a second publication is
dropped, or one of each kind has happened; one worker may fail again and again. What
follows from each alone is explored, and the theorems of section 5 have no such bound.
`job_lease_ends` has two units of time and equal clocks; two
grants are what its liveness needs, and requests that nobody waits for any longer are
left to the other run and to the proof of `Refinement`. The proofs of
section 5 remove these bounds for the safety core. In the worker a
pass is short and its data are four kinds of loss; only times need a bound, and
it is small enough for a settlement time to saturate. In watch progress, three
beats are a committed one, a queued one and one that meets the queued one; one
edit or one deletion is what a queued beat can be overtaken by; two errors with
two flush attempts reach the end of the retries. In the scratch ledger a ceiling
of 4 is what two grants of 2 fill, so that the rival start, a growth and a
regrant refuse each other; two writers let one land while the other asks, and a
conversion meet a writer that outlives its deadline; the grant is used up and
pulled in within two objects. Two jobs of one node, whose clocks are one clock,
are among the behaviours of `job_lease_takeover`.

In `segment_wait` two GETs are what a clock needs to be shared, outlive one owner
and be left for a retry; since each comes again without limit, a third adds
company and no new case. Two names of clocks let a watchdog of an old clock meet
the next one's owners, and names are used again, so that it may happen any number
of times. Segments share nothing but the pool's counters, the failure and the
driver's snapshot; section 5 has no bound on them, nor on viewers: one viewer
exhausts the general allowance of cap 3 (two slots), and the newcomers the
reserve is for are the proof's.

In `serving_fence` two losses are a loss and the one that comes while the first is
waited out, told or torn down; a grace of 2 can be spent in part by each. Responses
share nothing but the word and the write lock, and the session's registration
meets the sweep alone; section 5 has no bound on any of them.

The three `watch_progress` runs without liveness use the symmetry of beats that
are not final and of nodes, the `scratch_ledger` runs that of objects,
registrations and walkers, `segment_wait` that of GETs (same viewer, same
segment) and of clocks' names; no operator of these modules picks one with
`CHOOSE`, and the runs that check liveness use none.

### What the properties say

`JobLease`:

- `PublicationsInOrder`: committed publications follow the order of the fences,
  and one fence publishes for one worker only.
- `TokensBehindRow`: every token, in a process, in a request or in an answer, is
  no newer than the row, and under the row's own fence belongs to the worker it
  was granted to. This is what the proof carries.
- `NeverSelfFenced`: a request presents the exact row, unless somebody else has
  moved it on or a publication that the job itself dropped at its await had
  presented the same token. The fence's lock across the store call is what the
  first rests on, and the fence that an error empties; the code has no such guard
  for a dropped publication, see the observations.
- `EndIsTold`: `CleanReleaseIsFinal` (when `release()` returns `Ok`, no renewal it
  dispatched can still reach the store) and `OrphanedJobIsTold` (when the heartbeat
  of a running job has stopped, the job's loss token has fired or a publication
  of its own has returned an error). An empty fence is no excuse: the heartbeat that
  finds one goes in silence, so whatever emptied it must have spoken.
- `ArtworkExclusive`: two jobs never both name a file that no transaction
  fences, provided clocks agree to within the safety window and no node is being
  removed. Both provisos are needed: a removal shortens a row whose holder does
  not know. (The theorem excludes less: only a removal that finds the row with a
  holder that may still be in its window and has not revoked its fence.)
- `NobodyLingers`: `release()` returns, and a job whose lease was taken over finds out
  or is over.
- `WindowNeverShrinks`, `RemovedOwnsNothing`, and `Implements`.

`LibraryDriver`:

- `EnvironmentAsExpected`: `NeverPanics` (every `expect`, `try_unwrap` and rejected
  reply of a pass) and `MirrorsEnvironment` (the driver's own account of what it
  holds, which the Kani proofs argue about, is what the environment holds).
- `WorkIsCovered`: `CustodyNested` (resources go inside out) and
  `InterruptedWorkIsTold`.
- `SettlementIsTrue`: `SettledAfterRelease` and `ChargedOnlyForFailure`.
- `LossEndsPass`.

`WatchProgress`: `PendingIsOwned`, `EditsStand`, `FlushIsNewest`,
`PendingHasBaseline`, `PendingSettles`. `EditsStand` exempts an edit in the very
second in which the row behind the beat was written: the code compares rows by
value and `updated_at` has whole seconds. An edit that changes nothing does not
touch `updated_at` and does not stop a native beat; the code means it so.

`ScratchLedger`: `DiskIsCharged`, that is `Accounted` (materialised figures cover
the directory and the writes in flight), `ChargeCovers` (so does the charge, with
objects that readers hold open after their names are gone) and `NotForgotten`;
`ReservationsGranted`, `WithinCeiling` (about what is in the directories, on its way
there, or granted while names are left; not about the ledger's own sum, which pinned
objects and a walk's number can push over the ceiling, nor about objects that only
readers hold open, see below), `ConversionExact`. `Accounted` and `ChargeCovers`
excuse the time between a bad walk, as of finding 3, and the next good one, and
`WithinCeiling` every behaviour with a bad walk; `ChargeCovers` excuses nothing once
a retired charge has been converted.

`SegmentWait`:

- `NoMissedAnswer`: a GET that sleeps with nothing on its way to it is still
  registered, and its segment is missing or about to wake it, and so is any failure
  on record. The recheck after registration is what this rests on.
- `NoEarlyVerdict`: no GET is told that its segment missed the deadline before
  the clock it joined has run out, whichever clock's watchdog speaks.
- `ExpiryIsForMissingMedia`: the watchdog never expires a segment that is there.
- `CountersExact`: slots, viewers' allowances, the node's total and the owners of
  every clock are what the GETs hold, however each of them ended.
- `NewcomerReserve`: beyond the general allowance of the highest cap since the
  pool was last empty, there is one slot per viewer at most.
- `PinHolds`: the segment of a GET that was registered when the driver chose, and
  was woken since, is not evicted. The restriction to GETs that were registered is
  needed, see below.

`ServingFence`:

- `WellFormed`: the types, and `WaitsAreForOutages`: a response that waits does so
  after a generation whose outage is in the word or announced. This is why
  `observe` counts twice: a torn reading pairs the count of a loss that was announced
  with the word from after its recovery, and the response would wait after the new
  generation, for an outage that has not come.
- `CommitUnderAuthority`: while a response commits, authority is held under the
  generation it was admitted in. The write lock is what this rests on, and the
  check that follows the guard.
- `RecoveryIsReal`: a recovery that is told took place under that generation.
- `FlappingIsBounded`: losses less than a grace apart are waited out for one grace
  altogether.
- `TeardownIsComplete`: what was admitted before the outage that a sweep ends is in
  its snapshot or refuses itself.
- `OutageIsTold`: when the owner sleeps on a fenced node, the loss there is has been
  called expired.

### Observations

Things the models allow that no run shows. Each was read off model and code; none
is counted as a finding. Where an invariant is named, TLC shows it when that is
added to the run.

- **A job can be fenced off by a publication it dropped itself** (`NeverSelfFenced`
  without its last disjunct, in `job_lease_takeover`). `fenced_call`
  (`plurx-core/src/store/publication.rs:313-345`) keeps the predecessor in the fence
  until an answer comes and empties it on an error. If its future is dropped at the
  await, nothing is revoked and the request may still execute and raise the row's
  revision; the next renewal presents the old token, is refused, and the loss token
  of a job that nobody has superseded fires. An aborted library pass drops its work
  before its lease (`plurxd/src/library_work/env.rs:68-74`), and a tick of the
  heartbeat may come between. It errs on the safe side (no write is lost or doubled,
  the lease expires), and no comment says otherwise.
- **A preempted pass can be charged as a failure**
  (`LibraryDriver!PreemptionNotCharged` in `library_driver`). The probe inside the
  work looks at the machine itself (`plurxd/src/source_probe.rs:519-525`), cancels
  the work and returns an error; `select_work` prefers that result to its own
  pressure tick, and the lifecycle settles with `Retry`. The queue document says
  that a preemption charges no failure.
- **A charge can outlive everything it was for**
  (`ScratchLedger!ReleasedIsCollected` with the constants of
  `scratch_ledger_walk`). Prepublication cleanup does not wait for writers; a
  write that lands after the names were accounted as gone leaves bytes in the
  entry that no walk will subsume.
  A conversion can do the same: neither `begin_release` nor `account_unlink_all`
  (`plurxd/src/scratch_ledger.rs:966-993`) moves the generation, so a detached
  owner that measured the directory before may commit what it read after the
  names were accounted, if a reader's pin has kept the entry. The grant that comes
  back authorises nothing, since the entry is fenced, but it is charged for good.
- **A late pin is charged without a look at the ceiling**
  (`acquire_pin`, `plurxd/src/scratch_ledger.rs:909-939`). An object opened before
  its name went, and pinned after another incarnation was admitted in the space
  given back, takes the disk over the ceiling for as long as it is read. With the
  objects readers hold open added to `Obligation`, TLC shows it with two
  incarnations, one writer and one reader.
- **An outage can go without a resolution** (`ServingFence!EveryOutageIsResolved` with
  one response, one session and `Punctual`). A loss and a recovery that both pass
  while the owner tears down, or waits for the registry's lock, are taken as known
  at the bottom of its loop (`control.rs:1695`): nothing is published for them, and a
  response that waits for them waits out its deadline though authority is held. At boot
  the baseline of a waiter saturates at 0, and no resolution is newer than
  that until there has been a loss.
- The driver of a rendition takes the pins before it takes the build gate
  (`plurxd/src/vod/driver.rs:702`): a GET that registers after that, and is woken
  by a publication that comes before the sweep, can find its segment gone and is
  sent away as pending, though a comment (`vod/serve/serve.rs:1158-1160`) speaks of
  the narrow pin that protects it.
- `expired_verdict` looks at the budget alone (`plurxd/src/vod/reader.rs:223-241`):
  a GET whose own deadline comes last can be refused for a segment that has just
  been published.
- A clock that was left for a retry, with an owner that outlives the two seconds
  of `WatchdogForget`, stays.

### Fairness

- `JobLease!FairSpec`: a store call is answered or its client's timeout fires,
  live tasks are scheduled, an interval timer keeps ticking (weak fairness).
  `Heartbeat` and `Renew` are strongly fair because Tokio's `RwLock` is first come,
  first served: publications, dropped ones included, cannot overtake for ever a
  heartbeat that waits for the lock, be it for the snapshot its tick begins with or
  for the renewal. Nothing forces a job to publish, to release, to be dropped or to
  crash, and time may stop.
- `LibraryDriver!FairSpec`: every request comes back (store calls time out), and
  dropping proceeds. The scan itself need not end; it must return only once it
  has been cancelled or has seen the claim go.
- `WatchProgress!FairSpec`: time passes; a request that holds the mutex goes on;
  the flush worker is polled when its timer or the mutex lets it (strong
  fairness, since beats and the worker compete for a fair mutex).

Deadlock is checked in the watch progress and serving fence runs and in
`segment_wait`. The lease, driver and scratch ledger runs switch it off: every job
may end, a pass ends, and so does a session. `ScratchLedger`, `SegmentWait` and
`ServingFence` have no liveness property and no fairness: that a blocked GET or a
held response ends is its own timer's doing.

## 4. Findings

1. **A refused final beat can let an older beat undo a manual edit.** `put_final`
   adopts the row that is there as the entry's baseline
   (`plurxd/src/progress.rs:203-208`) while another viewer's beat, observed
   before that row, stays queued; its flush then compares equal. Run
   `watch_progress_final_edit`.
2. **A refused final beat after a deletion leaves a pending beat without a
   baseline**, which the code excludes with an `expect` (`progress.rs:407`): the
   worker loops and shutdown reports an error. Run `watch_progress_deleted`.
3. **A walk can lose a landed write that is being renamed.** `publish_file`
   calls a write landed before it renames the temporary file
   (`plurxd/src/copyseg.rs:422-430`), and a walk skips a name that has vanished
   (`transcode/rolling/session.rs:781`): the object's bytes are subsumed by a
   walk that did not see them. Run `scratch_ledger_walk`. Two overlapping walks
   of one session (publication worker, flow control and repair pass each start
   them) can come to the same without a rename, when the older one observes last;
   give that run's `Walker` a second member, leave out the increment of `moved`,
   and TLC finds it.
4. **A session can survive the outage that is called expired.** While the owner
   retires the sessions of one outage, authority returns, a session is admitted,
   and authority goes again before the owner reads the watch: the next turn of the
   loop takes the second loss for one with "nothing running to keep"
   (`transcode/manager/control.rs:1613-1628`), publishes it as expired and tears
   nothing down. The gate of which that comment speaks is not consulted by
   `register_session`. Run `serving_fence_survivor`.

## 5. Proofs

The lease from `ConstantAssumption` (finite or infinite sets of nodes and
workers, any TTL, skew, retry count and counter limit), the ledger from
`ScratchAssumption` (finite sets of incarnations, objects, writers and readers,
any ceiling, grant and envelope, a reservation that is not zero), the library pass
and watch progress each from their own `ConstantAssumption` (positive delays, a
clock that ends before its width; any nodes, beats and plays, any duration, window
and number of attempts; nodes are not named as the other writers of the row are),
the waiting of GETs from `RequestsAreAddressed`, `PoolIsFinite`, `CapsArePositive` and
`EpisodesAreDistinct` (finite sets of GETs and viewers, any segments, readers, caps
and clocks), the serving fence from `GraceIsPositive`, `LossesAreBounded`,
`PunctualIsBoolean` and `NoneIsApart` (any sets of responses and sessions, any grace, any
number of losses), none of it more than the code's types.

| Theorem | Says |
|---|---|
| `JobLeaseProofs!TypeCorrect` | `Spec => []TypeOK`, in it that no fence or revision passes the limit |
| `JobLeaseProofs!TokensStayBehind` | `Spec => []TokensBehindRow` |
| `JobLeaseProofs!Refinement` | `Spec => Implements`: every step of the protocol is a grant, a close, a publication by the holder, or a stutter |
| `JobLeaseProofs!PublicationOrder` | `Spec => []PublicationsInOrder` |
| `JobLeaseProofs!RemovalHolds` | `Spec => []RemovedOwnsNothing` |
| `JobLeaseProofs!WindowGrows` | `Spec => WindowNeverShrinks` |
| `JobLeaseConductProofs!EndsAreTold` | `Spec => []EndIsTold` |
| `JobLeaseConductProofs!NeverFencesItself` | `Spec => []NeverSelfFenced` |
| `JobLeaseConductProofs!ArtworkIsExclusive` | `Spec /\ [][no CutsShort]_vars => []ArtworkExclusive`, if `MaxSkew <= SafetyWindow` |
| `FencedPublicationProofs!InOrder` | the abstract specification keeps publications in order |
| `LibraryDriverProofs!TypeCorrect` | `Spec => []TypeOK`, in it that no settlement passes `i64::MAX` |
| `LibraryDriverProofs!DriverKnowsItsEnvironment` | `Spec => []EnvironmentAsExpected` |
| `LibraryDriverProofs!WorkStaysCovered` | `Spec => []WorkIsCovered` |
| `LibraryDriverProofs!SettlementsAreTrue` | `Spec => []SettlementIsTrue` |
| `WatchProgressProofs!TypeCorrect` | `Spec => []TypeOK`, in it that a live worker has attempts left |
| `WatchProgressProofs!OneWorkerPerBeat` | `Spec => []PendingIsOwned` |
| `WatchProgressProofs!BaselineIsKept` | `Spec /\ [][no TakesMissingRow]_vars => []PendingHasBaseline` |
| `WatchProgressProofs!BaselineOutlivesFinals` | `Spec => []PendingHasBaseline`, if `MayDelete = FALSE` |
| `WatchProgressProofs!NewestIsFlushed` | `Spec => FlushIsNewest` |
| `WatchProgressProofs!EditsAreKept` | `Spec /\ [][no MovesBaseline]_vars => EditsStand` |
| `ScratchLedgerProofs!TypeCorrect` | `Spec => []TypeOK`, in it that no figure falls below zero |
| `ScratchLedgerProofs!ReservationsInsideGrant` | `Spec => []ReservationsGranted` |
| `ScratchLedgerProofs!CollapseIsExact` | `Spec => ConversionExact` |
| `ScratchLedgerProofs!TheDiskIsCharged` | `Spec => []DiskIsCharged` |
| `ScratchLedgerProofs!TheCeilingHolds` | `Spec => []WithinCeiling` |
| `SegmentWaitProofs!TypeCorrect` | `Spec => []TypeOK`, in it that no count falls below zero |
| `SegmentWaitProofs!CountsAreExact` | `Spec => []CountersExact` |
| `SegmentWaitProofs!ReserveIsKept` | `Spec => []NewcomerReserve` |
| `SegmentWaitProofs!NoAnswerIsMissed` | `Spec => []NoMissedAnswer` |
| `SegmentWaitProofs!VerdictsAreDue` | `Spec => []NoEarlyVerdict` |
| `SegmentWaitProofs!ExpiryMeansMissing` | `Spec => ExpiryIsForMissingMedia` |
| `SegmentWaitProofs!PinsHold` | `Spec => PinHolds` |
| `ServingFenceProofs!TypeCorrect` | `Spec => []TypeOK`, in it that no budget passes the grace and no waiter's baseline falls below zero |
| `ServingFenceProofs!WaitersAreGrounded` | `Spec => []WellFormed` |
| `ServingFenceProofs!CommitsHoldAuthority` | `Spec => []CommitUnderAuthority` |
| `ServingFenceProofs!RecoveriesAreReal` | `Spec => []RecoveryIsReal` |
| `ServingFenceProofs!FlappingGetsOneGrace` | `Spec => []FlappingIsBounded` |
| `ServingFenceProofs!TeardownsAreComplete` | `Spec => []TeardownIsComplete` |
| `ServingFenceProofs!OutagesAreTold` | `Spec => []OutageIsTold` |
| `ServingFenceProofs!OnlyReannouncementsSpare` | `Spec /\ [][~LeavesSurvivor]_vars => []NoSurvivor` |

**The argument for the lease.** The inductive invariant is `TypeOK /\ TokensBehindRow`
(`IndInv`). Exactness of the tokens alone is not inductive: a stray request may
carry an old token whose fence is still the row's, and one must know that its
revision is then behind, that the fence was granted to the sender, and, once a
release or a removal has closed the fence, that the token cannot match again.
`TypeOK` contributes that a revision can always be raised when a statement
accepts. The order of publications is not proved on the protocol directly: it
is proved of `FencedPublication`, a five-line machine whose invariant relates the
log to the current fence, and carried over by `Refinement`. Each step of the
protocol changes tokens in one of three ways, kept as lemmas: tokens flow from a
task's state into a request, from the row into an answer, or disappear.

`RemovedOwnsNothing` is inductive with `TypeOK`: a removal and the fencing of the
node's rows are one transaction, and every statement that could bring a node
back looks at the removal first. `WindowGrows` is an action property; it needs
the further invariant `RequestsExtend`, that every request under way or left
behind asks for no less than the expiry it presents, which is where the
validation of renewals and the minimum of `publication_successor` enter.

What a worker's own tasks owe each other is a second layer, `Conducts`, with four
parts for each worker: the owner's calls belong to its phase (`OwnerSane`), the
heartbeat and the publisher exclude each other by the lock (`TasksApart`), a
worker that has left a request with a token behind holds nothing more to present,
unless it was a publication that it dropped (`LeftBehind`), and whatever empties the
fence or ends the heartbeat of a running job has told it, by the loss token or by a
publication's error (`Told`). `EndIsTold` follows from it. The third part is also the
heart of `NeverSelfFenced`. `CurrentTokens` says where a worker's tokens are (on their
way, in an answer, in the fence while the lock is free) and that each is the row, or
has been superseded by somebody else, or is one with which a publication was dropped
(`Fresh`). When a request of the worker's own executes unobserved, it is either
alone, because its failure emptied the fence, or a dropped publication, and then the
only token it can outdate is the one that it presents itself, which is in `dropped`
(`DroppedCurrent`). A request of another worker that executes
supersedes, because under the row's own fence its token would have to be
this worker's. `ArtworkExclusive` rests on `Windows`: a token's window lies within
the row's, under the fence the row still has and still grants this worker, or it is
over for every clock. That is where the provisos enter. A
takeover waits for the row's expiry by a clock that is at most `MaxSkew` ahead
(`RequestsTimely`), renewals and publications only extend (`RequestsExtend`), a
release is on its way only if its worker has revoked its fence (`ReleaseRevokes`), and
a removal closes no window but the grantee's (`RemovalInWindow`): it may come at any
time but in the one case that the hypothesis names (`CutsShort`), in which the grantee
could still write and the row's expiry is not past for every clock. TLC finds two
jobs naming artwork at once with that case allowed, and none without.

**The argument for the ledger.** Every step belongs to one incarnation and
leaves the others alone, so the invariant (`IInv`) is `TypeOK` and a statement
`Sound` about each one, in two parts. `Booked` ties the entry to the writers'
tasks: its registrations are exactly the tasks at work, and its pending bytes are
one reservation for each write authorised and not settled. That is what makes a
subtraction exact and shows that a task at work has an entry to come back to.
`Stands` is about time: pending bytes are inside the grant, and what a
conversion has read (the generation, then the bytes in the directory) is true
for as long as the generation is the same, because with the same generation no
writer is registered, and only a registered writer changes the directory before
the names are released. Neither property is inductive alone: the grant is pulled
in by `Regrant` and collapsed by the commit, and the latter is safe only because
no writer means nothing pending. The lemmas about `Booked` and `Stands` are
stated over an entry, tasks and a conversion, without primes, and one lemma per
group of actions applies them.

`DiskIsCharged` needs a second layer (`Account`), with four parts for each
incarnation (`Charged`). `Measures` is the heart of it: landed objects are
measured or counted as written, and every walk that may still be believed began
at no more than is written now and has missed at most what was written since
(`n + before <= bytes + written`), which is exactly what the subtraction of
`observe_walk` needs. A walk that another call has overtaken is excused, and so is
one that missed an object being renamed, until the next good walk. `Retains` says
the same of the grant: a grant of nothing means an empty directory, a retained
charge has no writers and is no less than the directory, and what a conversion has
read under the same generation is still no less. `Staged` is what there is
at either end of a session's life, and `Pins` that a pinned read has its own pin in
an entry the ledger knows. A write that is not yet landed is covered by its
reservation until then (`DrawnCovers`, from `Booked`).

`WithinCeiling` is a third layer (`Ceiling`), and the only property here that is
about all incarnations at once. One figure per incarnation, its obligation, is
followed through the steps (`StepAllots`): it stays, it falls, or the step is one of
`reserve`, `grow` and `regrant`, which look at the sum of the *charges*
(`Admitted`); that an obligation is no more than its charge (`ChargeCoversObligation`)
is `DiskIsCharged` again. For this the grant has to cover what is in the directory
and on its way there until the names are gone (`Allots`), also when a conversion that
has read the directory gives the rest of the grant back; and once a release has begun,
the entry has to be fenced, or a late write could draw on a grant that is no longer
counted (`Fences`). The sums are the community modules' `MapThenSumSet`, a recursion
over the subsets of `Key`, which is unfolded as the function it is defined as
(`TotalIsSum`, `ObligationsAreSum`). What is needed of it, that such a
function exists, is the only one, follows a change of one term and grows with its
terms (`SumsExist`, `SumsAgree`, `SumChanges`, `SumGrows`), is shown on a smallest
counterexample: that there is one is the library's theorem that the strict subsets
of a finite set are well founded, which is about sets and takes no operator.

**The argument for the library pass.** None of the properties is inductive, since
each speaks of one request or one resource. The invariant (`IInv`) is a timetable:
while the task drives, it is at a `Station`, which fixes together the lifecycle's
state, the request being performed, those that follow, what the environment and
the call in progress hold, and `Control::held`. Each action leaves one station
and arrives at another, so that "the lifecycle accepts the reply" and "the
resource is there" are both read off the station. A task that is being dropped is
at no station; `Falling` says what is true of any environment that is dropped from
one, and `DropOrder` that the declaration order of the fields keeps it. `Truthful`
carries what the queue may be told: until the end there is no settlement, and a
retry is either the work's own failure or one that a lost claim will not let
through (`Chargeable`), which is why `Settle` looks at the loss token.

**The argument for watch progress.** Nodes meet only in the row, so the invariant
(`IInv`) says something of each entry by itself (`Sound`: the flag is up exactly
while a worker lives, and a queued beat is the last one the node accepted) and two
things of the row: it bears the second of the edit that changed it (`Stamped`),
and only a deletion takes it away from entries that have seen it (`Rooted`). The
lemmas `AdoptSound` to `RetrySound` show that each of the code's ways to edit an
entry keeps `Sound`; the steps then differ only in what the store did.
`EditsStand` follows from the compare-and-set: a flush that lands found the row its
entry committed, so the row's second is that of the beat's baseline, and `Stamped`
makes it the edit's.

That a queued beat is flushed against the row it was queued behind is not an
invariant of the code: findings 1 and 2 are its counterexamples. What is proved is
that they are the only ones. Every step leaves a queued beat in one of three ways
(`BeatSteps`): the entry is kept, the beat has just been queued behind the entry's
row, or `put_final` has adopted the stored row under it. So a behaviour in
which `put_final` never takes another row under a queued beat (`MovesBaseline`)
keeps `Undisturbed`, hence `EditsStand`; and one in which it never takes a row that
is not there (`TakesMissingRow`) keeps `Dated`, hence `PendingHasBaseline`. Such
behaviours have final beats, deletions and edits in any order. Without deletion
nothing is excluded for the second (`BaselineOutlivesFinals`).

**The argument for segment waiting.** The counts come first (`Books`). Types and
exact counts need each other, since a drop subtracts; and they need to know that
a GET has an interest in a clock exactly from its registration to the drop of
its demand (`Owned`), and that a clock that runs has a name (`Named`), because
ownership is decided by comparing names. Only registration and the two drops
move the books; every other step keeps slots and owners, or ends a clock whole
(`SlotsStay`, `ClocksStay`). Verdicts rest on `RunOut`: once the running clock's
watchdog has woken, *everybody* with an interest in the segment is out of budget,
owners of older clocks included, so that an expiry by segment hits the right
ones. That is where the guard of `Elapse` (one budget for all) is used, and the
check of the episode under the lock. `Missing` says that between the watchdog's
look and its verdict the segment is missing or the clock another's. `Registered`
and `Answerable` split `NoMissedAnswer` into the two ways in which a GET can be
forgotten, drained without an answer or waiting on what has already happened.
All of these were checked by TLC on the instance of `segment_wait` first.

**The argument for the serving fence.** The poller, the responses, the
registrations and the owner change disjoint parts of the state, so `IInv` is a
conjunction with one part for each, and most steps leave most parts alone.
`Published` says how far the watch is behind the word: one step at most, and only
while a publication is between its store and its send. Everything the owner
concludes from the watch carries over to the word by it. `Glanced` is why a
commit is safe: a reading taken under the read lock is of the word there is,
since the store waits for the readers; what was read before the guard may be old
and is relied on for one thing only, the generation a refused response waits after.
`Grounds` is about that, a layer of its own over `IInv`: a word that was read is not
ahead of the word there is, and one that was read as ready was held; a generation a
response was admitted under was held; and a generation that was held, with a
loss counted now, is one whose outage is in the word or announced (`HeldGrounds`).
The second count enters in `BaselineGrounds`: the count that a reading ends with is
the count there is. `Budgeted` relates the ghost to the code's figures: what was
waited is no more than what the budget is charged, and a budget is given anew
only when the time since has counted as calm. `Torn` relates what the owner has
torn down, what it knows and what it has told, with the possibility that
something newer is on its way; `OutageIsTold` follows only with it. `Covered`
carries the sweep: it happens at a generation that is not ahead of the word, and
whoever is inside the registry's lock, or through it, is no older. The
registration's check is made under that same lock, and this is the step in which
it enters. `NoSurvivor`, which finding 4 refutes, is treated like the findings of
`WatchProgress`: in a behaviour without the finding's own step (`LeavesSurvivor`,
where `StayTorn` calls a second loss expired over an older session) it holds. What
the owner has torn down is the generation its sweep had, and those who come through
the lock later are of the word's generation, which is not behind (`NoneLeft`,
`NewcomersAreNew`).

**What stays with TLC.** Liveness under fairness and `ENABLED`, which are out of the
prover's reach: `NobodyLingers`, `LossEndsPass`, `PendingSettles`.
The induction theorems of the library that take an operator
cannot be used either; where an induction was needed (sums over the incarnations)
it is an argument about a least counterexample.

## 6. Not modelled, inside the modelled parts

- The provider budget takes the fence's read lock across a store call
  (`publication.rs`); `JobLease` has only the two writers of that lock.
- Watch progress: a remote (Trakt) merge, the replay of dated offline progress,
  edits of whole trees (several items), requests dropped in the middle of `put`,
  and writes that land long after their caller gave up.
- Library work: coalescing of interest and the eight requests a turn processes.
- Scratch ledger: rolling retention (`observe_unlinked`, which sets the measured
  bytes from the segment index, the links it retains and their headroom gauge),
  the count of starved writers, `authorize_after_exit`, a ceiling changed while
  sessions run, cleanup that gives up. Clearing a directory and accounting it are
  modelled as the two steps they are; in between a retried conversion may commit
  an empty directory while a reader still holds an object open, which
  `ChargeCovers` does not count until the accounting.
- Segment waiting: segments that are prefetched without a GET, the producer's own
  schedule (a publication may come at any time, or never), a GET's first look
  before it registers (stale by then, so nothing rests on it), entries a
  generation change retires. A GET that registers after its rendition has closed,
  or after its reader was retired, ends by its own deadline; nothing wakes it.
- Serving fence: planned outages and the drain before a restart, the shutdown
  that closes the channel, `outage_owner_active`, the owners of remux children
  (`http/stream.rs`) and of Live TV, who each keep a grace of their own, commits
  other than those of media. What the quorum answers at a poll is external.
- Membership: only what a removal does to leases.

## 7. Plan

In the order of importance; each module is written to be proved about as well
as checked (constants with assumptions, one action per operation, no RECURSIVE
operator), and each gets its runs and mutants before its proofs.

1. Done: `FencedPublication`, `JobLease`, their proofs; `LibraryDriver` and
   `WatchProgress` and theirs; `ScratchLedger`, `SegmentWait`, `ServingFence` and
   their proofs.
2. `ScratchLedger`, the rest: retention's `observe_unlinked` and the retained
   headroom.
3. `DurableClaim` (renewal with lost replies, settlement with a lost
   acknowledgement) and `DurableQueue` under it; composed with `LibraryDriver`'s
   view of the claim.
4. `Admission`: live work against background work, caps as invariants to prove;
   `SegmentWait` over a producer that schedules.
5. `ProducerSchedule`: a pure function, checked against a reference definition
   over bounded inputs.
6. Restart drains and planned outages over `ServingFence`; `WatchedOutbox`;
   take-over of media sessions.
7. The provider budget's read guard in `JobLease`; a composition
   `LibraryPublication` of `LibraryDriver` and `JobLease`.

Runs are kept few: a new module's questions share a run where its bounds allow,
and the instances of older modules are merged, where one is small enough for all
their questions, before another is added.
