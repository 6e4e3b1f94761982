# A TLA+ model of World Forge

World Forge is an authoring pipeline for role-playing worlds and generated games, with a local
desktop application, *Studio*, around it. This directory holds TLA+ modules for the parts of it
that change shared or durable state, TLC configurations that check them on small instances, and
machine-checked proofs of what matters most.

## 1. Inventory

| Component (sources under `src/src/`) | State it keeps | Operations | Talks to |
|---|---|---|---|
| Studio jobs and external grants (`worldforge/studio/jobs.py`, `external_grants.py`) | SQLite rows: job state, grant state, reservation | create, cancel, transition, claim, progress, finish, recover; grant create, revoke, reserve, release, consume | the service thread and the scheduler thread share the tables through two connections |
| Job scheduler and worker (`executor.py`, `worker.py`) | one thread's position; a child process per job | claim, prepare, spawn, poll, reap, settle, stop | rows above; the worker touches only files |
| External artifact operations (`external_jobs.py`) | a destination path, a journalled stage beside it | execute, rollback | publication code below |
| Studio service and store (`service.py`, `storage.py`) | connection, threads | start, orphan running jobs, serve, close, crash | everything in Studio |
| Source changesets (`changesets.py`, `changeset_review.py`) | rows, content-addressed blobs, apply journals, files of a world | create, approve, reject, apply, recover | the world's files, the lifecycle lock, the MCP process |
| World lifecycle lock (`world_lock.py`, `world_lifecycle.py`) | a lock in the world root | acquire, release, migrate | changesets, compilers, editors |
| Directory publication (`directory_publish.py`, `retained_tree.py`, `standalone_game.py`, `game_package.py`) | journal, stage, destination | materialize, package, extract, recover, rollback | external operations, creation jobs |
| Creation workflow (`creation_workflow.py`, `phase_report_v3.py`; `studio/creation_workspaces.py`) | `status.json`, phase reports and an archive of documents in a project; the service's record of a workspace | complete, reopen, reconcile; open, refresh | editors of the project's files, command-line operators, the service, the lifecycle lock |
| Game persistence (`gamepack_runtime/persistence*.py`) | slots, each a directory of immutable generations that name their parents; an advisory lock | write, read, migrate, resolve, rollback | sessions; whatever carries save files between machines |
| Game sessions (`gamepack_runtime/session.py`, `semantics_v1.py`) | one session's state | step, snapshot, replay | persistence |
| Agent harness (`worldforge/agent_harness/`) | run state, approvals, event log, usage | start, step, approve, cancel, recover | worker processes, providers |
| Creation jobs (`studio/creation_jobs.py`, `creation_executor.py`) | job and attempt rows, a private stage and journal per attempt, a registered worker process | create, cancel, execute, commit, retire, recover (resume, rollback, cleanup) | output grants, directory publication, the service thread |
| Creation output grants (`studio/creation_output_grants.py`) | state, reservation, and the recovery authority of a publication | create, revoke, reserve, begin, note each publication phase, release, publish | creation jobs, directory publication |
| Human decisions (`studio/authenticated_human_decisions.py`, `ollama_v2_authorizations.py`) | one-time authorizations | issue, consume, expire | creation jobs |
| Compilers, packs, validators, contracts | none | pure functions | all |
| Front ends (`isoworld/`, `gamepack_raylib_2d/`, `apps/studio/`) | windows | rendering, IPC | service, sessions |

What is hard here: two threads and a child process per job over one database; processes that die
while children live on; files that must change together on filesystems that have no transactions;
write locks that time out; people who edit the same files. `PROJECT.json` lists these hazards at
their lines. For each component, what makes it correct:

* jobs: rows and grants agree; one job runs at a time, in order, once; a recorded result is on disk;
  nothing visible is overwritten; everything queued or running is settled.
* changesets: all or nothing, only what was approved, only on the reviewed base; the base survives
  until the commit; recovery ends and explains itself when it refuses.
* publication: a destination is absent or complete; what cannot be proved to be owned is kept.
* creation workflow: no phase is accepted over a stale predecessor; status moves by compare-and-swap.
* creation jobs: job, grant and directory agree on success; nothing visible is unknown to the row of
  its grant; no file, worker or running job is forgotten, wherever execution stops.
* persistence: an acknowledged save stays; local writers never break a slot; a fork can be resolved.
* creation workflow: a status names only what is archived, advances one revision at a time for the
  caller that named it, forgets no report it drops; what the service records was there at one moment.
* harness: no action without an unused approval; the log is a prefix of what happened.

## 2. Modules

| Module | Models | Lines of thought |
|---|---|---|
| `ExternalPublication` | `external_jobs.py` and the recovery branches it reaches | No variables: an operation is a set of outcomes on a record (destination, stage). Bytes are the source they were derived from, because every comparison in the code compares hashes of lineage or content. |
| `ArtifactLeases` | the promise of ADR-0022 | A destination is leased to one job, which alone works there, and ends with its artifact in place or with nothing of it left; no rows, threads, workers, restarts. |
| `StudioJobs` | jobs, grants, scheduler, worker, service lifetime | EXTENDS `ExternalPublication`, refines `ArtifactLeases`. Actors: service thread, scheduler thread (`sched`), a worker per job (`worker`), user and outside world. |
| `MCStudioJobs` | | Values for the constants: `x1` and `x2` compete for one destination with different sources, `m1` is read-only, `old` is a legacy row. |
| `CreationWorkflow` | `creation_workflow.py`, and of `creation_workspaces.py` the workflow calls and the scans around them | A snapshot is one coherent state of the files. A status is its own hash; a report is the snapshot and the artifact it was written about. |
| `MCCreationWorkflow` | | Two snapshots, two builds of the first, one of the second, two phases, the second about a build. |
| `StudioJobsProofs`, `ChangesetsProofs`, `PersistenceSlotsProofs`, `CreationJobsProofs`, `CreationWorkflowProofs` | | The theorems of section 5. |
| `StudioJobsOutcomesProofs`, `StudioJobsLeasesProofs` | | What jobs leave behind, and the refinement of `ArtifactLeases`, on top of `StudioJobsProofs`. |
| `ChangesetsAtomicityProofs` | | The refinement of `AtomicChangesets`, on top of `ChangesetsProofs`. |
| `AtomicChangesets` | the promise of ADR-0011 and ADR-0015 | Changesets apply in one step; no journal, no crash. |
| `Changesets` | `changesets.py` | Refines `AtomicChangesets`. One step is one change that a crash cannot split: a database commit, a journal replacement, creating, linking or unlinking one file. |
| `MCChangesets` | | Changeset `a` replaces, creates and deletes; `b` replaces two of the same paths. |
| `PersistenceSlots` | `gamepack_runtime/persistence_generation.py` over `persistence_io.py` | A generation is its content with its parents in place of their hashes, so equal content is the same file, as in the code. |
| `MCPersistenceSlots` | | A desk with two writers and an older document, a laptop with one writer and none. |
| `CreationJobs` | `creation_jobs.py`, `creation_output_grants.py`, `creation_executor.py`, the restart in `storage.py`, and the publication in `standalone_game.py` | Composes jobs, grants and the journalled publication of a directory. Actors: service thread (requests, `rec`), scheduler thread (`run`), a worker per job. |
| `MCCreationJobs` | | `m1` and `m2` publish games to one destination, `c1` and `c2` publish nothing. |

### How state and actions correspond

`StudioJobs`. `state`, `rowid`, `grant` and `reservedBy` are the columns of `jobs` and
`external_grants`; `cancelReq` and `claimed` are job events the code reads or writes. `pending`
holds what `revoke` wrote and nobody committed: the service sees it (`Seen`), the other connection
does not. A scheduler transaction is one step; the service can hold the write lock across steps, in
`recover` (`RecoverBegin` to `RecoverEnd`, the external operation runs in between) and after
`revoke`, and `WriteLocked` blocks the scheduler meanwhile. `Finish` writes the job and settles the
grants, as `finish` does in one transaction. A `lastTry` tells a `finish` that runs in an exception
handler, whose own failure ends the thread. Workers advance by the steps another process can observe
on disk; `WorkerFail` may end any of them. `Crash` keeps live workers, as `start_new_session` does;
`Start` is `StudioStore.__init__` with `_orphan_running_jobs`. The mapping to `ArtifactLeases` takes
the reservation for the holder of a lease, and the states from queued to orphaned for one that is
open (`VerdictOf`): an interrupted job keeps its destination until somebody recovers it.

`Changesets`. `journal` is the durable file, `mem` the dictionary `apply` mutates; their difference
is the point of several hazards. `target`, `stage`, `keep` are the names of an operation in its
parent directory (a stage may be half written). `svc = "refused"` means `recover_journals` raised,
so `StudioService` does not come up. Faults are I/O or database errors at the step where the program
counter stands; the handler of `apply` goes by `mem.state`, exactly as the code does.

`PersistenceSlots`. `files` is what a scan of a slot lists, `durable` what a power loss leaves.
`pc` and `plan` are a call between taking the lock and returning; `Build` is the scan, the capacity
check and the document, `Link` the publication of the file, `Acknowledge` the flush and the second
scan of `_publish`. The parent directory is flushed when it is opened, before the link; therefore
`Link` makes everything listed so far durable, and a child never outlives its parent. `Abandon` is
an exception or the death of the process, which releases the lock. `layout` follows the two
directories above the lock file, which exist before the lock can be taken.

`CreationJobs`. `job`, `attempt` and `grant` are rows; `files` the private stage and journal of an
attempt; `out` the journal, stage and directory at a destination. One step is one database
transaction or one file operation. `ahead` is the distance between the generation of a row and the
last record of its journal, which recovery compares. `grant[g].auth` is the phase of
`recovery_json`: the row is told of every object of a publication before the next is made, and
recovery acts on nothing it was not told of. `PublishStep`, `SettleStep` and `UnwindStep` are
`materialize_game`, `_recover_locked` and `rollback_standalone_game` as sets of steps, each guarded
by what the code compares before it. `Fail` is an exception at any point before the commit,
`LeaveCleanup` after it; `RequireRecovery` to `ErrorEscapes` is `_finish_after_error`.
`ErrorEscapes` is what no handler catches there (a busy timeout, a `StudioError` in the transaction
that requires recovery, a lost compare-and-swap), and `ClaimTimesOut` the same for the `BEGIN
IMMEDIATE` of `claim_next`: both leave `_run`, and the thread is dead. `Windows` says that a verified directory can be deleted, which the code does on that platform only; elsewhere it
keeps the directory and asks for a decision. `rec` is one `recover` request of the service thread,
which interleaves with the scheduler.

`CreationWorkflow`. `src` is the project's files, which editors change at any time; `status`,
`history` and `published` are what the workflow keeps beside them. `pc` and `req` are a call: `req`
holds the status its caller named (`expected`), what was loaded (`base`) and what it will write
(`next`). `LoadComplete`, `LoadReopen` and `LoadReconcile` are all checks of a call and the status
it computes, from files read once under the lock; `Archive` (one document), `EndArchive` (with the
report of a completion) and `WriteStatus` are its writes, and `Abandon` may come between any two:
an exception, a busy lock or the death of the process, all of which release the lock. `row` is what
the service recorded, `scan` how far `_scan_integral_snapshot` has got; each of its four reads is a
step. A call of the service is a scan, the comparison with what the client named (`Authorize`), the
same call an operator makes, and another scan, all under the lock; `Open` scans without it.

## 3. Runs

| Run | Question | Bounds |
|---|---|---|
| `jobs_safety` | Through orderly lifetimes, is the queue's order kept, every worker reaped before its job is recorded, and is a grant a lease (`ArtifactLeases`), never given back over residue? | 3 jobs (2 external, extraction), 1 destination, revocation of the target, lock timeouts, foreign bytes, source drift, 2 starts; 855,520 states |
| `jobs_crash` | Do rows, reservations and destinations agree when the service is killed at any point and its workers live on? | 2 external jobs (materialization), a legacy row, 2 starts; 574,728 states |
| `jobs_liveness` | Is everything queued claimed, everything running settled, every shutdown finished? | 1 external, 1 read-only job, no lock timeout; 60,464 states |
| `changesets_apply` | Does apply with recovery implement the atomic specification, lose nothing, and end? | 2 overlapping changesets, 3 paths, 2 outside edits, 1 I/O error at any step but the committing journal write, crash at any step, 3 starts; 248,755 states |
| `slots_fork` | Does a slot keep what was acknowledged, stay readable, and keep room to resolve a fork? | 2 machines, 3 writers, 3 generations, 2 payloads, 2 carried files, power loss on one machine; 436,891 states |
| `creation_publish` | Do rows, grants, journals, workers and directories of creation jobs agree, whatever fails? | 2 game jobs on 1 destination, both platforms, cancellation, failure at any step, busy timeouts, crash, resume and rollback, 2 starts; 172,342 states |
| `creation_progress` | Is a claimed job settled and a queued one claimed, unless the scheduler's thread has died? | 1 game job, 1 compilation, failures, busy timeouts, recoveries, a crash, no cancellation; 200,443 states |
| `workflow_transitions` | Does the status advance coherently, name only what is on disk, and does the service record one moment? | 1 operator, the service, 2 snapshots, 3 builds, 2 phases, 4 revisions, 1 recorded change, 1 deleted report; 3,598,518 states |
| `jobs_revoke_lost`, `changesets_lost_commit`, `creation_start_refused`, `workflow_stale_prefix` | Statements of the documents that the code does not keep (section 4) | the smallest instance that shows each |

Why these bounds are enough. Two external jobs on one destination are what it takes for a
reservation, a journal or bytes of one job to meet another; more destinations add independent
copies. Two starts give one crash with a complete second life, three starts a crash inside recovery
and one more life after it. Changeset `a` has every kind of operation, `b` meets two of its paths,
one of them created by `a`. Three generations are the least for which the reserved last place matters
to a fork: one root, two tips or a tip and a resolution; two carried files reach both a parent
before its child and a child before its parent. Two jobs on one destination are what it takes for a
job to meet what another one left. Four revisions are what it takes for a completion to meet what a
reconciliation could not check: two phases completed, the second report deleted, the sources changed,
a reconciliation that leaves the first report under the new sources (revision 3), and a completion
there. The operator's calls reach all four; the service begins its own at the first two (`MaxServed`),
and meets whatever the operator does meanwhile. Two phases are what it takes for a report to be
before the one that is lost; one recorded change is one scan that records and one that finds nothing
new. All bounds are constants: `MaxStarts`, `MaxFaults`, the sets `Revocable`,
`DriftingSources`, `ForeignTargets`, `EditPaths` (each element once), `FaultSteps`, `MaxGenerations`,
`MaxArrivals`, `Unpowered`, `Cancelable`, `MaxRevision` (no new call at the last one),
`MaxServed` (none of the service from that one on), `MaxGeneration` and `MaxRemoved`.
`CHECK_DEADLOCK FALSE` stands where the system may really stop: the service has exited and the bound
on starts is used up, recovery refuses, or a bound of the workflow is reached.

What a passing run leaves out is deliberate, and section 4 says what happens there. `jobs_crash` uses
materialization because a crash makes `SucceededIsPublished` fail for extraction. What `jobs_crash`
checks is not checked again in `jobs_safety`: all of it is proved for all constants (section 5),
`SucceededIsPublished` for the operations that compare. `FreeTargetIsClean` is in no run, because
`LeasesAreKept` and `ReservationsMatchJobs` imply it; it is proved. `jobs_liveness`
excludes lock timeouts because they stop the scheduler. `changesets_apply` has no error in the
committing write (`changesets_lost_commit`) and only one error, because with a second one in the
rollback the service goes on serving beside a pending journal. `RefusalIsExplained` names the reasons
for which recovery does refuse. In creation jobs a busy timeout or a lost compare-and-swap ends the
scheduler thread, and `RunningIsSettled`, `QueuedIsClaimed` and `RunningIsHeld` except the thread that
has died. `creation_progress` has the timeouts; it cancels no running job only to stay small, and a
lost compare-and-swap is the step a timeout takes there too.
`AloneIsReadable` excepts a slot directory that is not complete yet. `ForkIsResolvable` excepts a
file that arrives when ordinary operations have no room left: the place kept for a resolution is kept
from writers, not from arrivals.
`SchedulerStops` and `WorkerEndsAlone` of `CreationJobs` lead to states other steps reach too.
In `CreationWorkflow` a scan reads everything twice; the program reads it twice more inside the
transaction that records a change, which could only refuse more. Files caught in the middle of an
edit do not match each other's hashes, and whoever loads them stops (`Abandon`).

Fairness. `StudioJobs!FairSpec`: strong fairness of the scheduler thread, a loop that wakes at least
every 100 ms and whose blocked `BEGIN IMMEDIATE` keeps retrying for five seconds while the
service's transactions come and go; weak fairness of the service's own calls once begun
(`RecoverEnd`, `CloseStore`, `Exit`). Nothing is assumed of workers, users or restarts, so a job is
settled even if its worker hangs. `Changesets!FairSpec`: weak fairness of the service thread inside
`apply` and `recover_journals`; nobody has to restart a dead service. `CreationJobs!FairSpec`: weak
fairness of the scheduler thread as a whole, a loop that wakes every 100 ms and runs until it ends or
dies; nothing is assumed of requests, recoveries, workers (their deadline is one of the thread's own
steps) or restarts. A timeout may come at any of its transactions outside a handler, and never has to.
`QueuedIsClaimed` of creation jobs supposes that recovery requests come to an end: a job that is
resumed keeps its sequence number, and jobs resumed for ever starve later ones. It excepts the dead
thread, without which it would fail in this run.

## 4. Where code and documents disagree

Shown by a run that expects a violation, and listed under `findings` with lines:

1. `revoke` never commits: the next `BEGIN IMMEDIATE` of the service fails and rolls the revocation
   back (`jobs_revoke_lost`).
2. When the journal write that says `files_committed` fails, `apply` reports committed files, and
   recovery takes them back (`changesets_lost_commit`).
3. A creation job's grant is given back before its row is ended, in two transactions. A crash in
   between leaves a running job without a reservation, and no later start opens the store
   (`creation_start_refused`).
4. A reconciliation that finds a report file missing does not compare the other reports with the
   current sources. If those changed as well, earlier reports stay under a status that names the new
   sources, and their phases show as complete until a second reconciliation drops them
   (`workflow_stale_prefix`). Completion and reopening refuse meanwhile, so nothing is built on them:
   `CompletionIsCoherent` holds.

Seen while modelling, reachable in the models (some with other constants), without a run of their own:

* `StudioJobs`: a scheduler write that waits longer than the busy timeout (`BusyTimeouts`) ends the
  thread, except inside the worker section. A worker survives a killed service, and the restarted
  scheduler may run the next job beside it (`RunningIsOwned` and `VisibleBytesStay` hold all the
  same). `game.package.extract` accepts a visible destination that it has just recovered from a
  journal of another package, where the two sibling operations compare.
* `Changesets`: a process that dies while it writes a stage file leaves a stage that
  `_rollback_journal` refuses; so does every later start. `apply` looks only for its own pending
  journal, so a second changeset can be applied over the provisional files of one whose rollback
  failed (`MaxFaults = 2`).
* `CreationJobs`: `finish_terminal` (`creation_jobs.py:5257`) reads the row and updates it only if
  its generation stands. A cancellation in between raises a conflict out of `run_once` and `_run`;
  the scheduler thread ends, nothing restarts it, and queued creation jobs wait as long as the
  service lives. A write transaction of the service that stays open for five seconds, such as the
  uncommitted `revoke` of item 1, does the same without a cancellation: the `BEGIN IMMEDIATE` of
  `claim_next` (`creation_jobs.py:5092`) and the transactions of `_finish_after_error` raise, and
  `_run` (12110-12117) has no handler. `QueuedIsClaimed` without its last disjunct fails in
  `creation_progress`. The class calls itself "One durable FIFO creation-job executor"
  (`creation_jobs.py:12010`).
  The delta between generations that recovery accepts is at most two, so an orphan
  whose job was canceled three times while it ran cannot be recovered. Where directories can be
  deleted, a refused resume of a job without publication comes after its files were deleted, and a
  crash between deleting them and the commit likewise leaves an attempt that no recovery accepts; a
  crash between a rollback's removal of a verified directory and its commit leaves a row that says
  verified and a destination that is absent. A journal or a stage whose identity the row was not
  told of (the crash came between the two) is never adopted: recovery refuses, as intended. A
  cancellation that arrives after `_finish_after_error` has read the flag ends as failed.
* `PersistenceSlots`: readers take no lock, and may see a generation that a power loss takes back. A
  writer that dies between creating `<slot>/` and `<slot>/v1/` (`persistence_io.py:941`, `layout =
  "slot"`) leaves a slot that every read refuses although `<slot>.json` is intact, until the next
  write; `docs/MULTI_GENRE_ARCHITECTURE.md:1271` says that older documents remain readable when no
  generation directory exists.
* `CreationWorkflow`: the service compares the source revision its client named and then loads the
  files again; an edit in between is not noticed (`creation_workspaces.py:1589`). Completion and
  reopening refuse such files, because the status does not name them, but a reconciliation takes
  them. A report that somebody altered, not deleted, keeps its content-addressed name occupied, so
  the same report can never be completed again.

## 5. What is proved

`StudioJobsProofs`, checked by TLAPS for every set of jobs, grants and sources and all bounds, under
`JobsAssumption` and `SourceNames` (identifiers are distinct from the special values; every job has
one source and one target; nothing is assumed finite):

| Theorem | States |
|---|---|
| `TypeCorrect` | `Spec => []TypeOK` |
| `RunningOwned` | `Spec => []RunningIsOwned` |
| `ReservationsAgree` | `Spec => []ReservationsMatchJobs` |
| `ClaimedInOrder` | `Spec => []FirstInFirstOut` |
| `VisibleBytesKept` | `Spec => VisibleBytesStay` |
| `ExecutedAtMostOnce` | `Spec => NoSecondExecution` |

The argument. None of the three invariants is inductive by itself. `IndInv` adds

* `SchedOK`: while the scheduler executes, `cur` is a managed job whose row says running; a
  scheduler about to record has an outcome; it is down exactly when the service is;
* `SvcOK`: a recovery in progress works on an orphaned external job, only ready grants have a
  revocation pending, and none has while a recovery runs or the service is down;
* `QueueOK`: row numbers are below `nextRow`, a claimed job is never queued again, and the waiting
  states belong to legacy rows.

`ReservationsMatchJobs` needs `SchedOK` (the job being settled is the one that holds the target),
`FirstInFirstOut` needs `QueueOK`, and `RunningIsOwned` needs both the program counter and the rule
that only one managed job is claimed. One lemma per group of actions (grants, requests, recovery,
scheduler moves, execution, worker, lifetime, outside world) shows that `IndInv` is kept; `NextInd`
joins them and `Invariance` is the temporal step. The action properties follow from `IndInv` and the
lemmas about `ExternalPublication`: no outcome of an operation changes a visible destination.

`StudioJobsOutcomesProofs` and `StudioJobsLeasesProofs`, on top of `IndInv`. `Orderly` says that the
service is not killed (`Crashes = FALSE`; restarts after an exit, revocations, lock timeouts, drift
and foreign bytes stay). `Compared(j)` is `Orderly` or an operation other than extraction:

| Theorem | States |
|---|---|
| `ReapedFirst` | `Orderly` implies `Spec => []ReapedBeforeRecorded` |
| `FreeIsClean` | `Orderly` implies `Spec => []FreeTargetIsClean` |
| `SuccessIsOwn` | if `Compared(j)` for every external job, `Spec => []SucceededIsPublished` |
| `LeasesKept` | `Orderly` implies `Spec => LeasesAreKept` |

The hypotheses are what the code needs, not what the prover needs. A worker that outlives a killed
service works on beside the restarted one, so its row is recorded over a live worker, and it may
publish at a destination whose job was rolled back in the meantime; an extraction then adopts what it
finds (section 4). Where operations compare, `SuccessIsOwn` holds across kills. The invariants:

* `WorkerOK`: the only worker there is, running or ended, is the one the scheduler waits for; every
  way out of the worker section reaps it. This gives `ReapedFirst`.
* `LeftInv` adds which workers touch a destination and how (`WorkerKindOK`); that a destination is
  clean if its grant is free, if its job has not touched it yet, and if failed or canceled is about
  to be recorded (`CleanOK`); and that a stage is of the holder's source and operation (`StageOK`),
  without which a roll-back by operation could succeed over a stage it does not look for.
* `SuccessOK` follows success from the worker that published or compared, to the scheduler that is
  about to record it, to the row. `RetiredOK` does the same for the journal: gone by then.

The refinement is proved step by step from their conjunction `LeaseInv`. `JobCreate` of an external
job is `Lease` (`CleanOK` makes the destination vacant); each step of a worker and
`ResolveForcedCancel` is `Work` of the holder; `Finish` is `Publish` (`SuccessOK`, `RetiredOK`),
`Withdraw` (`CleanOK`) or, for an orphan, no step; `RecoverEnd` is `Work`, `Publish` or `Withdraw`;
the cancellation of a queued job is `Withdraw`; `ForeignAppears` is `Appear`; everything else,
restart included, is no step. `WorkMaps`, `PublishMaps` and `WithdrawMaps` say when a step is one of
a lease, and one lemma per group of actions applies them.

`ChangesetsProofs`, under `ChangesetsAssumption` (the special values are no changesets, an order
lists each path once, every operation has a kind; any number of changesets, paths, faults, starts):

| Theorem | States |
|---|---|
| `TypeCorrect` | `Spec => []TypeOK` |
| `NoResidueLeft` | `Spec => []NoResidue` |
| `OriginalsKept` | `Spec => OriginalsAreKept` |

Three invariants, each on top of the one before:

* `PlaceInv`: `TypeOK`, and where the service stands in the record for each value of `pc`. Without
  it `at` may leave the naturals and `NextOp` the record.
* `ResidueInv`: `NoResidue`, and what makes it inductive. The journal in memory and the durable one
  while `apply` runs (`JournalOK`), which temporary files an operation can have (`FilesOK`), and
  which are gone by now (`CleanedOK`). The journal goes only when the clean-up or the roll-back has
  passed every operation; a fault in between leaves the journal, and one before the journal exists
  finds no file.
* `KeptInv`: the base has both names before it loses one (`moving`, `rb_unlink`), operations not yet
  reached have no rollback file, clean-up comes after a durable commit, and what was staged has an
  uncommitted journal until it is rolled back.

In each, one lemma per group of actions (forward, completion and roll-back, errors and restarts)
has one step per action.

`ChangesetsAtomicityProofs`, on top of `KeptInv` and under `SingleFault`: no I/O error hits the
journal write that commits, and either there is at most one error or none hits a roll-back.

| Theorem | States |
|---|---|
| `ApplyIsAtomic` | `Spec => AtomicApply`, the refinement of `AtomicChangesets` |
| `BaseReachable` | `Spec => []BaseIsReachable` |
| `RefusalExplained` | `Spec => []RefusalIsExplained` |

Without `SingleFault` atomicity fails, as section 4 says: an error in the committing write reports
files that recovery takes back, and a second error during a roll-back leaves the service running
beside a pending journal, over which another changeset is applied. Any number of changesets, paths,
edits, crashes and starts is covered. `ShapeInv` is `KeptInv` and

* `RowOK`, `PhaseOK`: which row, journal and program counter go together;
* `BaseOK`, `TargetOK`, `KeepOK`, `LeftoverOK`: what the visible name, the rollback name and the
  stage of each operation may hold, by the state of its journal and by whether it was edited;
* `ForwardOK`, `BackwardOK`, `InPlaceOK`: how far apply or a roll-back has got, operation by
  operation, in the order of the changeset.

The refinement shows a pending journal as recovery will settle it (`Settled`): back on the base, or
forward once it says `files_committed`. `SettledFacts` says what that is in each shape. The journal
write that commits is then the one step that applies a changeset (`WriteCommit` is `Apply`); `Create`
is `Stage`, the decisions and edits keep their names, and every link, unlink, roll-back, crash and
recovery is a step nobody sees (`HiddenStep`: `HiddenSettled`, `HiddenVerdict`). One lemma per action
or two shows that it keeps `ShapeInv`. On top of that, `SettledOK` says that an unedited path of a
pending changeset settles to its base unless another changeset was applied there, which gives
`BaseReachable`, and with `PendingOK` (recovery rolls back only what is pending) `RefusalExplained`.

`PersistenceSlotsProofs`, under `SlotsAssumption` (any machines, writers and payloads, any bound on
generations and arrivals):

| Theorem | States |
|---|---|
| `TypeCorrect` | `Spec => []TypeOK` |
| `SavesStay` | `Spec => []AcknowledgedSavesStay` |
| `StaysReadable` | `Spec => []AloneIsReadable` |
| `MigrationIsFaithful` | `Spec => []MigrationKeepsDocument` |
| `ForkHasRoom` | `Spec => []ForkIsResolvable` |

`IInv` adds to these that a call that is under way holds the lock and that files exist only in a
complete directory (`LockOK`), that slots are finite (`FilesOK`), and, for a slot no foreign file has
reached, that its files form one chain of which at most the newest is not durable, rooted in the
older document if there is one, and that what a writer is about to link fits on top of it
(`AloneOK`). The chain is what makes readability inductive: a power loss can take only the tip.
`ForkHasRoom` needs `RoomOK`: whatever is about to be linked has room, and the last place is taken
only by a generation over all tips, after which there is one tip. The lock admits one builder
(`BuildersCounted`), and what `Build` counted can only have shrunk, or grown by arrivals, which leave
the builder its place and one above it.

`CreationJobsProofs`, under `CreationAssumption` (finitely many jobs; any grants, any assignment of
jobs to grants, any number of starts):

| Theorem | States |
|---|---|
| `TypeCorrect` | `Spec => []TypeOK` |
| `NoJobForgotten` | `Spec => []RunningIsHeld` |
| `CancelHolds` | `Spec => []AcceptedCancelHolds` |
| `WorkersEnd` | `Spec => []NoWorkerSurvives` |
| `FilesOwned` | `Spec => []PrivateFilesAreOwned` |
| `SuccessIsPublication` | `Spec => []SucceededIsPublished` |
| `ResumesDecided` | `Spec => []ResumeIsDecided` |
| `VisibleAuthorized` | `Spec => []VisibleIsAuthorized` |
| `FreeIsClean` | `Spec => []FreeGrantIsClean` |

Three layers, each on top of the one before:

* control (`TypeOK`, `RunOK`, `RecOK`, `PhaseOK`, `AheadOK`, `RunningIsHeld`): what the scheduler and
  a recovery hold at each program counter, and which record of the journal a step may append;
  `AheadOK` is why the distance of generations never becomes negative;
* private (`CancelOK`, `WorkerOK`, `DropOK`, `OwnedOK`): a set flag is an accepted cancellation, a fed
  worker is registered, and a row is dropped only when its files are gone;
* published (`GrantOK`, `DestinationOK`, `HolderOK`, `RecoveredOK` and the four properties): which
  journal, stage and directory each authority of a grant allows, and in which states a job holds its
  grant. `FreeGrantIsClean` follows because a grant is freed only with no intent recorded and nothing
  visible, and `DestinationOK` then excludes journal and stage.

In each layer one lemma per group of actions has one step per action, and under it one per conjunct.

`CreationWorkflowProofs`, under `WorkflowAssumption` (any snapshots, artifacts, phases, operators and
bounds; special values are distinct):

| Theorem | States |
|---|---|
| `TypeCorrect` | `Spec => []TypeOK` |
| `HistoryAlwaysClosed` | `Spec => []HistoryIsClosed` |
| `StatusAlwaysAdvances` | `Spec => StatusAdvances` |
| `CompletionAlwaysCoherent` | `Spec => CompletionIsCoherent` |
| `AlwaysRecordedTogether` | `Spec => RecordedTogether` |

`Inv` adds to `TypeOK` and `HistoryIsClosed` that whoever is between the lock and its last write
holds the lock (`HoldersHoldLock`); that what a call is about to write follows from the status its
caller named (`PlansFollow`) and names only what is archived and published by then
(`WritesAreClosed`); and that a status a scan has read is the present one or one of a lower revision
(`ScansLookBack`), which is why reading it a second time unchanged puts the files read in between at
the same moment. `CutFollows` and `CompletedFollows` say what the two ways to build a status keep.

The invariants of `StudioJobsOutcomesProofs`, `StudioJobsLeasesProofs`, `ChangesetsAtomicityProofs`
and `RoomOK` were checked by TLC on the constants of the runs before they were proved.

Only model-checked: liveness, which rests on fairness and `ENABLED` and is beyond the prover:
`QueuedIsClaimed`, `RunningIsSettled` and `ShutdownCompletes` of jobs, the first two of creation
jobs, and `ServiceReturns` of changesets. Every other property of a passing run is a theorem. What
the theorems with a hypothesis leave out is described in section 4.

## 6. What is not modelled

Hashes, schemas, events, wording and size limits; legacy version 1 journals and jobs beyond their
rows; editors that ignore the lifecycle lock, whose window between check and unlink POSIX cannot
close; a world moved under a pending journal, which recovery refuses without changing anything.

Of the creation jobs, the operations other than `creation.compile` and `game.materialize`. They run
through the same coordinator, which is modelled; they differ in what they build and in how they
publish: asset bundles and evidence through `generic_assetpack.py` and `runtime_bundle.py`, a package
as one file (`note_file_publication_*`), processed assets inside the project, and provider calls. The
order of commits and the error path are the modelled ones. Of the recovery, `allow_requeue_retirement`
(runtime verification on Linux) is left out with its operation.

Details of the creation jobs that are left out: on Linux a retired journal and stage are renamed to
retained evidence that no row names, where the model has nothing left; a `StudioError` of
`binding_for_job` while an error is handled (11897-11904), which takes the path without an authority;
a failing write of the worker's registration after its end. In both job components the directory
above a destination keeps its identity. In `PersistenceSlots`, the bounds on parents, depth and bytes.

Of the creation workflow, what makes a report acceptable (reviewers, evidence, formats) is left to
the snapshot and the artifact it names; the two older workflows are not modelled. Of the creation
workspaces, creation, recovery and registration are not; a workspace starts as it was created.

Most of the repository is code from documents to documents: contracts, compilers, validators, asset
packs, the interpreter of rules, runtime assembly scripts and two user interfaces. A state model
would restate it line by line without saying more than it does, so the share of all lines that the
map covers stays small; what changes shared or durable state under concurrency or failure is what
the models are about. Components listed as `not_modelled` in `PROJECT.json` carry their reasons.

## 7. Plan

1. `HarnessRun`: run states, approvals used once, event log with torn tail and recovery.
2. `CreationWorkspaces`: creation, recovery and registration of a workspace with its journal and root
   grant, on top of the scans of `CreationWorkflow`. Registration records one scan that nothing
   confirms (`creation_workspaces.py:729`), unlike a refresh.
3. `CreationJobs`, continued: file publication of packages and the project publication of processed
   assets, as further `PublishStep`s; an abstract specification of a grant (reserved, published or
   free) that it refines.
4. `ArtifactLeases` under kills: a lease that a surviving worker may still write under, which would
   say what is left of the promise when `Orderly` does not hold.
5. `Authorizations`: consumption of an authenticated decision exactly once across a crash.

Runs stay few: one or two passing runs per component, and one for each disagreement that matters most.
