----------------------------- MODULE StudioJobs -----------------------------
(***************************************************************************)
(* The job service of World Forge Studio: the durable job and grant rows   *)
(* (studio/jobs.py, studio/external_grants.py), the one FIFO scheduler     *)
(* thread with its isolated worker process (studio/executor.py,            *)
(* studio/worker.py), job recovery, service shutdown, crash and restart    *)
(* (studio/storage.py, studio/service.py).                                 *)
(*                                                                         *)
(* Three kinds of actor interleave: the service thread, which serves one   *)
(* request at a time over its own database connection; the scheduler       *)
(* thread, which uses a second connection; and the worker processes, which *)
(* touch only the filesystem and outlive a service that is killed.         *)
(*                                                                         *)
(* An SQLite write transaction of the scheduler is one step.  The service  *)
(* can hold the write lock across steps in two ways, recover() and an      *)
(* uncommitted revoke(); BusyTimeouts says whether a scheduler write can   *)
(* then run into SQLite's five second busy timeout.                        *)
(***************************************************************************)
EXTENDS Naturals, ExternalPublication

CONSTANTS
    Jobs,             \* job identifiers
    NoJob,            \* a reservation that is NULL
    Targets,          \* target grants, one destination path each
    KindOf,           \* KindOf[j]: the record's format version
    OpOf,             \* OpOf[j]: operation of an external job
    SourceOf,         \* SourceOf[j]: source grant named in the job's input
    TargetOf,         \* TargetOf[j]: target grant named in the job's input
    Revocable,        \* grants the user may revoke
    DriftingSources,  \* sources whose path may be replaced
    ForeignTargets,   \* destinations at which something else may appear
    BusyTimeouts,     \* may a blocked scheduler write time out?
    Crashes,          \* may the service process be killed?
    MaxStarts         \* bound on service starts

Grants == Sources \cup Targets

ASSUME JobsAssumption ==
    /\ NoJob \notin Jobs
    /\ Sources \cap Targets = {}
    /\ KindOf \in [Jobs -> {"legacy", "managed", "external"}]
    /\ OpOf \in [Jobs -> Operations]
    /\ SourceOf \in [Jobs -> Sources]
    /\ TargetOf \in [Jobs -> Targets]
    /\ Revocable \subseteq Grants
    /\ DriftingSources \subseteq Sources
    /\ ForeignTargets \subseteq Targets
    /\ BusyTimeouts \in BOOLEAN
    /\ Crashes \in BOOLEAN
    /\ MaxStarts \in Nat

VARIABLES
    state,       \* jobs.state of each job ("absent": no row)
    rowid,       \* jobs.rowid: insertion order
    nextRow,     \* the rowid the next insert gets
    cancelReq,   \* jobs with a job.cancel_requested event
    claimed,     \* jobs the scheduler has claimed (their job.progress 0 event)
    grant,       \* committed external_grants.state
    reservedBy,  \* committed external_grants.reserved_job_id
    pending,     \* grants revoked in the service's uncommitted transaction
    svc,         \* service thread: serving, recovering, closing, closed, down
    recJob,      \* the job and
    recAction,   \* ... the action of the recover() call in progress
    sched,       \* program counter of the scheduler thread
    cur,         \* the job the scheduler executes
    outcome,     \* the state it is about to record with finish()
    lastTry,     \* finish() is called from an exception handler
    worker,      \* worker process of each job
    dest,        \* bytes visible at each destination
    stage,       \* journalled stage beside each destination
    drifted,     \* sources whose path was replaced
    starts       \* number of service starts

dbVars    == <<state, rowid, nextRow, cancelReq, claimed, grant, reservedBy>>
svcVars   == <<pending, svc, recJob, recAction, starts>>
schedVars == <<sched, cur, outcome, lastTry>>
fsVars    == <<dest, stage>>
vars      == <<dbVars, svcVars, schedVars, worker, fsVars, drifted>>

-----------------------------------------------------------------------------
(* Types and vocabulary *)

Terminal  == {"succeeded", "failed", "canceled"}
JobStates == Terminal \cup {"absent", "queued", "running", "awaiting_approval",
                            "awaiting_user", "paused", "orphaned"}

GrantStates == {"absent", "ready", "reserved", "recovery_required", "consumed", "revoked"}

SvcStates == {"serving", "recovering", "closing", "closed", "down"}

SchedStates == {"idle", "claimed", "prepared", "validated", "spawned", "polling",
                "resolving", "finishing", "stopped", "dead", "down"}

(* The steps of a worker process, then how it ended. *)
WorkerAlive  == {"started", "checked", "entering", "staging", "staged", "published"}
WorkerStates == WorkerAlive \cup {"none", "ok", "err"}

External == {j \in Jobs : KindOf[j] = "external"}
Managed  == {j \in Jobs : KindOf[j] # "legacy"}     \* JobManager._is_managed

TypeOK ==
    /\ state \in [Jobs -> JobStates]
    /\ rowid \in [Jobs -> Nat]
    /\ nextRow \in Nat
    /\ cancelReq \subseteq Jobs
    /\ claimed \subseteq Jobs
    /\ grant \in [Grants -> GrantStates]
    /\ reservedBy \in [Targets -> Jobs \cup {NoJob}]
    /\ pending \subseteq Grants
    /\ svc \in SvcStates
    /\ recJob \in Jobs \cup {NoJob}
    /\ recAction \in {"none", "resume", "rollback"}
    /\ sched \in SchedStates
    /\ cur \in Jobs \cup {NoJob}
    /\ outcome \in Terminal \cup {"none", "orphaned"}
    /\ lastTry \in BOOLEAN
    /\ worker \in [Jobs -> WorkerStates]
    /\ dest \in [Targets -> Content]
    /\ stage \in [Targets -> Stage]
    /\ drifted \subseteq Sources
    /\ starts \in Nat

FsOf(t) == [dest |-> dest[t], stage |-> stage[t]]

SetFs(t, f) == /\ dest'  = [dest  EXCEPT ![t] = f.dest]
               /\ stage' = [stage EXCEPT ![t] = f.stage]

(* The service's connection sees its own uncommitted revocations. *)
Seen(g) == IF g \in pending THEN "revoked" ELSE grant[g]

(* The service is inside a write transaction, so the scheduler's BEGIN      *)
(* IMMEDIATE has to wait.                                                   *)
WriteLocked == pending # {} \/ svc = "recovering"

Stopping == svc \in {"closing", "closed"}      \* JobScheduler._stop is set

(* A journalled operation holds the destination lock while it works.        *)
DestinationBusy(t) ==
    \E j \in External : /\ TargetOf[j] = t /\ Journaled(OpOf[j])
                        /\ worker[j] \in {"staging", "staged", "published"}

(* ExternalGrantManager.binding_for_job: the target is reserved by the job  *)
(* and the source path still has its identity.  The source's own state is   *)
(* not consulted.  It also compares the identity of the directory above the *)
(* target, which nobody moves here.                                         *)
BindingHolds(j) ==
    /\ reservedBy[TargetOf[j]] = j
    /\ grant[TargetOf[j]] \in {"reserved", "recovery_required"}
    /\ SourceOf[j] \notin drifted

Init ==
    /\ state = [j \in Jobs |-> IF KindOf[j] = "legacy" THEN "queued" ELSE "absent"]
    /\ rowid = [j \in Jobs |-> 0]
    /\ nextRow = 1
    /\ cancelReq = {}
    /\ claimed = {}
    /\ grant = [g \in Grants |-> "absent"]
    /\ reservedBy = [t \in Targets |-> NoJob]
    /\ pending = {}
    /\ svc = "serving"
    /\ recJob = NoJob
    /\ recAction = "none"
    /\ sched = "idle"
    /\ cur = NoJob
    /\ outcome = "none"
    /\ lastTry = FALSE
    /\ worker = [j \in Jobs |-> "none"]
    /\ dest = [t \in Targets |-> Absent]
    /\ stage = [t \in Targets |-> NoStage]
    /\ drifted = {}
    /\ starts = 1

-----------------------------------------------------------------------------
(* Requests served by the service thread (studio/service.py handlers)       *)

(* ExternalGrantManager.create.  A target leaf must be absent.              *)
GrantCreate(g) ==
    /\ svc = "serving" /\ pending = {}
    /\ grant[g] = "absent"
    /\ g \in Targets => dest[g] = Absent
    /\ grant' = [grant EXCEPT ![g] = "ready"]
    /\ UNCHANGED <<state, rowid, nextRow, cancelReq, claimed, reservedBy,
                   svcVars, schedVars, worker, fsVars, drifted>>

(* ExternalGrantManager.revoke: the UPDATE opens a transaction which the    *)
(* handler does not commit.                                                 *)
GrantRevoke(g) ==
    /\ svc = "serving"
    /\ g \in Revocable
    /\ Seen(g) = "ready"
    /\ pending' = pending \cup {g}
    /\ UNCHANGED <<dbVars, svc, recJob, recAction, starts, schedVars, worker,
                   fsVars, drifted>>

(* ExternalGrantManager.reserve_for_job *)
Reservable(j) ==
    /\ grant[SourceOf[j]] = "ready"
    /\ grant[TargetOf[j]] = "ready"
    /\ reservedBy[TargetOf[j]] = NoJob

(* JobManager.create: reservation, row and event in one transaction.        *)
JobCreate(j) ==
    /\ svc = "serving" /\ pending = {}
    /\ state[j] = "absent"
    /\ j \in External => Reservable(j)
    /\ state' = [state EXCEPT ![j] = "queued"]
    /\ rowid' = [rowid EXCEPT ![j] = nextRow]
    /\ nextRow' = nextRow + 1
    /\ IF j \in External
       THEN /\ grant' = [grant EXCEPT ![TargetOf[j]] = "reserved"]
            /\ reservedBy' = [reservedBy EXCEPT ![TargetOf[j]] = j]
       ELSE UNCHANGED <<grant, reservedBy>>
    /\ UNCHANGED <<cancelReq, claimed, svcVars, schedVars, worker, fsVars, drifted>>

(* release_target_for_job *)
ReleaseTarget(j) ==
    /\ grant' = [grant EXCEPT ![TargetOf[j]] = "ready"]
    /\ reservedBy' = [reservedBy EXCEPT ![TargetOf[j]] = NoJob]

(* JobManager.cancel: a running executable job only records the intent, any *)
(* other non-terminal job becomes canceled; an orphaned external job is     *)
(* refused and a terminal job is returned as it is.                         *)
JobCancel(j) ==
    /\ svc = "serving" /\ pending = {}
    /\ state[j] \notin Terminal \cup {"absent"}
    /\ ~(j \in External /\ state[j] = "orphaned")
    /\ cancelReq' = cancelReq \cup {j}
    /\ IF j \in Managed /\ state[j] = "running"
       THEN UNCHANGED <<state, grant, reservedBy>>
       ELSE /\ state' = [state EXCEPT ![j] = "canceled"]
            /\ IF j \in External THEN ReleaseTarget(j)
                                 ELSE UNCHANGED <<grant, reservedBy>>
    /\ UNCHANGED <<rowid, nextRow, claimed, svcVars, schedVars, worker, fsVars, drifted>>

(* _TRANSITIONS *)
Transitions ==
    [s \in JobStates |->
        CASE s = "queued" -> {"running", "canceled"}
          [] s = "running" -> Terminal \cup {"awaiting_approval", "awaiting_user", "paused"}
          [] s \in {"awaiting_approval", "awaiting_user"} ->
                {"queued", "running", "failed", "canceled"}
          [] s = "paused" -> {"queued", "running", "canceled"}
          [] s = "orphaned" -> {"queued", "failed", "canceled"}
          [] OTHER -> {}]

CommittedGrants == [g \in Grants |-> Seen(g)]

(* JobManager.transition: legacy rows only.  `with connection' commits,     *)
(* and with it whatever revocation was pending.                             *)
JobTransition(j) ==
    /\ svc = "serving"
    /\ j \notin Managed
    /\ \E s \in Transitions[state[j]] : state' = [state EXCEPT ![j] = s]
    /\ grant' = CommittedGrants
    /\ pending' = {}
    /\ UNCHANGED <<rowid, nextRow, cancelReq, claimed, reservedBy, svc, recJob,
                   recAction, starts, schedVars, worker, fsVars, drifted>>

(* Any other handler that writes under `with connection', a changeset       *)
(* approval for one, commits a pending revocation too.                      *)
OtherHandlerCommits ==
    /\ svc = "serving" /\ pending # {}
    /\ grant' = CommittedGrants
    /\ pending' = {}
    /\ UNCHANGED <<state, rowid, nextRow, cancelReq, claimed, reservedBy, svc, recJob,
                   recAction, starts, schedVars, worker, fsVars, drifted>>

(* create, cancel, recover and grant create start with BEGIN IMMEDIATE.     *)
(* With a revocation pending it is refused, and the handler's exception     *)
(* branch rolls the connection back.                                        *)
BeginRefused ==
    /\ svc = "serving" /\ pending # {}
    /\ pending' = {}
    /\ UNCHANGED <<dbVars, svc, recJob, recAction, starts, schedVars, worker,
                   fsVars, drifted>>

(* JobManager.recover, up to the external operation: the write transaction  *)
(* stays open until it has ended.                                           *)
RecoverBegin(j, a) ==
    /\ svc = "serving" /\ pending = {}
    /\ j \in External /\ state[j] = "orphaned"
    /\ BindingHolds(j)
    /\ svc' = "recovering"
    /\ recJob' = j
    /\ recAction' = a
    /\ UNCHANGED <<dbVars, pending, starts, schedVars, worker, fsVars, drifted>>

(* set_target_state_for_job / consume_source_for_job *)
ConsumeGrants(j) ==
    /\ grant' = [grant EXCEPT ![SourceOf[j]] = "consumed", ![TargetOf[j]] = "consumed"]
    /\ UNCHANGED reservedBy

(* ... and the rest of recover(): commit, or roll the rows back and leave   *)
(* the filesystem as the operation left it.                                 *)
RecoverEnd ==
    /\ svc = "recovering"
    /\ LET j == recJob
           t == TargetOf[j]
           outcomes == IF recAction = "resume"
                       THEN ExecuteOutcomes(OpOf[j], SourceOf[j], FsOf(t),
                                            DestinationBusy(t), SourceOf[j] \in drifted)
                       ELSE RollbackOutcomes(OpOf[j], FsOf(t), DestinationBusy(t))
       IN \E o \in outcomes :
            /\ SetFs(t, o.fs)
            /\ IF ~o.ok
               THEN UNCHANGED <<state, grant, reservedBy>>
               ELSE IF recAction = "resume"
                    THEN /\ state' = [state EXCEPT ![j] = "succeeded"]
                         /\ ConsumeGrants(j)
                    ELSE /\ state' = [state EXCEPT ![j] = "canceled"]
                         /\ ReleaseTarget(j)
    /\ svc' = "serving"
    /\ recJob' = NoJob
    /\ recAction' = "none"
    /\ UNCHANGED <<rowid, nextRow, cancelReq, claimed, pending, starts, schedVars,
                   worker, drifted>>

-----------------------------------------------------------------------------
(* The scheduler thread (studio/executor.py)                                *)

(* Mutant: any queued job, in no order. *)
AnyQueued(j) == j \in Managed /\ state[j] = "queued"

(* Mutant: only version 2 rows are eligible. *)
OldestReadOnly(j) ==
    /\ j \in Managed \ External /\ state[j] = "queued"
    /\ \A i \in Managed \ External : state[i] = "queued" => rowid[j] <= rowid[i]

(* The oldest queued executable row, by rowid. *)
Oldest(j) ==
    /\ j \in Managed /\ state[j] = "queued"
    /\ \A i \in Managed : state[i] = "queued" => rowid[j] <= rowid[i]

(* JobManager.claim_next, called from JobScheduler._run.                    *)
Claim(j) ==
    /\ sched = "idle" /\ ~Stopping /\ ~WriteLocked
    /\ \A i \in Managed : state[i] # "running"
    /\ Oldest(j)
    /\ state' = [state EXCEPT ![j] = "running"]
    /\ claimed' = claimed \cup {j}
    /\ sched' = "claimed"
    /\ cur' = j
    /\ UNCHANGED <<rowid, nextRow, cancelReq, grant, reservedBy, svcVars, outcome,
                   lastTry, worker, fsVars, drifted>>

(* The scheduler moves to pc `to' and leaves rows and filesystem alone.     *)
Goto(to) ==
    /\ sched' = to
    /\ UNCHANGED <<dbVars, svcVars, fsVars, drifted>>

(* It decides to record state s; final: from an exception handler.          *)
Conclude(s, final) ==
    /\ Goto("finishing")
    /\ outcome' = s
    /\ lastTry' = final
    /\ UNCHANGED cur

(* Mutant: the error code is recorded as the state. *)
InterruptedByCode(j) == IF j \in External THEN "orphaned" ELSE "timeout"

(* An interrupted external job keeps its evidence for explicit recovery; a  *)
(* read-only job simply fails.                                              *)
Interrupted(j) == IF j \in External THEN "orphaned" ELSE "failed"

(* _prepare_request.  The proofs of a read-only job's workspace files may   *)
(* fail for any reason; an external job needs its grant binding.            *)
Prepare ==
    /\ sched = "claimed"
    /\ \/ /\ cur \in External => BindingHolds(cur)
          /\ Goto("prepared") /\ UNCHANGED <<cur, outcome, lastTry>>
       \/ /\ cur \in External => ~BindingHolds(cur)
          /\ Conclude("failed", TRUE)
    /\ UNCHANGED worker

(* jobs.progress(job_id, 20, "validated") *)
Progress20 ==
    /\ sched = "prepared" /\ ~WriteLocked
    /\ Goto("validated")
    /\ UNCHANGED <<cur, outcome, lastTry, worker>>

(* _revalidate_request, the stop check, and Popen, which may itself fail.   *)
Spawn ==
    /\ sched = "validated"
    /\ \/ /\ cur \in External => ~BindingHolds(cur)
          /\ Conclude("failed", TRUE)
          /\ UNCHANGED worker
       \/ /\ cur \in External => BindingHolds(cur)
          /\ IF Stopping
             THEN Conclude("orphaned", TRUE) /\ UNCHANGED worker
             ELSE \/ Conclude(Interrupted(cur), TRUE) /\ UNCHANGED worker
                  \/ /\ Goto("spawned")
                     /\ worker' = [worker EXCEPT ![cur] = "started"]
                     /\ UNCHANGED <<cur, outcome, lastTry>>

(* jobs.progress(job_id, 50, "executing") *)
Progress50 ==
    /\ sched = "spawned" /\ ~WriteLocked
    /\ Goto("polling")
    /\ UNCHANGED <<cur, outcome, lastTry, worker>>

(* Mutant: the process is asked to end and not waited for. *)
ReapForgotten == UNCHANGED worker

(* _terminate_and_reap: the process tree is gone, its files stay.           *)
Reap == worker' = [worker EXCEPT ![cur] = "none"]

(* Cancellation was requested: an external job still has to look at what    *)
(* its worker left behind.                                                  *)
ConcludeCancel ==
    IF cur \in External
    THEN Goto("resolving") /\ UNCHANGED <<cur, outcome, lastTry>>
    ELSE Conclude("canceled", FALSE)

(* Mutant: the poll loop has no deadline. *)
PollWithoutDeadline ==
    /\ sched = "polling" /\ worker[cur] \in WorkerAlive
    /\ Stopping \/ cur \in cancelReq
    /\ Reap
    /\ IF Stopping THEN Conclude("orphaned", FALSE) ELSE ConcludeCancel

(* The poll loop while the worker runs: stop, then cancel, then deadline.   *)
PollRunning ==
    /\ sched = "polling" /\ worker[cur] \in WorkerAlive
    /\ Reap
    /\ IF Stopping
       THEN Conclude("orphaned", FALSE)
       ELSE IF cur \in cancelReq
            THEN ConcludeCancel
            ELSE Conclude(Interrupted(cur), FALSE)

(* The worker has exited.  Output overflow, a non-zero exit or anything on  *)
(* stderr is a dead worker whatever it achieved.                            *)
PollExited ==
    /\ sched = "polling" /\ worker[cur] \in {"ok", "err"}
    /\ Reap
    /\ IF Stopping
       THEN Conclude("orphaned", FALSE)
       ELSE IF cur \in cancelReq
            THEN ConcludeCancel
            ELSE \/ Conclude(Interrupted(cur), FALSE)
                 \/ worker[cur] = "ok" /\ Conclude("succeeded", FALSE)

(* JobManager.resolve_forced_cancel before its finish(): a visible target   *)
(* is verified and kept, otherwise the staged residue is rolled back; what  *)
(* cannot be proven is left for recovery.                                   *)
ResolveForcedCancel ==
    /\ sched = "resolving"
    /\ LET t == TargetOf[cur]
           busy == DestinationBusy(t)
           visible == dest[t] # Absent
           outcomes == IF visible
                       THEN ExecuteOutcomes(OpOf[cur], SourceOf[cur], FsOf(t), busy,
                                            SourceOf[cur] \in drifted)
                       ELSE RollbackOutcomes(OpOf[cur], FsOf(t), busy)
       IN IF ~BindingHolds(cur)
          THEN outcome' = "orphaned" /\ UNCHANGED fsVars
          ELSE \E o \in outcomes :
                 /\ SetFs(t, o.fs)
                 /\ outcome' = IF ~o.ok THEN "orphaned"
                               ELSE IF visible THEN "succeeded" ELSE "canceled"
    /\ sched' = "finishing"
    /\ lastTry' = FALSE
    /\ UNCHANGED <<dbVars, svcVars, cur, worker, drifted>>

(* What finish() does to the grants of an external job.                     *)
SettleGrants(j, s) ==
    CASE s = "succeeded" -> ConsumeGrants(j)
      [] s = "orphaned"  -> /\ grant' = [grant EXCEPT ![TargetOf[j]] = "recovery_required"]
                            /\ UNCHANGED reservedBy
      [] OTHER           -> ReleaseTarget(j)

(* JobManager.finish *)
Finish ==
    /\ sched = "finishing" /\ ~WriteLocked
    /\ state[cur] = "running"
    /\ state' = [state EXCEPT ![cur] = outcome]
    /\ IF cur \in External THEN SettleGrants(cur, outcome)
                           ELSE UNCHANGED <<grant, reservedBy>>
    /\ sched' = "idle"
    /\ cur' = NoJob
    /\ outcome' = "none"
    /\ lastTry' = FALSE
    /\ UNCHANGED <<rowid, nextRow, cancelReq, claimed, svcVars, worker, fsVars, drifted>>

(* A write that waited for the service's transaction raises "database is    *)
(* locked".  Inside the worker section it is caught once: the worker is     *)
(* reaped and the job recorded as interrupted.  Anywhere else it ends the   *)
(* thread, and nothing restarts it.                                         *)
SchedulerBusyTimeout ==
    /\ BusyTimeouts /\ WriteLocked
    /\ \/ /\ sched = "spawned" \/ (sched = "finishing" /\ ~lastTry)
          /\ Reap
          /\ Conclude(Interrupted(cur), TRUE)
       \/ /\ sched \in {"idle", "prepared"} \/ (sched = "finishing" /\ lastTry)
          /\ sched = "idle" => ~Stopping
          /\ Goto("dead")
          /\ UNCHANGED <<cur, outcome, lastTry, worker>>

(* Mutant: the loop drains its queue before it looks at the stop flag. *)
SchedulerStopsWhenDrained ==
    /\ sched = "idle" /\ Stopping
    /\ \A j \in Managed : state[j] # "queued"
    /\ Goto("stopped")
    /\ UNCHANGED <<cur, outcome, lastTry, worker>>

(* `while not self._stop.is_set()' *)
SchedulerStops ==
    /\ sched = "idle" /\ Stopping
    /\ Goto("stopped")
    /\ UNCHANGED <<cur, outcome, lastTry, worker>>

SchedulerStep ==
    \/ \E j \in Jobs : Claim(j)
    \/ Prepare \/ Progress20 \/ Spawn \/ Progress50
    \/ PollRunning \/ PollExited \/ ResolveForcedCancel \/ Finish
    \/ SchedulerBusyTimeout \/ SchedulerStops

-----------------------------------------------------------------------------
(* Worker processes (studio/worker.py, studio/external_jobs.py)             *)

WorkerGoes(j, to) == worker' = [worker EXCEPT ![j] = to]

workerFrame == <<dbVars, svcVars, schedVars, drifted>>

(* worker._execute_v1: read-only work, nothing outside the process changes. *)
WorkerReadOnly(j) ==
    /\ j \notin External /\ worker[j] = "started"
    /\ WorkerGoes(j, "ok")
    /\ UNCHANGED <<workerFrame, fsVars>>

(* worker._execute_v2 repeats the proofs and requires an absent target.     *)
WorkerPreflight(j) ==
    /\ j \in External /\ worker[j] = "started"
    /\ SourceOf[j] \notin drifted /\ dest[TargetOf[j]] = Absent
    /\ WorkerGoes(j, "checked")
    /\ UNCHANGED <<workerFrame, fsVars>>

(* execute_external_operation: source proof, then `target.exists()'.        *)
WorkerExecute(j) ==
    /\ worker[j] = "checked"
    /\ SourceOf[j] \notin drifted
    /\ LET t == TargetOf[j]
           o == ExecuteVisible(OpOf[j], SourceOf[j], FsOf(t))
       IN IF dest[t] = Absent
          THEN WorkerGoes(j, "entering") /\ UNCHANGED fsVars
          ELSE /\ ~(Journaled(OpOf[j]) /\ DestinationBusy(t))
               /\ WorkerGoes(j, IF o.ok THEN "ok" ELSE "err")
               /\ SetFs(t, o.fs)
    /\ UNCHANGED workerFrame

(* package_game builds its archive in memory; materialize_game and          *)
(* extract_game_package take the destination lock, deal with a journal an   *)
(* earlier attempt left, and start a stage of their own.                    *)
WorkerEnter(j) ==
    /\ worker[j] = "entering"
    /\ LET t == TargetOf[j]
           s == SourceOf[j]
           o == EnterWithJournal(OpOf[j], s, FsOf(t))
       IN IF ~Journaled(OpOf[j])
          THEN WorkerGoes(j, "staged") /\ UNCHANGED fsVars
          ELSE /\ ~DestinationBusy(t)
               /\ IF stage[t] # NoStage
                  THEN WorkerGoes(j, IF o.ok THEN "ok" ELSE "err") /\ SetFs(t, o.fs)
                  ELSE /\ dest[t] = Absent
                       /\ WorkerGoes(j, "staging")
                       /\ SetFs(t, [dest |-> Absent, stage |-> [src |-> s, full |-> FALSE]])
    /\ UNCHANGED workerFrame

(* Every file is written and verified, and the journal says "ready".        *)
WorkerStaged(j) ==
    /\ worker[j] = "staging"
    /\ WorkerGoes(j, "staged")
    /\ stage' = [stage EXCEPT ![TargetOf[j]].full = TRUE]
    /\ UNCHANGED <<workerFrame, dest>>

(* Mutant: a plain rename, which replaces what is there. *)
WorkerReplaces(j) ==
    /\ worker[j] = "staged"
    /\ WorkerGoes(j, "published")
    /\ dest' = [dest EXCEPT ![TargetOf[j]] = SourceOf[j]]
    /\ UNCHANGED <<workerFrame, stage>>

(* publish_directory_noreplace / publish_bytes_noreplace                    *)
WorkerPublish(j) ==
    /\ worker[j] = "staged"
    /\ dest[TargetOf[j]] = Absent
    /\ WorkerGoes(j, "published")
    /\ dest' = [dest EXCEPT ![TargetOf[j]] = SourceOf[j]]
    /\ UNCHANGED <<workerFrame, stage>>

(* The journal is retired, and the proofs are repeated after the work.      *)
WorkerFinish(j) ==
    /\ worker[j] = "published"
    /\ WorkerGoes(j, IF SourceOf[j] \in drifted THEN "err" ELSE "ok")
    /\ stage' = [stage EXCEPT ![TargetOf[j]] =
                    IF Journaled(OpOf[j]) THEN NoStage ELSE @]
    /\ UNCHANGED <<workerFrame, dest>>

(* A refused check, an I/O error, a busy lock, an occupied destination or   *)
(* the death of the process: whatever was on disk stays there.              *)
WorkerFail(j) ==
    /\ worker[j] \in WorkerAlive
    /\ WorkerGoes(j, "err")
    /\ UNCHANGED <<workerFrame, fsVars>>

WorkerStep(j) ==
    \/ WorkerReadOnly(j) \/ WorkerPreflight(j) \/ WorkerExecute(j) \/ WorkerEnter(j)
    \/ WorkerStaged(j) \/ WorkerPublish(j) \/ WorkerFinish(j) \/ WorkerFail(j)

-----------------------------------------------------------------------------
(* Service lifetime (studio/service.py, studio/storage.py)                  *)

(* The input stream ended: _close_runtime sets the scheduler's stop flag.   *)
Shutdown ==
    /\ svc = "serving"
    /\ svc' = "closing"
    /\ UNCHANGED <<dbVars, pending, recJob, recAction, starts, schedVars, worker,
                   fsVars, drifted>>

(* The scheduler was joined, or ten seconds passed; StudioStore.close drops *)
(* an uncommitted transaction.                                              *)
CloseStore ==
    /\ svc = "closing"
    /\ svc' = "closed"
    /\ pending' = {}
    /\ UNCHANGED <<dbVars, recJob, recAction, starts, schedVars, worker, fsVars, drifted>>

ProcessGone ==
    /\ svc' = "down" /\ sched' = "down"
    /\ pending' = {} /\ recJob' = NoJob /\ recAction' = "none"
    /\ cur' = NoJob /\ outcome' = "none" /\ lastTry' = FALSE
    /\ worker' = [j \in Jobs |-> IF worker[j] \in WorkerAlive THEN worker[j] ELSE "none"]
    /\ UNCHANGED <<dbVars, starts, fsVars, drifted>>

(* The interpreter exits once the scheduler thread has ended.               *)
Exit == svc = "closed" /\ sched \in {"stopped", "dead"} /\ ProcessGone

(* The process is killed.  Its workers run in sessions of their own and go  *)
(* on; what they print is lost.                                             *)
Crash == Crashes /\ svc # "down" /\ ProcessGone

(* Mutant: external jobs are overlooked. *)
InterruptedReadOnly(j) == j \notin External /\ state[j] = "running"

(* _orphan_running_jobs: the rows it selects, of every version, *)
InterruptedByRestart(j) == state[j] = "running"

(* Mutant: an interrupted job is queued again. *)
RequeueOnStart(j) == IF InterruptedByRestart(j) THEN "queued" ELSE state[j]

(* ... the state it gives them, *)
StateOnStart(j) == IF InterruptedByRestart(j) THEN "orphaned" ELSE state[j]

(* Mutant: the grant row is not written. *)
GrantUntouchedOnStart(g) == grant[g]

(* ... and the state of the grant an external one had reserved. *)
GrantOnStart(g) ==
    IF \E j \in External : InterruptedByRestart(j) /\ TargetOf[j] = g
    THEN "recovery_required" ELSE grant[g]

(* StudioStore.__init__ in primary mode, _orphan_running_jobs, and a fresh  *)
(* scheduler.                                                               *)
Start ==
    /\ svc = "down" /\ starts < MaxStarts
    /\ starts' = starts + 1
    /\ state' = [j \in Jobs |-> StateOnStart(j)]
    /\ grant' = [g \in Grants |-> GrantOnStart(g)]
    /\ svc' = "serving" /\ sched' = "idle"
    /\ UNCHANGED <<rowid, nextRow, cancelReq, claimed, reservedBy, pending, recJob,
                   recAction, cur, outcome, lastTry, worker, fsVars, drifted>>

(* The world outside Studio                                                 *)
SourceDrifts(s) ==
    /\ s \in DriftingSources \ drifted
    /\ drifted' = drifted \cup {s}
    /\ UNCHANGED <<dbVars, svcVars, schedVars, worker, fsVars>>

ForeignAppears(t) ==
    /\ t \in ForeignTargets /\ dest[t] = Absent
    /\ dest' = [dest EXCEPT ![t] = Foreign]
    /\ UNCHANGED <<dbVars, svcVars, schedVars, worker, stage, drifted>>

Next ==
    \/ \E g \in Grants : GrantCreate(g) \/ GrantRevoke(g)
    \/ \E j \in Jobs : JobCreate(j) \/ JobCancel(j) \/ JobTransition(j)
    \/ \E j \in Jobs, a \in {"resume", "rollback"} : RecoverBegin(j, a)
    \/ RecoverEnd \/ OtherHandlerCommits \/ BeginRefused
    \/ SchedulerStep
    \/ \E j \in Jobs : WorkerStep(j)
    \/ Shutdown \/ CloseStore \/ Exit \/ Crash \/ Start
    \/ \E s \in Sources : SourceDrifts(s)
    \/ \E t \in Targets : ForeignAppears(t)

Spec == Init /\ [][Next]_vars

(***************************************************************************)
(* Fairness: the scheduler thread and the service's own calls do not stop  *)
(* running while the process lives, and a started shutdown completes.      *)
(* Strong for the scheduler: a write that finds the database locked keeps  *)
(* retrying, and gets its turn between the service's transactions.         *)
(* Nothing is assumed of workers, users or restarts.                       *)
(***************************************************************************)
FairSpec == /\ Spec
            /\ SF_vars(SchedulerStep)
            /\ WF_vars(RecoverEnd) /\ WF_vars(CloseStore) /\ WF_vars(Exit)

-----------------------------------------------------------------------------
(* External jobs as ArtifactLeases sees them: held from creation to a       *)
(* terminal state, whatever interrupts them.                                *)
VerdictOf(s) ==
    CASE s = "absent" -> "none"
      [] s = "succeeded" -> "published"
      [] s \in {"failed", "canceled"} -> "withdrawn"
      [] OTHER -> "open"

Verdict == [j \in External |-> VerdictOf(state[j])]

(* Destinations with a journalled stage beside them. *)
Residue == {t \in Targets : stage[t] # NoStage}

Leases == INSTANCE ArtifactLeases WITH
              Jobs <- External,
              Destinations <- Targets,
              DestinationOf <- TargetOf,
              ArtifactOf <- SourceOf,
              Nobody <- NoJob,
              Nothing <- Absent,
              Strange <- Foreign,
              holder <- reservedBy,
              bytes <- dest,
              residue <- Residue,
              verdict <- Verdict

-----------------------------------------------------------------------------
(* Properties *)

Executing == {"claimed", "prepared", "validated", "spawned", "polling", "resolving",
              "finishing"}

(***************************************************************************)
(* A job row says "running" only while the scheduler thread executes that  *)
(* very job, unless the thread or the whole process is gone: claim_next,   *)
(* every exit of _execute, and _orphan_running_jobs together leave no job  *)
(* running that nobody runs, and never two.                                *)
(***************************************************************************)
RunningIsOwned ==
    \A j \in Managed : state[j] = "running" =>
        \/ svc = "down" \/ sched = "dead"
        \/ sched \in Executing /\ cur = j

(***************************************************************************)
(* Grant rows and job rows agree: a queued or running external job holds   *)
(* its target reserved, an orphaned one holds it for recovery, a succeeded *)
(* one has consumed it; and a target held by nobody is not marked held.    *)
(* create, cancel, finish, recover and restart each write both tables.     *)
(***************************************************************************)
ReservationsMatchJobs ==
    /\ \A j \in External :
        LET t == TargetOf[j] IN
        /\ state[j] \in {"queued", "running"} => grant[t] = "reserved" /\ reservedBy[t] = j
        /\ state[j] = "orphaned" => grant[t] = "recovery_required" /\ reservedBy[t] = j
        /\ state[j] = "succeeded" => grant[t] = "consumed" /\ reservedBy[t] = j
    /\ \A t \in Targets :
        /\ reservedBy[t] # NoJob => /\ reservedBy[t] \in External
                                    /\ TargetOf[reservedBy[t]] = t
                                    /\ state[reservedBy[t]] \in
                                          {"queued", "running", "orphaned", "succeeded"}
        /\ reservedBy[t] = NoJob => grant[t] \in {"absent", "ready", "revoked"}

(***************************************************************************)
(* An external job that is recorded as succeeded left exactly the artifact *)
(* derived from its own source at its destination: the result of a worker, *)
(* of a forced cancellation or of an explicit resume is never reported for *)
(* bytes of something else.                                                *)
(***************************************************************************)
SucceededIsPublished ==
    \A j \in External : state[j] = "succeeded" => dest[TargetOf[j]] = SourceOf[j]

(***************************************************************************)
(* A target grant that is free again carries nothing of an earlier job: no *)
(* journalled stage, no published bytes.  Cancellation, failure and        *)
(* rollback release the grant only after the destination was cleaned.      *)
(***************************************************************************)
FreeTargetIsClean ==
    \A t \in Targets : grant[t] = "ready" =>
        stage[t] = NoStage /\ dest[t] \in {Absent, Foreign}

(***************************************************************************)
(* In lifetimes without a kill, destinations behave as ArtifactLeases: the *)
(* grants are the leases, from create() to finish(), recover() or          *)
(* cancel(), and a restart in between changes neither holder nor verdict.  *)
(***************************************************************************)
LeasesAreKept == Leases!Spec

(***************************************************************************)
(* Whatever state is recorded for a job, its process tree was terminated   *)
(* and reaped first (_terminate_and_reap before finish).                   *)
(***************************************************************************)
ReapedBeforeRecorded ==
    \A j \in Jobs : state[j] # "running" => worker[j] \notin WorkerAlive

(***************************************************************************)
(* FIFO: while a job waits in the queue, no job created after it has ever  *)
(* been claimed.                                                           *)
(***************************************************************************)
FirstInFirstOut ==
    \A i, j \in Managed :
        state[i] = "queued" /\ state[j] # "absent" /\ rowid[i] < rowid[j] => j \notin claimed

(***************************************************************************)
(* A finished job never changes again, and an interrupted one is never     *)
(* retried: no step, restart included, makes a claimed job run a second    *)
(* time, and an orphan leaves that state only as canceled or succeeded.    *)
(***************************************************************************)
NoSecondExecution ==
    [][\A j \in Managed :
         /\ state[j] \in Terminal => state'[j] = state[j]
         /\ state[j] = "orphaned" => state'[j] \in {"orphaned", "canceled", "succeeded"}
         /\ j \in claimed /\ state[j] # "running" => state'[j] # "running"]_vars

(***************************************************************************)
(* Bytes visible at a destination are never replaced or removed, whoever   *)
(* wrote them: not by a publishing worker that lost a race, not by a       *)
(* rollback, not by a recovery.                                            *)
(***************************************************************************)
VisibleBytesStay ==
    [][\A t \in Targets : dest[t] # Absent => dest'[t] = dest[t]]_vars

(***************************************************************************)
(* A queued job is eventually claimed or canceled while the service lives. *)
(***************************************************************************)
QueuedIsClaimed ==
    \A j \in Managed : state[j] = "queued" ~> (state[j] # "queued" \/ svc = "down")

(***************************************************************************)
(* A running job does not run forever: a hung worker, a cancellation and a *)
(* shutdown all end in a recorded state, even if the worker never moves.   *)
(***************************************************************************)
RunningIsSettled ==
    \A j \in Managed : state[j] = "running" ~> (state[j] # "running" \/ svc = "down")

(***************************************************************************)
(* A shutdown ends: the scheduler never keeps the closing process alive.   *)
(***************************************************************************)
ShutdownCompletes == svc = "closing" ~> svc = "down"

(***************************************************************************)
(* What the documentation says and the code does not keep (see README).    *)
(***************************************************************************)

(* A revocation the service has acknowledged stays in force: it is still    *)
(* pending or it is committed.                                              *)
RevocationSticks ==
    [][\A g \in pending : g \in pending' \/ grant'[g] = "revoked"]_vars

=============================================================================
