---------------------------- MODULE CreationJobs ----------------------------
(***************************************************************************)
(* The creation jobs of World Forge Studio (studio/creation_jobs.py), the  *)
(* output grants they publish to (studio/creation_output_grants.py), the   *)
(* isolated worker (studio/creation_executor.py), restart                  *)
(* (studio/storage.py), and the publication of a standalone game           *)
(* (worldforge/standalone_game.py), for the operations creation.compile,   *)
(* which publishes nothing, and game.materialize, which publishes a        *)
(* directory named by a grant.                                             *)
(*                                                                         *)
(* Two records must agree after any crash: the journal a publication keeps *)
(* beside its destination, and the authority the grant's row holds         *)
(* (recovery_json).  A row never adopts a journal or a stage it was not    *)
(* told about.                                                             *)
(*                                                                         *)
(* The scheduler thread and the service thread each own a database         *)
(* connection; a database transaction is one step, a filesystem step       *)
(* between two transactions is a step of its own.                          *)
(***************************************************************************)
EXTENDS Naturals, FiniteSets

CONSTANTS
    Jobs,         \* creation jobs
    NoJob,        \* reserved_job_id IS NULL, or nobody's directory
    Publishing,   \* the jobs whose operation is game.materialize
    Grants,       \* output grants, one destination each
    GrantOf,      \* GrantOf[j]: the grant a publishing job names
    Platforms,    \* the platforms considered
    Cancelable,   \* the jobs somebody may cancel while they run
    MaxStarts     \* bound on service starts

ASSUME CreationAssumption ==
    /\ IsFiniteSet(Jobs)
    /\ NoJob \notin Jobs
    /\ Publishing \subseteq Jobs
    /\ GrantOf \in [Publishing -> Grants]
    /\ Platforms \subseteq {"linux", "windows"} /\ Platforms # {}
    /\ Cancelable \subseteq Jobs
    /\ MaxStarts \in Nat

VARIABLES
    platform,   \* sys.platform
    service,    \* up, stopping, down, or refused: the store cannot be opened
    starts,     \* number of service starts
    job,        \* creation_jobs rows: state, progress, cancel_requested, sequence
    ahead,      \* by how much a row's generation exceeds its journal's last
    accepted,   \* running jobs whose cancellation was accepted
    attempt,    \* creation_job_attempts.phase ("none": no row)
    files,      \* private stage directory and journal of each attempt
    worker,     \* worker process of each job
    grant,      \* creation_output_grants rows: state, reserved_job_id, authority
    out,        \* what is at and beside each destination
    run,        \* the scheduler thread
    rec         \* the recover() request of the service thread

rowVars == <<job, ahead, accepted, attempt, grant>>
vars == <<platform, service, starts, rowVars, files, worker, out, run, rec>>

-----------------------------------------------------------------------------
(* Vocabulary *)

States == {"absent", "queued", "running", "succeeded", "failed", "canceled", "orphaned"}

Steps == {"none", "reserved", "worker_started", "output_published",
          "registry_committing", "cleanup_pending", "committed"}

(* "bound" is the phase 'reserving' once the stage's identity is recorded.  *)
Phases == {"none", "reserving", "bound", "reserved", "worker_started",
           "output_published", "registry_committing", "cleanup_pending"}

(* _JOURNAL_PHASES: the last record of a private journal                    *)
Journals == {"none", "reserved", "worker_started", "output_published",
             "registry_committing", "committed", "cleanup_pending"}

Follows(p) == CASE p = "reserved"         -> "worker_started"
                [] p = "worker_started"   -> "output_published"
                [] p = "output_published" -> "registry_committing"
                [] OTHER                  -> "committed"

(* recovery_json.phase, without its prefix "publication_"                   *)
Authorities == {"none", "reserved", "started", "allocated", "staged", "verified", "resetting"}
Held        == {"reserved", "recovery_required"}

RunPcs == {"idle", "claimed", "attempted", "staged", "bound", "journaled",
           "ready", "progressed", "appended", "spawn", "register", "feed",
           "wait", "begin", "materialize", "commit", "committed", "recorded",
           "retire", "retired", "complete", "error", "clean", "cleaned",
           "release", "finish", "write", "dead"}
RecPcs == {"idle", "settle", "unwind", "clean", "cleaned", "commit"}

JobRows     == [Jobs -> [state : States, step : Steps, cancel : BOOLEAN, seq : Nat]]
AttemptRows == [Jobs -> [phase : Phases, worker : BOOLEAN]]
GrantRows   == [Grants -> [state : {"ready", "revoked", "published"} \cup Held,
                           by : Jobs \cup {NoJob}, auth : Authorities]]
PrivateFiles == [Jobs -> [stage : BOOLEAN, journal : Journals]]
Destinations == [Grants -> [journal : {"none", "intent", "copying", "ready"},
                            stage : {"none", "partial", "full"},
                            target : Jobs \cup {NoJob}]]

TypeOK ==
    /\ platform \in Platforms
    /\ service \in {"up", "stopping", "down", "refused"}
    /\ starts \in Nat
    /\ job \in JobRows
    /\ ahead \in [Jobs -> 0..4]
    /\ accepted \subseteq Jobs
    /\ attempt \in AttemptRows
    /\ files \in PrivateFiles
    /\ worker \in [Jobs -> {"none", "waiting", "fed"}]
    /\ grant \in GrantRows
    /\ out \in Destinations
    /\ run \in [pc : RunPcs, job : Jobs \cup {NoJob}, raced : BOOLEAN, drop : BOOLEAN,
                end : {"none", "failed", "canceled", "orphaned"}]
    /\ rec \in [pc : RecPcs, job : Jobs \cup {NoJob},
                mode : {"none", "resume", "rollback", "cleanup"}]

NoAttempt == [phase |-> "none", worker |-> FALSE]
NoFiles   == [stage |-> FALSE, journal |-> "none"]
IdleRun   == [pc |-> "idle", job |-> NoJob, raced |-> FALSE, drop |-> FALSE, end |-> "none"]
IdleRec   == [pc |-> "idle", job |-> NoJob, mode |-> "none"]
FreeGrant == [state |-> "ready", by |-> NoJob, auth |-> "none"]

(* The generation of a row grows by one; what matters is the distance to    *)
(* the last journal record, and only up to 4.                               *)
Bump(n) == IF n < 4 THEN n + 1 ELSE 4
Behind(j) == IF files[j].journal = "none" THEN 0 ELSE Bump(ahead[j])

Windows == platform = "windows"     \* a verified directory can be deleted

Serving == service = "up" /\ rec.pc = "idle"

(* _recensus(allow_visible=False), release_for_job, rollback_for_job        *)
Absent(g) == out[g].target = NoJob

(* Mutant: no census of the destination. *)
ReleasableVisible(j) == /\ grant[GrantOf[j]].by = j
                        /\ grant[GrantOf[j]].state = "reserved"

Releasable(j) == /\ grant[GrantOf[j]].by = j
                 /\ grant[GrantOf[j]].state = "reserved"
                 /\ Absent(GrantOf[j])

Free(j) == IF j \in Publishing THEN [grant EXCEPT ![GrantOf[j]] = FreeGrant] ELSE grant

(* CreationJobCoordinator._recover_cleanup for a job that did not succeed:  *)
(* Linux keeps what it finds, and where an entry can be deleted both the    *)
(* stage and a journal that agrees with the rows must still be there.       *)
Cleanable(j) ==
    LET p == attempt[j].phase
        f == files[j]
    IN \/ /\ p \in {"reserving", "bound"}
          /\ Windows \/ f = NoFiles
       \/ /\ p \in Phases \ {"none", "reserving", "bound"}
          /\ Windows
          /\ f.stage
          /\ f.journal \in {p, Follows(p)}
          /\ ahead[j] \in (IF job[j].state = "running" THEN {0, 1, 2} ELSE {1, 2})

Init ==
    /\ platform \in Platforms
    /\ service = "up"
    /\ starts = 1
    /\ job = [j \in Jobs |-> [state |-> "absent", step |-> "none",
                              cancel |-> FALSE, seq |-> 0]]
    /\ ahead = [j \in Jobs |-> 0]
    /\ accepted = {}
    /\ attempt = [j \in Jobs |-> NoAttempt]
    /\ files = [j \in Jobs |-> NoFiles]
    /\ worker = [j \in Jobs |-> "none"]
    /\ grant = [g \in Grants |-> FreeGrant]
    /\ out = [g \in Grants |-> [journal |-> "none", stage |-> "none",
                                target |-> NoJob]]
    /\ run = IdleRun
    /\ rec = IdleRec

-----------------------------------------------------------------------------
(* Requests of the service thread (CreationJobManager, OutputGrantManager)  *)

Create(j) ==
    /\ Serving
    /\ job[j].state = "absent"
    /\ j \in Publishing => grant[GrantOf[j]].state = "ready" /\ Absent(GrantOf[j])
    /\ job' = [job EXCEPT ![j].state = "queued",
                          ![j].seq = 1 + Cardinality({k \in Jobs : job[k].state # "absent"})]
    /\ grant' = IF j \in Publishing
                THEN [grant EXCEPT ![GrantOf[j]].state = "reserved", ![GrantOf[j]].by = j]
                ELSE grant
    /\ UNCHANGED <<platform, service, starts, ahead, accepted, attempt, files,
                   worker, out, run, rec>>

(* Canceling a queued job and giving its grant back is one transaction.     *)
CancelQueued(j) ==
    /\ Serving
    /\ job[j].state = "queued"
    /\ j \in Publishing => Releasable(j)
    /\ job' = [job EXCEPT ![j].state = "canceled", ![j].step = "none"]
    /\ grant' = Free(j)
    /\ UNCHANGED <<platform, service, starts, ahead, accepted, attempt, files,
                   worker, out, run, rec>>

(* The flag and the generation change; a transition the scheduler is about  *)
(* to write from the row it read has lost.                                  *)
CancelRunning(j) ==
    /\ Serving
    /\ j \in Cancelable
    /\ job[j].state = "running"
    /\ job' = [job EXCEPT ![j].cancel = TRUE]
    /\ ahead' = [ahead EXCEPT ![j] = Bump(@)]
    /\ accepted' = accepted \cup {j}
    /\ run' = IF run.job = j /\ run.pc = "write" THEN [run EXCEPT !.raced = TRUE] ELSE run
    /\ UNCHANGED <<platform, service, starts, attempt, grant, files, worker, out, rec>>

Revoke(g) ==
    /\ Serving
    /\ grant[g].state = "ready"
    /\ grant' = [grant EXCEPT ![g].state = "revoked"]
    /\ UNCHANGED <<platform, service, starts, job, ahead, accepted, attempt, files,
                   worker, out, run, rec>>

-----------------------------------------------------------------------------
(* The scheduler thread: claim_next, then _execute step by step             *)

Goto(pc) == run' = [run EXCEPT !.pc = pc]

(* Mutant: an orphan holds its turn. *)
ClaimInTurn(j) ==
    /\ service = "up"
    /\ run.pc = "idle"
    /\ job[j].state = "queued"
    /\ \A k \in Jobs : job[k].state \in {"queued", "orphaned"} => job[j].seq <= job[k].seq
    /\ job' = [job EXCEPT ![j].state = "running", ![j].step = "reserved", ![j].cancel = FALSE]
    /\ ahead' = [ahead EXCEPT ![j] = 0]
    /\ accepted' = accepted \ {j}
    /\ run' = [IdleRun EXCEPT !.pc = "claimed", !.job = j]
    /\ UNCHANGED <<platform, service, starts, attempt, grant, files, worker, out, rec>>

Claim(j) ==
    /\ service = "up"
    /\ run.pc = "idle"
    /\ job[j].state = "queued"
    /\ \A k \in Jobs : job[k].state = "queued" => job[j].seq <= job[k].seq
    /\ job' = [job EXCEPT ![j].state = "running", ![j].step = "reserved", ![j].cancel = FALSE]
    /\ ahead' = [ahead EXCEPT ![j] = 0]
    /\ accepted' = accepted \ {j}
    /\ run' = [IdleRun EXCEPT !.pc = "claimed", !.job = j]
    /\ UNCHANGED <<platform, service, starts, attempt, grant, files, worker, out, rec>>

(* BEGIN IMMEDIATE waits for a write transaction of another connection      *)
(* until the busy timeout and then raises: run_once and _run have no        *)
(* handler, and the thread ends.  The queue may well be empty.              *)
ClaimTimesOut ==
    /\ service = "up"
    /\ run.pc = "idle"
    /\ Goto("dead")
    /\ UNCHANGED <<platform, service, starts, rowVars, files, worker, out, rec>>

(* The row comes first, so that whatever a crash leaves can be found.       *)
ReserveAttempt(j) ==
    /\ run.pc = "claimed"
    /\ attempt[j] = NoAttempt
    /\ attempt' = [attempt EXCEPT ![j].phase = "reserving"]
    /\ Goto("attempted")
    /\ UNCHANGED <<job, ahead, accepted, grant, files, worker, out>>

CreateStage(j) ==
    /\ run.pc = "attempted"
    /\ files' = [files EXCEPT ![j].stage = TRUE]
    /\ Goto("staged")
    /\ UNCHANGED <<rowVars, worker, out>>

BindStage(j) ==
    /\ run.pc = "staged"
    /\ attempt' = [attempt EXCEPT ![j].phase = "bound"]
    /\ Goto("bound")
    /\ UNCHANGED <<job, ahead, accepted, grant, files, worker, out>>

CreateJournal(j) ==
    /\ run.pc = "bound"
    /\ files' = [files EXCEPT ![j].journal = "reserved"]
    /\ Goto("journaled")
    /\ UNCHANGED <<rowVars, worker, out>>

BindJournal(j) ==
    /\ run.pc = "journaled"
    /\ attempt' = [attempt EXCEPT ![j].phase = "reserved"]
    /\ Goto("ready")
    /\ UNCHANGED <<job, ahead, accepted, grant, files, worker, out>>

(* Mutant: the generation stays the one the journal has. *)
ProgressUnnumbered(j) ==
    /\ run.pc = "ready"
    /\ ~job[j].cancel
    /\ job' = [job EXCEPT ![j].step = Follows(attempt[j].phase)]
    /\ Goto("progressed")
    /\ UNCHANGED <<ahead, accepted, attempt, grant, files, worker, out>>

(* progress: refused once a cancellation is accepted                        *)
Progress(j) ==
    /\ run.pc = "ready"
    /\ ~job[j].cancel
    /\ job' = [job EXCEPT ![j].step = Follows(attempt[j].phase)]
    /\ ahead' = [ahead EXCEPT ![j] = Bump(@)]
    /\ Goto("progressed")
    /\ UNCHANGED <<accepted, attempt, grant, files, worker, out>>

(* _advance_journal: the record, with the generation progress returned      *)
AppendJournal(j) ==
    /\ run.pc = "progressed"
    /\ files' = [files EXCEPT ![j].journal = job[j].step]
    /\ ahead' = [ahead EXCEPT ![j] = @ - 1]
    /\ Goto("appended")
    /\ UNCHANGED <<job, accepted, attempt, grant, worker, out>>

AdvanceAttempt(j) ==
    /\ run.pc = "appended"
    /\ attempt' = [attempt EXCEPT ![j].phase = job[j].step]
    /\ Goto(CASE job[j].step = "worker_started" -> "spawn"
              [] job[j].step = "output_published" /\ j \in Publishing -> "begin"
              [] job[j].step = "output_published" /\ j \notin Publishing -> "ready"
              [] OTHER -> "commit")
    /\ UNCHANGED <<job, ahead, accepted, grant, files, worker, out>>

(* Mutant: the request is sent before the process is registered. *)
SpawnFed(j) ==
    /\ run.pc = "spawn"
    /\ worker' = [worker EXCEPT ![j] = "fed"]
    /\ Goto("register")
    /\ UNCHANGED <<rowVars, files, out>>

(* The worker starts, waits for its request, and gets it only when its row  *)
(* names the process.                                                       *)
Spawn(j) ==
    /\ run.pc = "spawn"
    /\ worker' = [worker EXCEPT ![j] = "waiting"]
    /\ Goto("register")
    /\ UNCHANGED <<rowVars, files, out>>

RegisterWorker(j) ==
    /\ run.pc = "register"
    /\ attempt' = [attempt EXCEPT ![j].worker = TRUE]
    /\ Goto("feed")
    /\ UNCHANGED <<job, ahead, accepted, grant, files, worker, out>>

Feed(j) ==
    /\ run.pc = "feed"
    /\ worker' = [worker EXCEPT ![j] = "fed"]
    /\ Goto("wait")
    /\ UNCHANGED <<rowVars, files, out>>

WorkerEnds(j) ==
    /\ run.pc = "wait"
    /\ worker' = [worker EXCEPT ![j] = "none"]
    /\ attempt' = [attempt EXCEPT ![j].worker = FALSE]
    /\ Goto("ready")
    /\ UNCHANGED <<job, ahead, accepted, grant, files, out>>

-----------------------------------------------------------------------------
(* Publication of one directory.  Each step belongs to the destination g;   *)
(* the row's authority is told of every object before the next is made.     *)

(* _reserved_row, then one CAS on recovery_json                             *)
Note(g, from, to) ==
    /\ grant[g].state \in Held
    /\ grant[g].auth \in from
    /\ grant' = [grant EXCEPT ![g].auth = to]
    /\ UNCHANGED out

Write(g, from, to) ==
    /\ out[g].journal \in from
    /\ out' = [out EXCEPT ![g].journal = to]
    /\ UNCHANGED grant

Auth(g) == grant[g].auth

WriteIntent(g) ==
    /\ Auth(g) = "reserved" /\ out[g].stage = "none" /\ Absent(g)
    /\ Write(g, {"none"}, "intent")

NoteStarted(g) ==
    /\ out[g].journal = "intent" /\ out[g].stage = "none" /\ Absent(g)
    /\ Note(g, {"reserved"}, "started")

AllocateStage(g) ==
    /\ Auth(g) = "started" /\ out[g].stage = "none"
    /\ out' = [out EXCEPT ![g].stage = "partial"]
    /\ UNCHANGED grant

NoteAllocated(g) ==
    /\ out[g].journal = "intent" /\ out[g].stage # "none" /\ Absent(g)
    /\ Note(g, {"started"}, "allocated")

WriteCopying(g) ==
    /\ Auth(g) = "allocated" /\ out[g].stage # "none" /\ Absent(g)
    /\ Write(g, {"intent"}, "copying")

NoteStaged(g) ==
    /\ out[g].journal = "copying" /\ out[g].stage # "none" /\ Absent(g)
    /\ Note(g, {"allocated"}, "staged")

FillStage(g) ==
    /\ Auth(g) = "staged" /\ out[g].stage = "partial"
    /\ out' = [out EXCEPT ![g].stage = "full"]
    /\ UNCHANGED grant

WriteReady(g) ==
    /\ Auth(g) = "staged" /\ out[g].stage = "full" /\ Absent(g)
    /\ Write(g, {"copying"}, "ready")

PublishTarget(g) ==
    /\ Auth(g) = "staged" /\ out[g].journal = "ready" /\ out[g].stage = "full" /\ Absent(g)
    /\ out' = [out EXCEPT ![g].target = grant[g].by, ![g].stage = "none"]
    /\ UNCHANGED grant

NoteVerified(g) ==
    /\ out[g].journal = "ready" /\ out[g].stage = "none" /\ out[g].target = grant[g].by
    /\ Note(g, {"staged"}, "verified")

RemoveJournal(g) ==
    /\ Auth(g) = "verified" /\ out[g].target = grant[g].by
    /\ Write(g, {"ready"}, "none")

(* _recover_locked: an intent whose stage was never made is withdrawn.      *)
NoteResetting(g) ==
    /\ out[g].journal = "intent" /\ out[g].stage = "none" /\ Absent(g)
    /\ Note(g, {"started"}, "resetting")

DropIntent(g) ==
    /\ Auth(g) = "resetting" /\ out[g].stage = "none" /\ Absent(g)
    /\ Write(g, {"intent"}, "none")

NoteReset(g) ==
    /\ out[g].journal = "none" /\ out[g].stage = "none" /\ Absent(g)
    /\ Note(g, {"resetting"}, "reserved")

(* rollback_standalone_game: the stage the row names goes with its journal. *)
NoteUnwinding(g) ==
    /\ out[g].journal # "none" /\ out[g].stage # "none" /\ Absent(g)
    /\ Note(g, {"allocated", "staged"}, "resetting")

RemoveStage(g) ==
    /\ Windows
    /\ Auth(g) = "resetting" /\ out[g].stage # "none" /\ Absent(g)
    /\ out' = [out EXCEPT ![g].stage = "none"]
    /\ UNCHANGED grant

DropJournal(g) ==
    /\ Auth(g) = "resetting" /\ out[g].stage = "none" /\ Absent(g)
    /\ Write(g, {"copying", "ready"}, "none")

PublishStep(g) ==
    \/ WriteIntent(g) \/ NoteStarted(g) \/ AllocateStage(g) \/ NoteAllocated(g)
    \/ WriteCopying(g) \/ NoteStaged(g) \/ FillStage(g) \/ WriteReady(g)
    \/ PublishTarget(g) \/ NoteVerified(g) \/ RemoveJournal(g)

SettleStep(g) ==
    \/ WriteCopying(g) \/ NoteStaged(g) \/ WriteReady(g) \/ PublishTarget(g)
    \/ NoteVerified(g) \/ RemoveJournal(g)
    \/ NoteResetting(g) \/ DropIntent(g) \/ NoteReset(g)

UnwindStep(g) ==
    \/ NoteResetting(g) \/ DropIntent(g) \/ NoteReset(g)
    \/ NoteUnwinding(g) \/ RemoveStage(g) \/ DropJournal(g)
    \/ NoteVerified(g) \/ RemoveJournal(g)

(* Nothing of the publication is left, or all of it is there.               *)
Clear(g) == out[g].journal = "none" /\ out[g].stage = "none" /\ Absent(g)
Verified(g) == /\ Auth(g) = "verified" /\ out[g].journal = "none"
               /\ out[g].target = grant[g].by

-----------------------------------------------------------------------------
(* The scheduler thread: publication, the registry commit, retirement       *)

Begin(j) ==
    LET g == GrantOf[j]
    IN /\ run.pc = "begin"
       /\ grant[g].by = j /\ grant[g].state = "reserved"
       /\ Auth(g) = "none" => Absent(g)
       /\ grant' = [grant EXCEPT ![g].auth = IF @ = "none" THEN "reserved" ELSE @]
       /\ Goto("materialize")
       /\ UNCHANGED <<job, ahead, accepted, attempt, files, worker, out>>

Materialize(j) ==
    /\ run.pc = "materialize"
    /\ PublishStep(GrantOf[j])
    /\ UNCHANGED <<job, ahead, accepted, attempt, files, worker, run>>

MaterializeDone(j) ==
    /\ run.pc = "materialize"
    /\ Verified(GrantOf[j])
    /\ Goto("ready")
    /\ UNCHANGED <<rowVars, files, worker, out>>

(* Mutant: mark_published is forgotten. *)
CommitKeepsGrant(j) ==
    /\ run.pc = "commit"
    /\ job[j].step = "registry_committing" /\ ~job[j].cancel
    /\ attempt[j].phase = "registry_committing"
    /\ j \in Publishing => /\ grant[GrantOf[j]].by = j
                           /\ grant[GrantOf[j]].state \in Held
                           /\ out[GrantOf[j]].target = j
    /\ job' = [job EXCEPT ![j].state = "succeeded", ![j].step = "cleanup_pending"]
    /\ ahead' = [ahead EXCEPT ![j] = Bump(@)]
    /\ attempt' = [attempt EXCEPT ![j].phase = "cleanup_pending"]
    /\ Goto("committed")
    /\ UNCHANGED <<accepted, grant, files, worker, out>>

(* Mutant: the UPDATE does not ask for cancel_requested = 0. *)
CommitCanceled(j) ==
    /\ run.pc = "commit"
    /\ job[j].step = "registry_committing"
    /\ attempt[j].phase = "registry_committing"
    /\ j \in Publishing => /\ grant[GrantOf[j]].by = j
                           /\ grant[GrantOf[j]].state \in Held
                           /\ out[GrantOf[j]].target = j
    /\ job' = [job EXCEPT ![j].state = "succeeded", ![j].step = "cleanup_pending"]
    /\ ahead' = [ahead EXCEPT ![j] = Bump(@)]
    /\ attempt' = [attempt EXCEPT ![j].phase = "cleanup_pending"]
    /\ grant' = IF j \in Publishing
                THEN [grant EXCEPT ![GrantOf[j]].state = "published",
                                   ![GrantOf[j]].auth = "none"]
                ELSE grant
    /\ Goto("committed")
    /\ UNCHANGED <<accepted, files, worker, out>>

(* One transaction: the grant, the registry, the job and the attempt        *)
CommitRegistry(j) ==
    /\ run.pc = "commit"
    /\ job[j].step = "registry_committing" /\ ~job[j].cancel
    /\ attempt[j].phase = "registry_committing"
    /\ j \in Publishing => /\ grant[GrantOf[j]].by = j
                           /\ grant[GrantOf[j]].state \in Held
                           /\ out[GrantOf[j]].target = j
    /\ job' = [job EXCEPT ![j].state = "succeeded", ![j].step = "cleanup_pending"]
    /\ ahead' = [ahead EXCEPT ![j] = Bump(@)]
    /\ attempt' = [attempt EXCEPT ![j].phase = "cleanup_pending"]
    /\ grant' = IF j \in Publishing
                THEN [grant EXCEPT ![GrantOf[j]].state = "published",
                                   ![GrantOf[j]].auth = "none"]
                ELSE grant
    /\ Goto("committed")
    /\ UNCHANGED <<accepted, files, worker, out>>

RecordCommitted(j) ==
    /\ run.pc = "committed"
    /\ files[j].journal = "registry_committing"
    /\ files' = [files EXCEPT ![j].journal = "committed"]
    /\ ahead' = [ahead EXCEPT ![j] = @ - 1]
    /\ Goto("recorded")
    /\ UNCHANGED <<job, accepted, attempt, grant, worker, out>>

RecordCleanup(j) ==
    /\ run.pc = "recorded"
    /\ files[j].journal = "committed"
    /\ files' = [files EXCEPT ![j].journal = "cleanup_pending"]
    /\ Goto("retire")
    /\ UNCHANGED <<rowVars, worker, out>>

RetireStage(j) ==
    /\ run.pc = "retire"
    /\ files[j].stage
    /\ files' = [files EXCEPT ![j].stage = FALSE]
    /\ Goto("retired")
    /\ UNCHANGED <<rowVars, worker, out>>

(* Linux renames both to evidence that no row names and no code reads.      *)
RetireJournal(j) ==
    /\ run.pc = "retired"
    /\ files[j].journal = "cleanup_pending"
    /\ files' = [files EXCEPT ![j].journal = "none"]
    /\ Goto("complete")
    /\ UNCHANGED <<rowVars, worker, out>>

(* _complete_cleanup, of the scheduler or of a recovery                     *)
CompleteCleanup(j) ==
    /\ job[j].state = "succeeded" /\ job[j].step = "cleanup_pending"
    /\ attempt[j].phase # "none"
    /\ attempt' = [attempt EXCEPT ![j] = NoAttempt]
    /\ job' = [job EXCEPT ![j].step = "committed"]
    /\ UNCHANGED <<ahead, accepted, grant, files, worker, out>>

Complete(j) ==
    /\ run.pc = "complete"
    /\ CompleteCleanup(j)
    /\ run' = IdleRun

(* After the commit an exception, such as a journal or a row that a         *)
(* recovery already changed, ends the call and leaves the rest to recovery. *)
LeaveCleanup(j) ==
    /\ run.pc \in {"committed", "recorded", "retire", "retired", "complete"}
    /\ run' = IdleRun
    /\ UNCHANGED <<rowVars, files, worker, out>>

-----------------------------------------------------------------------------
(* The scheduler thread: an exception before the commit, _finish_after_error*)

Executing == RunPcs \ {"idle", "committed", "recorded", "retire", "retired", "complete",
                       "error", "clean", "cleaned", "release", "finish", "write", "dead"}

(* Mutant: an exception is taken for a shutdown. *)
FailQuietly(j) ==
    /\ run.pc \in Executing
    /\ worker' = [worker EXCEPT ![j] = "none"]
    /\ attempt' = [attempt EXCEPT ![j].worker = FALSE]
    /\ run' = IdleRun
    /\ UNCHANGED <<job, ahead, accepted, grant, files, out>>

(* The worker is killed with its group; a scheduler told to stop leaves the *)
(* job to the next start.                                                   *)
Fail(j) ==
    /\ run.pc \in Executing
    /\ worker' = [worker EXCEPT ![j] = "none"]
    /\ attempt' = [attempt EXCEPT ![j].worker = FALSE]
    /\ run' = IF service = "up" THEN [run EXCEPT !.pc = "error"] ELSE IdleRun
    /\ UNCHANGED <<job, ahead, accepted, grant, files, out>>

Intended(j) == /\ j \in Publishing
               /\ grant[GrantOf[j]].by = j
               /\ Auth(GrantOf[j]) # "none"

(* Mutant: recovery_json is overwritten. *)
RequireRecoveryForgetful(j) ==
    /\ run.pc = "error"
    /\ attempt[j].phase # "none"
    /\ Intended(j)
    /\ grant' = [grant EXCEPT ![GrantOf[j]].state = "recovery_required",
                              ![GrantOf[j]].auth = "none"]
    /\ job' = [job EXCEPT ![j].state = "orphaned", ![j].step = "none", ![j].cancel = FALSE]
    /\ ahead' = [ahead EXCEPT ![j] = Bump(@)]
    /\ accepted' = accepted \ {j}
    /\ run' = IdleRun
    /\ UNCHANGED <<attempt, files, worker, out>>

(* A publication that was begun is decided by a person: the grant and the   *)
(* job change together.  The grant's row can be read: nobody moves the      *)
(* parent directory of a destination.                                       *)
RequireRecovery(j) ==
    /\ run.pc = "error"
    /\ attempt[j].phase # "none"
    /\ Intended(j)
    /\ grant' = [grant EXCEPT ![GrantOf[j]].state = "recovery_required"]
    /\ job' = [job EXCEPT ![j].state = "orphaned", ![j].step = "none", ![j].cancel = FALSE]
    /\ ahead' = [ahead EXCEPT ![j] = Bump(@)]
    /\ accepted' = accepted \ {j}
    /\ run' = IdleRun
    /\ UNCHANGED <<attempt, files, worker, out>>

Verdict(j) == IF job[j].cancel THEN "canceled" ELSE "failed"
Last(j) == IF j \in Publishing THEN "release" ELSE "finish"

(* Mutant: without an attempt there is nothing to do. *)
NothingToEnd(j) ==
    /\ run.pc = "error"
    /\ attempt[j].phase = "none"
    /\ run' = IdleRun
    /\ UNCHANGED <<rowVars, files, worker, out>>

NothingToClean(j) ==
    /\ run.pc = "error"
    /\ attempt[j].phase = "none"
    /\ run' = [run EXCEPT !.pc = Last(j), !.end = Verdict(j)]
    /\ UNCHANGED <<rowVars, files, worker, out>>

StartCleanup(j) ==
    /\ run.pc = "error"
    /\ attempt[j].phase # "none"
    /\ ~Intended(j)
    /\ Cleanable(j)
    /\ run' = [run EXCEPT !.pc = "clean", !.end = Verdict(j), !.drop = TRUE]
    /\ UNCHANGED <<rowVars, files, worker, out>>

(* Mutant: finish_terminal(cleanup_attempt=True) for what is retained. *)
RetainUnowned(j) ==
    /\ run.pc \in {"error", "clean", "cleaned"}
    /\ attempt[j].phase # "none"
    /\ ~Intended(j)
    /\ run' = [run EXCEPT !.pc = "finish", !.end = "orphaned", !.drop = TRUE]
    /\ UNCHANGED <<rowVars, files, worker, out>>

(* The worker asked for recovery, or its files cannot be deleted.           *)
Retain(j) ==
    /\ run.pc \in {"error", "clean", "cleaned"}
    /\ attempt[j].phase # "none"
    /\ ~Intended(j)
    /\ run' = [run EXCEPT !.pc = "finish", !.end = "orphaned", !.drop = FALSE]
    /\ UNCHANGED <<rowVars, files, worker, out>>

CleanStage(j) ==
    /\ run.pc = "clean"
    /\ files' = [files EXCEPT ![j].stage = FALSE]
    /\ Goto("cleaned")
    /\ UNCHANGED <<rowVars, worker, out>>

CleanJournal(j) ==
    /\ run.pc = "cleaned"
    /\ files' = [files EXCEPT ![j].journal = "none"]
    /\ ahead' = [ahead EXCEPT ![j] = 0]
    /\ Goto(Last(j))
    /\ UNCHANGED <<job, accepted, attempt, grant, worker, out>>

(* A transaction of its own, before the one that ends the job               *)
Release(j) ==
    /\ run.pc = "release"
    /\ Releasable(j)
    /\ grant' = Free(j)
    /\ Goto("finish")
    /\ UNCHANGED <<job, ahead, accepted, attempt, files, worker, out>>

ReleaseRefused(j) ==
    /\ run.pc = "release"
    /\ ~Releasable(j)
    /\ run' = [run EXCEPT !.pc = "finish", !.end = "orphaned", !.drop = FALSE]
    /\ UNCHANGED <<rowVars, files, worker, out>>

(* finish_terminal reads the row, then writes it if its generation stands.  *)
ReadRow(j) ==
    /\ run.pc = "finish"
    /\ run' = [run EXCEPT !.pc = "write", !.raced = FALSE]
    /\ UNCHANGED <<rowVars, files, worker, out>>

WriteRow(j) ==
    /\ run.pc = "write"
    /\ ~run.raced
    /\ job' = [job EXCEPT ![j].state = run.end, ![j].step = "none", ![j].cancel = FALSE]
    /\ ahead' = [ahead EXCEPT ![j] = Behind(j)]
    /\ accepted' = accepted \ {j}
    /\ attempt' = IF run.drop THEN [attempt EXCEPT ![j] = NoAttempt] ELSE attempt
    /\ run' = IdleRun
    /\ UNCHANGED <<grant, files, worker, out>>

(* A transaction of the error path raises: it waited longer than the busy   *)
(* timeout, or a cancellation was faster.  It leaves nothing behind, and    *)
(* there is no handler up to the end of _run.                               *)
ErrorEscapes(j) ==
    /\ \/ run.pc = "error" /\ attempt[j].phase # "none" /\ Intended(j)
       \/ run.pc \in {"release", "write"}
    /\ run' = [IdleRun EXCEPT !.pc = "dead"]
    /\ UNCHANGED <<rowVars, files, worker, out>>

Execute(j) ==
    /\ service \in {"up", "stopping"}
    /\ run.job = j
    /\ \/ ReserveAttempt(j) \/ CreateStage(j) \/ BindStage(j) \/ CreateJournal(j)
       \/ BindJournal(j) \/ Progress(j) \/ AppendJournal(j) \/ AdvanceAttempt(j)
       \/ Spawn(j) \/ RegisterWorker(j) \/ Feed(j) \/ WorkerEnds(j)
       \/ Begin(j) \/ Materialize(j) \/ MaterializeDone(j) \/ CommitRegistry(j)
       \/ RecordCommitted(j) \/ RecordCleanup(j) \/ RetireStage(j) \/ RetireJournal(j)
       \/ Complete(j) \/ LeaveCleanup(j)
       \/ Fail(j) \/ RequireRecovery(j) \/ NothingToClean(j) \/ StartCleanup(j)
       \/ Retain(j) \/ CleanStage(j) \/ CleanJournal(j) \/ Release(j)
       \/ ReleaseRefused(j) \/ ReadRow(j) \/ WriteRow(j) \/ ErrorEscapes(j)
    /\ UNCHANGED <<platform, service, starts, rec>>

-----------------------------------------------------------------------------
(* The service thread: recover()                                            *)

RecGoto(pc) == rec' = [rec EXCEPT !.pc = pc]
Onward(j) == IF attempt[j].phase = "none" THEN "commit" ELSE "clean"

Recover(j, mode) ==
    /\ Serving
    /\ IF mode = "cleanup"
       THEN job[j].state = "succeeded" /\ job[j].step = "cleanup_pending"
       ELSE job[j].state = "orphaned"
    /\ mode # "cleanup" /\ j \in Publishing =>
          grant[GrantOf[j]].by = j /\ grant[GrantOf[j]].state \in Held
    /\ rec' = [job |-> j, mode |-> mode,
               pc |-> IF mode = "cleanup" THEN "clean"
                      ELSE IF j \notin Publishing THEN Onward(j)
                      ELSE IF mode = "resume" THEN "settle" ELSE "unwind"]
    /\ UNCHANGED <<rowVars, files, worker, out, run>>

(* Bring the publication to a state a new run can take up: not begun, or    *)
(* visible and verified.                                                    *)
Settle(j) ==
    /\ rec.pc = "settle"
    /\ SettleStep(GrantOf[j])
    /\ UNCHANGED <<job, ahead, accepted, attempt, files, worker, run, rec>>

(* Mutant: a journal nobody is told of is adopted. *)
SettledUnbound(j) ==
    LET g == GrantOf[j]
    IN /\ rec.pc = "settle"
       /\ Verified(g) \/ (Auth(g) \in {"none", "reserved"} /\ Absent(g))
       /\ RecGoto(Onward(j))
       /\ UNCHANGED <<rowVars, files, worker, out, run>>

Settled(j) ==
    LET g == GrantOf[j]
    IN /\ rec.pc = "settle"
       /\ \/ Verified(g)
          \/ Auth(g) = "none" /\ Absent(g)
          \/ Auth(g) = "reserved" /\ Clear(g)
       /\ RecGoto(Onward(j))
       /\ UNCHANGED <<rowVars, files, worker, out, run>>

Unwind(j) ==
    /\ rec.pc = "unwind"
    /\ UnwindStep(GrantOf[j])
    /\ UNCHANGED <<job, ahead, accepted, attempt, files, worker, run, rec>>

Unwound(j) ==
    LET g == GrantOf[j]
    IN /\ rec.pc = "unwind"
       /\ Auth(g) \in {"none", "reserved"} /\ Clear(g)
       /\ RecGoto(Onward(j))
       /\ UNCHANGED <<rowVars, files, worker, out, run>>

RemoveTarget(j) ==
    LET g == GrantOf[j]
    IN /\ rec.pc = "unwind"
       /\ Windows
       /\ Verified(g)
       /\ out' = [out EXCEPT ![g].target = NoJob]
       /\ RecGoto(Onward(j))
       /\ UNCHANGED <<rowVars, files, worker, run>>

RecCleanStage(j) ==
    /\ rec.pc = "clean" /\ rec.mode # "cleanup"
    /\ Cleanable(j)
    /\ files' = [files EXCEPT ![j].stage = FALSE]
    /\ RecGoto("cleaned")
    /\ UNCHANGED <<rowVars, worker, out, run>>

RecCleanJournal(j) ==
    /\ rec.pc = "cleaned"
    /\ files' = [files EXCEPT ![j].journal = "none"]
    /\ ahead' = [ahead EXCEPT ![j] = 0]
    /\ RecGoto("commit")
    /\ UNCHANGED <<job, accepted, attempt, grant, worker, out, run>>

(* One transaction: the grant, the attempt and the job                      *)
Requeue(j) ==
    /\ rec.pc = "commit" /\ rec.mode = "resume"
    /\ grant' = IF j \in Publishing
                THEN [grant EXCEPT ![GrantOf[j]].state = "reserved"] ELSE grant
    /\ job' = [job EXCEPT ![j].state = "queued", ![j].step = "none", ![j].cancel = FALSE]
    /\ attempt' = [attempt EXCEPT ![j] = NoAttempt]
    /\ rec' = IdleRec
    /\ UNCHANGED <<ahead, accepted, files, worker, out, run>>

RollBack(j) ==
    /\ rec.pc = "commit" /\ rec.mode = "rollback"
    /\ j \in Publishing => Absent(GrantOf[j])
    /\ grant' = Free(j)
    /\ job' = [job EXCEPT ![j].state = "failed", ![j].step = "none", ![j].cancel = FALSE]
    /\ attempt' = [attempt EXCEPT ![j] = NoAttempt]
    /\ rec' = IdleRec
    /\ UNCHANGED <<ahead, accepted, files, worker, out, run>>

(* _recover_cleanup of a job that succeeded finishes what the scheduler     *)
(* left, which may be at work on it too.                                    *)
CleanupRecord(j) ==
    /\ rec.pc = "clean" /\ rec.mode = "cleanup"
    /\ attempt[j].phase = "cleanup_pending" /\ files[j].stage /\ ahead[j] \in {0, 1}
    /\ \/ /\ files[j].journal = "registry_committing"
          /\ files' = [files EXCEPT ![j].journal = "committed"]
          /\ ahead' = [ahead EXCEPT ![j] = 0]
       \/ /\ files[j].journal = "committed"
          /\ files' = [files EXCEPT ![j].journal = "cleanup_pending"]
          /\ UNCHANGED ahead
    /\ UNCHANGED <<job, accepted, attempt, grant, worker, out, run, rec>>

CleanupStage(j) ==
    /\ rec.pc = "clean" /\ rec.mode = "cleanup"
    /\ files[j].stage /\ files[j].journal = "cleanup_pending"
    /\ files' = [files EXCEPT ![j].stage = FALSE]
    /\ UNCHANGED <<rowVars, worker, out, run, rec>>

CleanupJournal(j) ==
    /\ rec.pc = "clean" /\ rec.mode = "cleanup"
    /\ ~files[j].stage /\ files[j].journal = "cleanup_pending"
    /\ files' = [files EXCEPT ![j].journal = "none"]
    /\ UNCHANGED <<rowVars, worker, out, run, rec>>

CleanupComplete(j) ==
    /\ rec.pc = "clean" /\ rec.mode = "cleanup"
    /\ files[j] = NoFiles
    /\ CompleteCleanup(j)
    /\ rec' = IdleRec
    /\ UNCHANGED run

(* The request fails; what it did to the files stays.  Only a request to    *)
(* resume a job without publication still compares the job with its         *)
(* workspace after it deleted the files.                                    *)
Refuse(j) ==
    /\ \/ rec.pc \in {"settle", "unwind", "clean", "cleaned"}
       \/ (rec.pc = "commit" /\ rec.mode = "resume" /\ j \notin Publishing)
    /\ rec' = IdleRec
    /\ UNCHANGED <<rowVars, files, worker, out, run>>

Recovery(j) ==
    /\ service = "up"
    /\ \/ \E mode \in {"resume", "rollback", "cleanup"} : Recover(j, mode)
       \/ /\ rec.job = j
          /\ \/ Settle(j) \/ Settled(j) \/ Unwind(j) \/ Unwound(j) \/ RemoveTarget(j)
             \/ RecCleanStage(j) \/ RecCleanJournal(j) \/ Requeue(j) \/ RollBack(j)
             \/ CleanupRecord(j) \/ CleanupStage(j) \/ CleanupJournal(j)
             \/ CleanupComplete(j) \/ Refuse(j)
    /\ UNCHANGED <<platform, service, starts>>

-----------------------------------------------------------------------------
(* The service process                                                      *)

Shutdown ==
    /\ Serving
    /\ service' = "stopping"
    /\ UNCHANGED <<platform, starts, rowVars, files, worker, out, run, rec>>

SchedulerStops ==
    /\ service = "stopping"
    /\ run.pc \in {"idle", "dead"}
    /\ service' = "down"
    /\ run' = IdleRun
    /\ UNCHANGED <<platform, starts, rowVars, files, worker, out, rec>>

(* A worker still waiting for its request reads the end of its input.       *)
Crash ==
    /\ service \in {"up", "stopping"}
    /\ service' = "down"
    /\ run' = IdleRun
    /\ rec' = IdleRec
    /\ worker' = [j \in Jobs |-> IF worker[j] = "waiting" THEN "none" ELSE worker[j]]
    /\ UNCHANGED <<platform, starts, rowVars, files, out>>

WorkerEndsAlone(j) ==
    /\ worker[j] = "fed"
    /\ run.job # j
    /\ worker' = [worker EXCEPT ![j] = "none"]
    /\ UNCHANGED <<platform, service, starts, rowVars, files, out, run, rec>>

Unreserved == {j \in Publishing : job[j].state = "running" /\ grant[GrantOf[j]].by # j}

(* StudioStore: workers the rows name are terminated, then every running    *)
(* job becomes an orphan in one transaction, or the store is not opened.    *)
Start ==
    /\ service = "down"
    /\ starts < MaxStarts
    /\ starts' = starts + 1
    /\ worker' = [j \in Jobs |-> IF attempt[j].worker THEN "none" ELSE worker[j]]
    /\ attempt' = [j \in Jobs |-> [attempt[j] EXCEPT !.worker = FALSE]]
    /\ IF Unreserved # {}
       THEN /\ service' = "refused"
            /\ UNCHANGED <<job, ahead, accepted, grant>>
       ELSE /\ service' = "up"
            /\ job' = [j \in Jobs |-> IF job[j].state = "running"
                                      THEN [job[j] EXCEPT !.state = "orphaned", !.step = "none"]
                                      ELSE job[j]]
            /\ ahead' = [j \in Jobs |-> IF job[j].state = "running" THEN Behind(j) ELSE ahead[j]]
            /\ accepted' = {}
            /\ grant' = [g \in Grants |->
                           IF /\ grant[g].state = "reserved" /\ Auth(g) # "none"
                              /\ \E j \in Publishing : /\ job[j].state = "running"
                                                       /\ grant[g].by = j
                           THEN [grant[g] EXCEPT !.state = "recovery_required"]
                           ELSE grant[g]]
    /\ UNCHANGED <<platform, files, out, run, rec>>

Next ==
    \/ \E j \in Jobs : \/ Create(j) \/ CancelQueued(j) \/ CancelRunning(j) \/ Claim(j)
                       \/ Execute(j) \/ Recovery(j) \/ WorkerEndsAlone(j)
    \/ \E g \in Grants : Revoke(g)
    \/ ClaimTimesOut \/ Shutdown \/ SchedulerStops \/ Crash \/ Start

Spec == Init /\ [][Next]_vars

(* The scheduler thread runs until it ends or dies.  Requests, recoveries,  *)
(* timeouts, crashes and starts are the environment's.                      *)
Schedule == \E j \in Jobs : Claim(j) \/ Execute(j)
FairSpec == Spec /\ WF_vars(Schedule)

-----------------------------------------------------------------------------
(* Properties *)

(* A game job has succeeded exactly when its destination is published by    *)
(* it, and then its game is there: the grant, the job and the directory     *)
(* agree through every crash (_commit_registry, mark_published).            *)
SucceededIsPublished ==
    \A j \in Publishing :
        LET g == GrantOf[j]
        IN /\ job[j].state = "succeeded" <=> grant[g].state = "published" /\ grant[g].by = j
           /\ job[j].state = "succeeded" => out[g].target = j

(* A job whose cancellation was accepted does not succeed: the flag and the *)
(* commit exclude each other (cancel, progress, _commit_registry).          *)
AcceptedCancelHolds == \A j \in accepted : job[j].state # "succeeded"

(* Bytes that are visible are known to the row of the job that made them:   *)
(* its grant names the stage before the stage gets its final name           *)
(* (materialize_game, note_publication_staged, note_publication_verified).  *)
VisibleIsAuthorized ==
    \A j \in Publishing :
        LET g == GrantOf[j]
        IN out[g].target = j =>
              /\ grant[g].by = j
              /\ grant[g].state = "published" \/ Auth(g) \in {"staged", "verified"}

(* A destination nobody has reserved is clean, whichever way it was given   *)
(* back: a canceled, failed or rolled back job leaves no journal, no stage  *)
(* and no directory that the next job would meet (release_for_job,          *)
(* rollback_for_job).                                                       *)
FreeGrantIsClean ==
    \A g \in Grants :
        grant[g].state \in {"ready", "revoked"} => grant[g].by = NoJob /\ Auth(g) = "none" /\ Clear(g)

(* A queued job never meets a half-made publication, however often it was   *)
(* resumed: it begins with nothing, or with a finished one it verifies      *)
(* (_recover_game_materialize).                                             *)
ResumeIsDecided ==
    \A j \in Publishing :
        LET g == GrantOf[j]
        IN job[j].state = "queued" =>
              /\ grant[g].by = j /\ grant[g].state = "reserved"
              /\ Verified(g) \/ (Auth(g) \in {"none", "reserved"} /\ Clear(g))

(* Every private file has a row that names it, and every such row belongs   *)
(* to a job that still runs or waits for recovery, whatever the step at     *)
(* which a scheduler, a recovery or the process stops.  (Retired files that *)
(* Linux keeps as evidence are no longer private files of an attempt.)      *)
PrivateFilesAreOwned ==
    \A j \in Jobs :
        /\ files[j] # NoFiles => attempt[j].phase # "none"
        /\ attempt[j].phase # "none" =>
              \/ job[j].state \in {"running", "orphaned"}
              \/ job[j].state = "succeeded" /\ job[j].step = "cleanup_pending"

(* No worker that has its request outlives the service that started it: at  *)
(* the next start it is gone before the service is up (process_started      *)
(* before the request is sent, _reap_registered_creation_workers).          *)
NoWorkerSurvives ==
    \A j \in Jobs : service = "up" /\ worker[j] = "fed" => run.job = j /\ run.pc = "wait"

(* A running job is the one the scheduler holds, as long as its thread      *)
(* lives: no error path forgets a job (run_once, _finish_after_error,       *)
(* _orphan_running_jobs).                                                   *)
RunningIsHeld ==
    \A j \in Jobs :
        service = "up" /\ job[j].state = "running" => run.job = j \/ run.pc = "dead"

(* A claimed job is settled while the service stays up and the scheduler's  *)
(* thread lives.                                                            *)
RunningIsSettled ==
    \A j \in Jobs : job[j].state = "running" ~> \/ job[j].state # "running"
                                                 \/ service # "up"
                                                 \/ run.pc = "dead"

(* A durable FIFO executor gets to every queued job while the service is    *)
(* up (claim_next, _run).  Two things keep a queued job waiting for ever:   *)
(* somebody who resumes earlier jobs for ever, since a job that is queued   *)
(* again keeps its place, and a scheduler thread that has died of a busy    *)
(* lock or a lost compare-and-swap, which nothing restarts.                 *)
QueuedIsClaimed ==
    <>[](rec.pc = "idle") =>
        \A j \in Jobs : job[j].state = "queued" ~> \/ job[j].state # "queued"
                                                    \/ service # "up"
                                                    \/ run.pc = "dead"

(* A restart marks running jobs as orphans: the store can always be opened. *)
StartSucceeds == service # "refused"

=============================================================================
