-------------------------- MODULE StudioJobsProofs --------------------------
(***************************************************************************)
(* Proofs about StudioJobs for any set of jobs, grants and bounds.         *)
(***************************************************************************)
EXTENDS StudioJobs, TLAPS

USE DEF Absent, Foreign

-----------------------------------------------------------------------------
(* The filesystem effects of an external operation                          *)

(***************************************************************************)
(* The two fields of an outcome.                                           *)
(***************************************************************************)
LEMMA OutcomeFields ==
    ASSUME NEW d \in Content, NEW g \in Stage, NEW ok
    PROVE  /\ Outcome(d, g, ok).fs \in Fs
           /\ Outcome(d, g, ok).fs.dest = d
BY DEF Outcome, Fs

(***************************************************************************)
(* execute_external_operation on a visible destination leaves it visible.  *)
(***************************************************************************)
LEMMA VisibleIsSafe ==
    ASSUME NEW op \in Operations, NEW s \in Sources, NEW f \in Fs
    PROVE  /\ ExecuteVisible(op, s, f).fs \in Fs
           /\ ExecuteVisible(op, s, f).fs.dest = f.dest
<1>1. NoStage \in Stage /\ f.stage \in Stage /\ f.dest \in Content
  BY DEF NoStage, Fs, Stage
<1>2. \E g \in {f.stage, NoStage}, ok \in {FALSE, f.dest = s,
                        op = "game.package.extract" \/ f.dest = s} :
          ExecuteVisible(op, s, f) = Outcome(f.dest, g, ok)
  BY DEF ExecuteVisible
<1> QED
  BY <1>1, <1>2, OutcomeFields

(***************************************************************************)
(* Whatever execute_external_operation does on a destination, the result   *)
(* is a filesystem of the model, and bytes that were visible before the    *)
(* call are still there.                                                   *)
(***************************************************************************)
LEMMA ExecuteIsSafe ==
    ASSUME NEW op \in Operations, NEW s \in Sources, NEW f \in Fs,
           NEW busy, NEW moved,
           NEW o \in ExecuteOutcomes(op, s, f, busy, moved)
    PROVE  /\ o.fs \in Fs
           /\ f.dest # Absent => o.fs.dest = f.dest
<1>1. NoStage \in Stage /\ f.stage \in Stage /\ f.dest \in Content
  BY DEF NoStage, Fs, Stage
<1>2. /\ s \in Content /\ Absent \in Content
      /\ [src |-> s, full |-> TRUE] \in Stage /\ [src |-> s, full |-> FALSE] \in Stage
  BY DEF Content, Stage
<1>3. f.stage.src \in Content
  BY <1>1 DEF Stage, Content
<1>4. CASE moved \/ (busy /\ Journaled(op))
  <2>1. o = Outcome(f.dest, f.stage, FALSE)
    BY <1>4 DEF ExecuteOutcomes
  <2> QED
    BY <1>1, <2>1, OutcomeFields
<1>5. CASE ~(moved \/ (busy /\ Journaled(op))) /\ f.dest # Absent
  <2>1. o = ExecuteVisible(op, s, f)
    BY <1>5 DEF ExecuteOutcomes
  <2> QED
    BY <2>1, VisibleIsSafe
<1>6. CASE /\ ~(moved \/ (busy /\ Journaled(op))) /\ f.dest = Absent
           /\ Journaled(op) /\ f.stage # NoStage
  <2>1. o = EnterWithJournal(op, s, f)
    BY <1>6 DEF ExecuteOutcomes
  <2>2. \E d \in {f.stage.src, f.dest}, g \in {f.stage, NoStage},
           ok \in {FALSE, f.dest = s, f.stage.src = s} :
            EnterWithJournal(op, s, f) = Outcome(d, g, ok)
    BY <1>6 DEF EnterWithJournal
  <2> QED
    BY <1>1, <1>3, <1>6, <2>1, <2>2, OutcomeFields
<1>7. CASE /\ ~(moved \/ (busy /\ Journaled(op))) /\ f.dest = Absent
           /\ ~(Journaled(op) /\ f.stage # NoStage)
  <2>1. o \in FreshOutcomes(op, s)
    BY <1>7 DEF ExecuteOutcomes
  <2>2. \E d \in {s, Absent}, ok \in BOOLEAN,
           g \in {NoStage, [src |-> s, full |-> TRUE], [src |-> s, full |-> FALSE]} :
            o = Outcome(d, g, ok)
    BY <2>1 DEF FreshOutcomes
  <2>3. PICK d \in Content, g \in Stage, ok \in BOOLEAN : o = Outcome(d, g, ok)
    BY <1>1, <1>2, <2>2, Zenon
  <2> QED
    BY <1>7, <2>3, OutcomeFields
<1> QED
  BY <1>4, <1>5, <1>6, <1>7

(***************************************************************************)
(* The same for rollback_external_operation, which besides never makes     *)
(* anything visible.                                                       *)
(***************************************************************************)
LEMMA RollbackIsSafe ==
    ASSUME NEW op \in Operations, NEW f \in Fs, NEW busy,
           NEW o \in RollbackOutcomes(op, f, busy)
    PROVE  o.fs \in Fs /\ o.fs.dest = f.dest
<1>1. NoStage \in Stage /\ f.stage \in Stage /\ f.dest \in Content
  BY DEF NoStage, Fs, Stage
<1>2. \E g \in {f.stage, NoStage}, ok \in BOOLEAN : o = Outcome(f.dest, g, ok)
  BY DEF RollbackOutcomes
<1> QED
  BY <1>1, <1>2, OutcomeFields

-----------------------------------------------------------------------------
(* The inductive invariant *)

(* The scheduler executes a job that is running, and has a state to record  *)
(* when it records one.                                                     *)
SchedOK ==
    /\ sched \in Executing => cur \in Managed /\ state[cur] = "running"
    /\ sched = "finishing" => outcome # "none"
    /\ sched = "down" <=> svc = "down"

(* recover() works on an orphan; only ready grants are being revoked, and    *)
(* only while the service runs.                                             *)
SvcOK ==
    /\ svc = "recovering" => recJob \in External /\ state[recJob] = "orphaned"
    /\ svc \in {"recovering", "down"} => pending = {}
    /\ \A g \in pending : grant[g] = "ready"

(* Rows are numbered in insertion order, and a claimed job is never queued  *)
(* again; the waiting states belong to legacy rows.                         *)
QueueOK ==
    /\ \A j \in Managed : state[j] \notin {"awaiting_approval", "awaiting_user", "paused"}
    /\ \A j \in Jobs : rowid[j] < nextRow
    /\ \A j \in claimed : j \in Managed /\ state[j] \notin {"absent", "queued"}

IndInv == /\ TypeOK /\ SchedOK /\ SvcOK /\ QueueOK
          /\ RunningIsOwned /\ ReservationsMatchJobs /\ FirstInFirstOut

(***************************************************************************)
(* The initial state satisfies the invariant.                              *)
(***************************************************************************)
LEMMA InitInd == Init => IndInv
<1> SUFFICES ASSUME Init PROVE IndInv
  OBVIOUS
<1> USE JobsAssumption DEF Init
<1>1. TypeOK
  BY DEF TypeOK, JobStates, Terminal, GrantStates, SvcStates, SchedStates,
       WorkerStates, WorkerAlive, Content, Stage, NoStage
<1>2. SchedOK
  BY DEF SchedOK, Executing, Managed
<1>3. SvcOK
  BY DEF SvcOK, External
<1>4. QueueOK
  BY DEF QueueOK, Managed, External
<1>5. RunningIsOwned
  BY DEF SchedOK, RunningIsOwned, Executing, Managed
<1>6. ReservationsMatchJobs
  BY DEF ReservationsMatchJobs, External, Grants
<1>7. FirstInFirstOut
  BY DEF QueueOK, FirstInFirstOut, Managed
<1> QED
  BY <1>1, <1>2, <1>3, <1>4, <1>5, <1>6, <1>7 DEF IndInv

(***************************************************************************)
(* The grant requests of the service preserve the invariant.               *)
(***************************************************************************)
LEMMA GrantsInd ==
    ASSUME IndInv, NEW g \in Grants, GrantCreate(g) \/ GrantRevoke(g)
    PROVE  IndInv'
<1> USE JobsAssumption DEF dbVars, svcVars, schedVars, fsVars, IndInv
<1>1. CASE GrantCreate(g)
  <2>1. TypeOK'
    BY <1>1 DEF TypeOK, JobStates, Terminal, GrantStates, SvcStates, SchedStates,
         WorkerStates, WorkerAlive, GrantCreate, Grants
  <2>2. SchedOK'
    BY <1>1 DEF TypeOK, SchedOK, Executing, Managed, GrantCreate
  <2>3. SvcOK'
    BY <1>1 DEF TypeOK, SvcOK, External, GrantCreate
  <2>4. QueueOK'
    BY <1>1 DEF TypeOK, QueueOK, Managed, External, GrantCreate
  <2>5. RunningIsOwned'
    BY <1>1 DEF TypeOK, SchedOK, RunningIsOwned, Executing, Managed, GrantCreate
  <2>6. ReservationsMatchJobs'
    BY <1>1 DEF TypeOK, QueueOK, Managed, ReservationsMatchJobs, External, Grants,
         GrantCreate
  <2>7. FirstInFirstOut'
    BY <1>1 DEF TypeOK, QueueOK, FirstInFirstOut, Managed, GrantCreate
  <2> QED
    BY <2>1, <2>2, <2>3, <2>4, <2>5, <2>6, <2>7
<1>2. CASE GrantRevoke(g)
  <2>1. TypeOK'
    BY <1>2 DEF TypeOK, JobStates, Terminal, GrantStates, SvcStates, SchedStates,
         WorkerStates, WorkerAlive, GrantRevoke, Seen
  <2>2. SchedOK'
    BY <1>2 DEF TypeOK, SchedOK, Executing, Managed, GrantRevoke, Seen
  <2>3. SvcOK'
    BY <1>2 DEF TypeOK, SvcOK, External, GrantRevoke, Seen
  <2>4. QueueOK'
    BY <1>2 DEF TypeOK, QueueOK, Managed, External, GrantRevoke, Seen
  <2>5. RunningIsOwned'
    BY <1>2 DEF TypeOK, SchedOK, RunningIsOwned, Executing, Managed, GrantRevoke, Seen
  <2>6. ReservationsMatchJobs'
    BY <1>2 DEF TypeOK, QueueOK, Managed, ReservationsMatchJobs, External, Grants,
         GrantRevoke, Seen
  <2>7. FirstInFirstOut'
    BY <1>2 DEF TypeOK, QueueOK, FirstInFirstOut, Managed, GrantRevoke, Seen
  <2> QED
    BY <2>1, <2>2, <2>3, <2>4, <2>5, <2>6, <2>7
<1> QED
  BY <1>1, <1>2

(***************************************************************************)
(* So do its job requests.                                                 *)
(***************************************************************************)
LEMMA RequestsInd ==
    ASSUME IndInv, NEW j \in Jobs, JobCreate(j) \/ JobCancel(j) \/ JobTransition(j)
    PROVE  IndInv'
<1> USE JobsAssumption DEF dbVars, svcVars, schedVars, fsVars, IndInv
<1>1. CASE JobCreate(j)
  <2>1. TypeOK'
    <3>1. CASE j \in External
      BY <1>1, <3>1 DEF TypeOK, JobStates, Terminal, GrantStates, SvcStates,
           SchedStates, WorkerStates, WorkerAlive, JobCreate, Grants
    <3>2. CASE j \notin External
      BY <1>1, <3>2 DEF TypeOK, JobStates, Terminal, GrantStates, SvcStates,
           SchedStates, WorkerStates, WorkerAlive, JobCreate, Grants
    <3> QED
      BY <3>1, <3>2
  <2>2. SchedOK'
    BY <1>1 DEF TypeOK, SchedOK, Executing, Managed, JobCreate
  <2>3. SvcOK'
    BY <1>1 DEF TypeOK, SvcOK, External, JobCreate
  <2>4. QueueOK'
    BY <1>1 DEF TypeOK, QueueOK, Managed, External, JobCreate
  <2>5. RunningIsOwned'
    BY <1>1 DEF TypeOK, SchedOK, RunningIsOwned, Executing, Managed, JobCreate
  <2>6. ReservationsMatchJobs'
    BY <1>1 DEF TypeOK, QueueOK, Managed, ReservationsMatchJobs, External, Grants,
         JobCreate, Reservable
  <2>7. FirstInFirstOut'
    BY <1>1 DEF TypeOK, QueueOK, FirstInFirstOut, Managed, JobCreate
  <2> QED
    BY <2>1, <2>2, <2>3, <2>4, <2>5, <2>6, <2>7
<1>2. CASE JobCancel(j)
  <2>1. TypeOK'
    <3>1. CASE j \in External
      BY <1>2, <3>1 DEF TypeOK, JobStates, Terminal, GrantStates, SvcStates,
           SchedStates, WorkerStates, WorkerAlive, JobCancel, ReleaseTarget, Grants
    <3>2. CASE j \notin External
      BY <1>2, <3>2 DEF TypeOK, JobStates, Terminal, GrantStates, SvcStates,
           SchedStates, WorkerStates, WorkerAlive, JobCancel, ReleaseTarget, Grants
    <3> QED
      BY <3>1, <3>2
  <2>2. SchedOK'
    BY <1>2 DEF TypeOK, SchedOK, Executing, Managed, JobCancel, ReleaseTarget
  <2>3. SvcOK'
    BY <1>2 DEF TypeOK, SvcOK, External, JobCancel, ReleaseTarget
  <2>4. QueueOK'
    BY <1>2 DEF TypeOK, QueueOK, Managed, External, JobCancel, ReleaseTarget
  <2>5. RunningIsOwned'
    BY <1>2 DEF TypeOK, SchedOK, RunningIsOwned, Executing, Managed, JobCancel,
         ReleaseTarget
  <2>6. ReservationsMatchJobs'
    <3>1. CASE j \in External /\ state[j] = "queued"
      BY <1>2, <3>1 DEF TypeOK, ReservationsMatchJobs, External, Managed, Grants,
           JobCancel, ReleaseTarget
    <3>2. CASE ~(j \in External /\ state[j] = "queued")
      BY <1>2, <3>2 DEF TypeOK, JobStates, Terminal, QueueOK, ReservationsMatchJobs,
           External, Managed,
                     JobCancel
    <3> QED
      BY <3>1, <3>2
  <2>7. FirstInFirstOut'
    BY <1>2 DEF TypeOK, QueueOK, FirstInFirstOut, Managed, JobCancel, ReleaseTarget
  <2> QED
    BY <2>1, <2>2, <2>3, <2>4, <2>5, <2>6, <2>7
<1>3. CASE JobTransition(j)
  <2>1. TypeOK'
    BY <1>3 DEF TypeOK, JobStates, Terminal, GrantStates, SvcStates, SchedStates,
         WorkerStates, WorkerAlive, JobTransition, Transitions, CommittedGrants, Seen,
         Grants
  <2>2. SchedOK'
    BY <1>3 DEF TypeOK, SchedOK, Executing, Managed, JobTransition
  <2>3. SvcOK'
    BY <1>3 DEF TypeOK, SvcOK, External, JobTransition, CommittedGrants, Seen, Managed
  <2>4. QueueOK'
    BY <1>3 DEF TypeOK, QueueOK, Managed, External, JobTransition
  <2>5. RunningIsOwned'
    BY <1>3 DEF TypeOK, SchedOK, RunningIsOwned, Executing, Managed, JobTransition
  <2>6. ReservationsMatchJobs'
    BY <1>3 DEF TypeOK, QueueOK, Managed, ReservationsMatchJobs, External, Grants,
         JobTransition, SvcOK, CommittedGrants, Seen
  <2>7. FirstInFirstOut'
    BY <1>3 DEF TypeOK, QueueOK, FirstInFirstOut, Managed, JobTransition
  <2> QED
    BY <2>1, <2>2, <2>3, <2>4, <2>5, <2>6, <2>7
<1> QED
  BY <1>1, <1>2, <1>3

(***************************************************************************)
(* So do recover() and the handlers that commit or lose a pending          *)
(* revocation.                                                             *)
(***************************************************************************)
LEMMA RecoveryInd ==
    ASSUME IndInv, 
           \/ \E j \in Jobs, a \in {"resume", "rollback"} : RecoverBegin(j, a)
           \/ RecoverEnd \/ OtherHandlerCommits \/ BeginRefused
    PROVE  IndInv'
<1> USE JobsAssumption DEF dbVars, svcVars, schedVars, fsVars, IndInv
<1>1. CASE \E j \in Jobs, a \in {"resume", "rollback"} : RecoverBegin(j, a)
  <2>1. TypeOK'
    BY <1>1 DEF TypeOK, JobStates, Terminal, GrantStates, SvcStates, SchedStates,
         WorkerStates, WorkerAlive, RecoverBegin
  <2>2. SchedOK'
    BY <1>1 DEF TypeOK, SchedOK, Executing, Managed, RecoverBegin
  <2>3. SvcOK'
    BY <1>1 DEF TypeOK, SvcOK, External, RecoverBegin
  <2>4. QueueOK'
    BY <1>1 DEF TypeOK, QueueOK, Managed, External, RecoverBegin
  <2>5. RunningIsOwned'
    BY <1>1 DEF TypeOK, SchedOK, RunningIsOwned, Executing, Managed, RecoverBegin
  <2>6. ReservationsMatchJobs'
    BY <1>1 DEF TypeOK, QueueOK, Managed, ReservationsMatchJobs, External, Grants,
         RecoverBegin
  <2>7. FirstInFirstOut'
    BY <1>1 DEF TypeOK, QueueOK, FirstInFirstOut, Managed, RecoverBegin
  <2> QED
    BY <2>1, <2>2, <2>3, <2>4, <2>5, <2>6, <2>7
<1>2. CASE RecoverEnd
  <2> DEFINE t == TargetOf[recJob]
  <2>a. /\ recJob \in External /\ recJob \in Jobs /\ t \in Targets /\ FsOf(t) \in Fs
        /\ OpOf[recJob] \in Operations /\ SourceOf[recJob] \in Sources
        /\ state[recJob] = "orphaned" /\ pending = {}
    BY <1>2 DEF RecoverEnd, SvcOK, TypeOK, External, FsOf, Fs
  <2>b. PICK o : /\ o.fs \in Fs
                 /\ SetFs(t, o.fs)
                 /\ \/ UNCHANGED <<state, grant, reservedBy>>
                    \/ /\ state' = [state EXCEPT ![recJob] = "succeeded"]
                       /\ ConsumeGrants(recJob)
                    \/ /\ state' = [state EXCEPT ![recJob] = "canceled"]
                       /\ ReleaseTarget(recJob)
    BY <1>2, <2>a, ExecuteIsSafe, RollbackIsSafe DEF RecoverEnd
  <2>1. TypeOK'
    BY <1>2, <2>a, <2>b DEF TypeOK, JobStates, Terminal, GrantStates, SvcStates,
         SchedStates, WorkerStates, WorkerAlive, RecoverEnd, SetFs, Fs, ConsumeGrants,
         ReleaseTarget, Grants
  <2>2. SchedOK'
    BY <1>2, <2>a, <2>b DEF TypeOK, SchedOK, Executing, Managed, RecoverEnd
  <2>3. SvcOK'
    BY <1>2, <2>a, <2>b DEF TypeOK, SvcOK, External, RecoverEnd
  <2>4. QueueOK'
    BY <1>2, <2>a, <2>b DEF TypeOK, QueueOK, Managed, External, RecoverEnd
  <2>5. RunningIsOwned'
    BY <1>2, <2>a, <2>b DEF TypeOK, SchedOK, RunningIsOwned, Executing, Managed,
         RecoverEnd
  <2>6. ReservationsMatchJobs'
    BY <1>2, <2>a, <2>b DEF TypeOK, ReservationsMatchJobs, External, Grants,
         ConsumeGrants, ReleaseTarget
  <2>7. FirstInFirstOut'
    BY <1>2, <2>a, <2>b DEF TypeOK, QueueOK, FirstInFirstOut, Managed, RecoverEnd
  <2> QED
    BY <2>1, <2>2, <2>3, <2>4, <2>5, <2>6, <2>7
<1>3. CASE OtherHandlerCommits
  <2>1. TypeOK'
    BY <1>3 DEF TypeOK, JobStates, Terminal, GrantStates, SvcStates, SchedStates,
         WorkerStates, WorkerAlive, OtherHandlerCommits, CommittedGrants, Seen, Grants
  <2>2. SchedOK'
    BY <1>3 DEF TypeOK, SchedOK, Executing, Managed, OtherHandlerCommits,
         CommittedGrants, Seen
  <2>3. SvcOK'
    BY <1>3 DEF TypeOK, SvcOK, External, OtherHandlerCommits, CommittedGrants, Seen
  <2>4. QueueOK'
    BY <1>3 DEF TypeOK, QueueOK, Managed, External, OtherHandlerCommits,
         CommittedGrants, Seen
  <2>5. RunningIsOwned'
    BY <1>3 DEF TypeOK, SchedOK, RunningIsOwned, Executing, Managed,
         OtherHandlerCommits, CommittedGrants, Seen
  <2>6. ReservationsMatchJobs'
    BY <1>3 DEF TypeOK, QueueOK, Managed, ReservationsMatchJobs, External, Grants,
         OtherHandlerCommits, CommittedGrants, Seen, SvcOK
  <2>7. FirstInFirstOut'
    BY <1>3 DEF TypeOK, QueueOK, FirstInFirstOut, Managed, OtherHandlerCommits,
         CommittedGrants, Seen
  <2> QED
    BY <2>1, <2>2, <2>3, <2>4, <2>5, <2>6, <2>7
<1>4. CASE BeginRefused
  <2>1. TypeOK'
    BY <1>4 DEF TypeOK, JobStates, Terminal, GrantStates, SvcStates, SchedStates,
         WorkerStates, WorkerAlive, BeginRefused
  <2>2. SchedOK'
    BY <1>4 DEF TypeOK, SchedOK, Executing, Managed, BeginRefused
  <2>3. SvcOK'
    BY <1>4 DEF TypeOK, SvcOK, External, BeginRefused
  <2>4. QueueOK'
    BY <1>4 DEF TypeOK, QueueOK, Managed, External, BeginRefused
  <2>5. RunningIsOwned'
    BY <1>4 DEF TypeOK, SchedOK, RunningIsOwned, Executing, Managed, BeginRefused
  <2>6. ReservationsMatchJobs'
    BY <1>4 DEF TypeOK, QueueOK, Managed, ReservationsMatchJobs, External, Grants,
         BeginRefused
  <2>7. FirstInFirstOut'
    BY <1>4 DEF TypeOK, QueueOK, FirstInFirstOut, Managed, BeginRefused
  <2> QED
    BY <2>1, <2>2, <2>3, <2>4, <2>5, <2>6, <2>7
<1> QED
  BY <1>1, <1>2, <1>3, <1>4

(***************************************************************************)
(* The scheduler, while it executes a job, changes its own counter, the    *)
(* worker and the filesystem, and none of the rows: that much preserves    *)
(* the invariant whatever the step is.                                     *)
(***************************************************************************)
LEMMA MoveInd ==
    ASSUME IndInv, UNCHANGED <<dbVars, svcVars, cur, drifted>>,
           sched \in Executing, sched' \in Executing,
           outcome' \in Terminal \cup {"none", "orphaned"},
           sched' = "finishing" => outcome' # "none",
           lastTry' \in BOOLEAN, worker' \in [Jobs -> WorkerStates],
           dest' \in [Targets -> Content], stage' \in [Targets -> Stage]
    PROVE  IndInv'
<1> USE JobsAssumption DEF dbVars, svcVars, IndInv
<1>1. TypeOK'
  BY DEF TypeOK, SchedStates, Executing
<1>2. SchedOK'
  BY DEF SchedOK, TypeOK, Executing
<1>3. SvcOK' /\ QueueOK' /\ ReservationsMatchJobs' /\ FirstInFirstOut'
  BY DEF SvcOK, QueueOK, ReservationsMatchJobs, FirstInFirstOut
<1>4. RunningIsOwned'
  BY DEF RunningIsOwned, Executing
<1> QED
  BY <1>1, <1>2, <1>3, <1>4

(***************************************************************************)
(* A worker or the world outside changes processes, files and paths: the   *)
(* rows and the two threads are not touched.                               *)
(***************************************************************************)
LEMMA OutsideInd ==
    ASSUME IndInv, UNCHANGED <<dbVars, svcVars, schedVars>>,
           worker' \in [Jobs -> WorkerStates], drifted' \subseteq Sources,
           dest' \in [Targets -> Content], stage' \in [Targets -> Stage]
    PROVE  IndInv'
<1> USE DEF dbVars, svcVars, schedVars, IndInv
<1>1. TypeOK'
  BY DEF TypeOK
<1>2. SchedOK' /\ SvcOK' /\ QueueOK' /\ RunningIsOwned'
  BY DEF SchedOK, SvcOK, QueueOK, RunningIsOwned
<1>3. ReservationsMatchJobs' /\ FirstInFirstOut'
  BY DEF ReservationsMatchJobs, FirstInFirstOut
<1> QED
  BY <1>1, <1>2, <1>3

(***************************************************************************)
(* The steps of _execute between claim_next and finish.                    *)
(***************************************************************************)
LEMMA ExecutionInd ==
    ASSUME IndInv,
           \/ Prepare \/ Progress20 \/ Spawn \/ Progress50
           \/ PollRunning \/ PollExited \/ ResolveForcedCancel
    PROVE  IndInv'
<1> USE JobsAssumption DEF IndInv, Executing
<1>0. sched \in Executing => cur \in Jobs
  BY DEF SchedOK, Managed
<1>1. CASE Prepare
  <2>1. /\ UNCHANGED <<dbVars, svcVars, cur, drifted, worker, fsVars>>
        /\ sched \in Executing /\ sched' \in Executing
        /\ \/ sched' # "finishing" /\ UNCHANGED <<outcome, lastTry>>
           \/ outcome' = "failed" /\ lastTry' = TRUE
    BY <1>1 DEF Prepare, Goto, Conclude
  <2> QED
    BY <2>1, MoveInd DEF TypeOK, fsVars, Terminal
<1>2. CASE Progress20 \/ Progress50
  <2>1. /\ UNCHANGED <<dbVars, svcVars, cur, drifted, worker, fsVars, outcome, lastTry>>
        /\ sched \in Executing /\ sched' \in Executing \ {"finishing"}
    BY <1>2 DEF Progress20, Progress50, Goto
  <2> QED
    BY <2>1, MoveInd DEF TypeOK, fsVars
<1>3. CASE Spawn
  <2>1. /\ UNCHANGED <<dbVars, svcVars, cur, drifted, fsVars>>
        /\ sched \in Executing /\ sched' \in Executing
        /\ \/ sched' # "finishing" /\ UNCHANGED <<outcome, lastTry>>
           \/ outcome' \in {"failed", "orphaned"} /\ lastTry' = TRUE
        /\ UNCHANGED worker \/ worker' = [worker EXCEPT ![cur] = "started"]
    BY <1>3 DEF Spawn, Goto, Conclude, Interrupted
  <2>2. worker' \in [Jobs -> WorkerStates]
    BY <2>1 DEF TypeOK, WorkerStates, WorkerAlive
  <2> QED
    BY <2>1, <2>2, MoveInd DEF TypeOK, fsVars, Terminal
<1>4. CASE PollRunning \/ PollExited
  <2>1. /\ UNCHANGED <<dbVars, svcVars, cur, drifted, fsVars>>
        /\ sched \in Executing /\ sched' \in Executing
        /\ \/ sched' # "finishing" /\ UNCHANGED <<outcome, lastTry>>
           \/ outcome' \in Terminal \cup {"orphaned"} /\ lastTry' = FALSE
        /\ worker' = [worker EXCEPT ![cur] = "none"]
    BY <1>4 DEF PollRunning, PollExited, Goto, Conclude, ConcludeCancel, Interrupted,
                Reap, Terminal
  <2>2. worker' \in [Jobs -> WorkerStates]
    BY <2>1 DEF TypeOK, WorkerStates
  <2>3. outcome' \in Terminal \cup {"none", "orphaned"} /\ lastTry' \in BOOLEAN
    BY <2>1 DEF TypeOK
  <2>4. sched' = "finishing" => outcome' # "none"
    BY <2>1 DEF Terminal
  <2> QED
    BY <2>1, <2>2, <2>3, <2>4, MoveInd DEF TypeOK, fsVars
<1>5. CASE ResolveForcedCancel
  <2> DEFINE t == TargetOf[cur]
  <2>1. /\ UNCHANGED <<dbVars, svcVars, cur, worker, drifted>>
        /\ sched \in Executing /\ sched' \in Executing
        /\ outcome' \in {"orphaned", "succeeded", "canceled"} /\ lastTry' = FALSE
    BY <1>5 DEF ResolveForcedCancel
  <2>2. /\ t \in Targets /\ OpOf[cur] \in Operations /\ SourceOf[cur] \in Sources
        /\ FsOf(t) \in Fs
    BY <1>0, <2>1 DEF TypeOK, FsOf, Fs
  <2>3. UNCHANGED fsVars \/ \E o : o.fs \in Fs /\ SetFs(t, o.fs)
    BY <1>5, <2>2, ExecuteIsSafe, RollbackIsSafe DEF ResolveForcedCancel
  <2>4. dest' \in [Targets -> Content] /\ stage' \in [Targets -> Stage]
    BY <2>2, <2>3 DEF TypeOK, SetFs, fsVars, Fs
  <2> QED
    BY <2>1, <2>4, MoveInd DEF TypeOK, Terminal
<1> QED
  BY <1>1, <1>2, <1>3, <1>4, <1>5

(***************************************************************************)
(* claim_next, finish, and the ways the scheduler thread ends.             *)
(***************************************************************************)
LEMMA SchedulerInd ==
    ASSUME IndInv, SchedulerStep
    PROVE  IndInv'
<1> USE JobsAssumption DEF IndInv
<1>1. CASE \E j \in Jobs : Claim(j)
  <2>1. PICK j \in Jobs : Claim(j)
    BY <1>1
  <2>a. /\ j \in Managed /\ state[j] = "queued" /\ sched = "idle"
        /\ \A i \in Managed : state[i] = "queued" => rowid[j] <= rowid[i]
    BY <2>1 DEF Claim, Oldest
  <2>2. TypeOK'
    BY <2>1 DEF TypeOK, Claim, svcVars, fsVars, JobStates, SchedStates
  <2>3. SchedOK' /\ RunningIsOwned'
    BY <2>1, <2>a DEF TypeOK, SchedOK, RunningIsOwned, Claim, Executing, svcVars, SvcStates,
                      WriteLocked, Managed
  <2>4. SvcOK' /\ QueueOK'
    BY <2>1, <2>a DEF TypeOK, SvcOK, QueueOK, Claim, svcVars, Managed, External
  <2>5. ReservationsMatchJobs'
    BY <2>1, <2>a DEF TypeOK, ReservationsMatchJobs, Claim, External
  <2>6. FirstInFirstOut'
    BY <2>1, <2>a DEF TypeOK, FirstInFirstOut, Claim, Managed
  <2> QED
    BY <2>2, <2>3, <2>4, <2>5, <2>6
<1>2. CASE Finish
  <2>a. cur \in Managed /\ cur \in Jobs /\ state[cur] = "running" /\ outcome # "none"
    BY <1>2 DEF Finish, SchedOK, Executing, Managed
  <2>b. pending = {} /\ svc # "recovering"
    BY <1>2 DEF Finish, WriteLocked
  <2>c. \/ cur \notin External /\ UNCHANGED <<grant, reservedBy>>
        \/ cur \in External /\ outcome = "succeeded" /\ ConsumeGrants(cur)
        \/ /\ cur \in External /\ outcome = "orphaned"
           /\ grant' = [grant EXCEPT ![TargetOf[cur]] = "recovery_required"]
           /\ UNCHANGED reservedBy
        \/ cur \in External /\ outcome \in {"failed", "canceled"} /\ ReleaseTarget(cur)
    BY <1>2, <2>a DEF Finish, SettleGrants, TypeOK, Terminal
  <2>1. TypeOK'
    BY <1>2, <2>a, <2>c DEF TypeOK, Finish, ConsumeGrants, ReleaseTarget, svcVars, fsVars,
         JobStates, Terminal, GrantStates, SchedStates, Grants
  <2>2. SchedOK' /\ RunningIsOwned'
    BY <1>2, <2>a DEF TypeOK, SchedOK, RunningIsOwned, Finish, Executing, svcVars, Managed,
         Terminal
  <2>3. SvcOK' /\ QueueOK'
    BY <1>2, <2>a, <2>b DEF TypeOK, SvcOK, QueueOK, Finish, svcVars, Managed, Terminal
  <2>4. ReservationsMatchJobs'
    BY <1>2, <2>a, <2>c DEF TypeOK, ReservationsMatchJobs, Finish, ConsumeGrants,
         ReleaseTarget,
         External, Terminal, Grants
  <2>5. FirstInFirstOut'
    BY <1>2, <2>a DEF TypeOK, FirstInFirstOut, Finish, Managed, Terminal
  <2> QED
    BY <2>1, <2>2, <2>3, <2>4, <2>5
<1>3. CASE SchedulerBusyTimeout
  <2>1. CASE /\ sched = "spawned" \/ (sched = "finishing" /\ ~lastTry)
             /\ Reap /\ Conclude(Interrupted(cur), TRUE)
    <3>1. /\ UNCHANGED <<dbVars, svcVars, cur, drifted, fsVars>>
          /\ sched \in Executing /\ sched' \in Executing
          /\ outcome' \in {"failed", "orphaned"} /\ lastTry' = TRUE
      BY <2>1 DEF Goto, Conclude, Interrupted, Executing
    <3>2. worker' \in [Jobs -> WorkerStates]
      BY <2>1 DEF TypeOK, Reap, WorkerStates
    <3> QED
      BY <3>1, <3>2, MoveInd DEF TypeOK, fsVars, Terminal
  <2>2. CASE sched # "down" /\ Goto("dead") /\ UNCHANGED <<cur, outcome, lastTry, worker>>
    <3> USE <2>2 DEF Goto, dbVars, svcVars, fsVars
    <3>1. TypeOK' /\ SchedOK'
      BY DEF TypeOK, SchedOK, SchedStates, Executing
    <3>2. SvcOK' /\ QueueOK' /\ RunningIsOwned'
      BY DEF SvcOK, QueueOK, RunningIsOwned
    <3>3. ReservationsMatchJobs' /\ FirstInFirstOut'
      BY DEF ReservationsMatchJobs, FirstInFirstOut
    <3> QED
      BY <3>1, <3>2, <3>3
  <2> QED
    BY <1>3, <2>1, <2>2 DEF SchedulerBusyTimeout
<1>4. CASE SchedulerStops
  <2> USE <1>4 DEF SchedulerStops, Goto, dbVars, svcVars, fsVars
  <2>1. TypeOK' /\ SchedOK'
    BY DEF TypeOK, SchedOK, SchedStates, Executing
  <2>2. SvcOK' /\ QueueOK' /\ RunningIsOwned'
    BY DEF SvcOK, QueueOK, RunningIsOwned, Executing
  <2>3. ReservationsMatchJobs' /\ FirstInFirstOut'
    BY DEF ReservationsMatchJobs, FirstInFirstOut
  <2> QED
    BY <2>1, <2>2, <2>3
<1> QED
  BY <1>1, <1>2, <1>3, <1>4, ExecutionInd DEF SchedulerStep

(***************************************************************************)
(* What a worker may do to the filesystem: its destination and its stage   *)
(* stay filesystems of the model, and visible bytes stay.                  *)
(***************************************************************************)
LEMMA WorkerIsSafe ==
    ASSUME TypeOK, NEW j \in Jobs, WorkerStep(j)
    PROVE  /\ UNCHANGED <<dbVars, svcVars, schedVars, drifted>>
           /\ worker' \in [Jobs -> WorkerStates]
           /\ dest' \in [Targets -> Content] /\ stage' \in [Targets -> Stage]
           /\ \A t \in Targets : dest[t] # Absent => dest'[t] = dest[t]
<1> USE JobsAssumption DEF workerFrame, fsVars
<1> DEFINE t == TargetOf[j]
           s == SourceOf[j]
<1>a. /\ t \in Targets /\ s \in Sources /\ OpOf[j] \in Operations /\ FsOf(t) \in Fs
      /\ FsOf(t).dest = dest[t] /\ FsOf(t).stage = stage[t]
  BY DEF TypeOK, FsOf, Fs
<1>b. \A w \in WorkerStates : WorkerGoes(j, w) => worker' \in [Jobs -> WorkerStates]
  BY DEF TypeOK, WorkerGoes
<1>c. {"ok", "err", "checked", "entering", "staging", "staged", "published"}
         \subseteq WorkerStates
  BY DEF WorkerStates, WorkerAlive
<1>1. CASE WorkerReadOnly(j) \/ WorkerPreflight(j) \/ WorkerFail(j)
  BY <1>1, <1>b, <1>c DEF TypeOK, WorkerReadOnly, WorkerPreflight, WorkerFail
<1>2. CASE WorkerExecute(j)
  <2>1. CASE dest[t] = Absent
    BY <1>2, <2>1, <1>b, <1>c DEF TypeOK, WorkerExecute
  <2>2. CASE dest[t] # Absent
    <3> DEFINE o == ExecuteVisible(OpOf[j], s, FsOf(t))
    <3>2. o.fs \in Fs /\ o.fs.dest = dest[t]
      BY <1>a, VisibleIsSafe
    <3>3. /\ SetFs(t, o.fs) /\ UNCHANGED workerFrame
          /\ WorkerGoes(j, "ok") \/ WorkerGoes(j, "err")
      BY <1>2, <2>2 DEF WorkerExecute
    <3> HIDE DEF o
    <3>4. /\ dest' \in [Targets -> Content] /\ stage' \in [Targets -> Stage]
          /\ \A u \in Targets : dest'[u] = dest[u]
      BY <1>a, <3>2, <3>3 DEF TypeOK, SetFs, Fs
    <3> QED
      BY <1>b, <1>c, <3>3, <3>4
  <2> QED
    BY <2>1, <2>2
<1>3. CASE WorkerEnter(j)
  <2>1. CASE ~Journaled(OpOf[j])
    BY <1>3, <2>1, <1>b, <1>c DEF TypeOK, WorkerEnter
  <2>2. CASE Journaled(OpOf[j]) /\ stage[t] # NoStage
    <3> DEFINE o == EnterWithJournal(OpOf[j], s, FsOf(t))
    <3>1. \E d \in {stage[t].src, dest[t]}, g \in {stage[t], NoStage}, ok \in BOOLEAN :
             o = Outcome(d, g, ok) /\ (dest[t] # Absent => d = dest[t])
      BY <1>a DEF EnterWithJournal
    <3>2. {stage[t].src, dest[t]} \subseteq Content /\ {stage[t], NoStage} \subseteq Stage
      BY <1>a DEF TypeOK, Stage, Content, NoStage
    <3>3. o.fs \in Fs /\ (dest[t] # Absent => o.fs.dest = dest[t])
      BY <3>1, <3>2, OutcomeFields
    <3>4. /\ SetFs(t, o.fs) /\ UNCHANGED workerFrame
          /\ WorkerGoes(j, "ok") \/ WorkerGoes(j, "err")
      BY <1>3, <2>2 DEF WorkerEnter
    <3>5. /\ dest' \in [Targets -> Content] /\ stage' \in [Targets -> Stage]
          /\ \A u \in Targets : dest[u] # Absent => dest'[u] = dest[u]
      BY <1>a, <3>3, <3>4 DEF TypeOK, SetFs, Fs
    <3> QED
      BY <1>b, <1>c, <3>4, <3>5
  <2>3. CASE Journaled(OpOf[j]) /\ stage[t] = NoStage
    <3>1. /\ dest[t] = Absent /\ WorkerGoes(j, "staging") /\ UNCHANGED workerFrame
          /\ SetFs(t, [dest |-> Absent, stage |-> [src |-> s, full |-> FALSE]])
      BY <1>3, <2>3 DEF WorkerEnter
    <3>2. /\ dest' \in [Targets -> Content] /\ stage' \in [Targets -> Stage]
          /\ \A u \in Targets : dest'[u] = dest[u]
      BY <1>a, <3>1 DEF TypeOK, SetFs, Stage
    <3> QED
      BY <1>b, <1>c, <3>1, <3>2
  <2> QED
    BY <2>1, <2>2, <2>3
<1>4. CASE WorkerStaged(j)
  <2>1. [stage[t] EXCEPT !.full = TRUE] \in Stage
    <3>1. stage[t] \in Stage
      BY <1>a DEF TypeOK
    <3>2. \A g \in Stage : [g EXCEPT !.full = TRUE] \in Stage
      BY DEF Stage
    <3> QED
      BY <3>1, <3>2
  <2>2. stage' = [stage EXCEPT ![t] = [stage[t] EXCEPT !.full = TRUE]]
    BY <1>4, <1>a DEF TypeOK, WorkerStaged
  <2>3. stage' \in [Targets -> Stage]
    BY <1>a, <2>1, <2>2 DEF TypeOK
  <2> QED
    BY <1>4, <2>3, <1>b, <1>c DEF TypeOK, WorkerStaged
<1>5. CASE WorkerPublish(j)
  BY <1>5, <1>a, <1>b, <1>c DEF TypeOK, WorkerPublish, Content
<1>6. CASE WorkerFinish(j)
  <2>1. WorkerGoes(j, "ok") \/ WorkerGoes(j, "err")
    BY <1>6 DEF WorkerFinish
  <2>2. stage' \in [Targets -> Stage]
    BY <1>6, <1>a DEF TypeOK, WorkerFinish, Stage, NoStage
  <2> QED
    BY <1>6, <2>1, <2>2, <1>b, <1>c DEF TypeOK, WorkerFinish
<1> QED
  BY <1>1, <1>2, <1>3, <1>4, <1>5, <1>6 DEF WorkerStep

(***************************************************************************)
(* Shutdown, exit, crash and restart.                                      *)
(***************************************************************************)
LEMMA LifetimeInd ==
    ASSUME IndInv, Shutdown \/ CloseStore \/ Exit \/ Crash \/ Start
    PROVE  IndInv'
<1> USE JobsAssumption DEF IndInv, dbVars, fsVars
<1>1. CASE Shutdown \/ CloseStore
  <2> USE <1>1 DEF Shutdown, CloseStore, schedVars
  <2>1. TypeOK' /\ SchedOK'
    BY DEF TypeOK, SchedOK, SvcStates
  <2>2. SvcOK' /\ QueueOK' /\ RunningIsOwned'
    BY DEF SvcOK, QueueOK, RunningIsOwned
  <2>3. ReservationsMatchJobs' /\ FirstInFirstOut'
    BY DEF ReservationsMatchJobs, FirstInFirstOut
  <2> QED
    BY <2>1, <2>2, <2>3
<1>2. CASE Exit \/ Crash
  <2>1. ProcessGone
    BY <1>2 DEF Exit, Crash
  <2> USE <2>1 DEF ProcessGone
  <2>2. TypeOK' /\ SchedOK'
    BY DEF TypeOK, SchedOK, SvcStates, SchedStates, Executing, WorkerStates
  <2>3. SvcOK' /\ QueueOK' /\ RunningIsOwned'
    BY DEF SvcOK, QueueOK, RunningIsOwned
  <2>4. ReservationsMatchJobs' /\ FirstInFirstOut'
    BY DEF ReservationsMatchJobs, FirstInFirstOut
  <2> QED
    BY <2>2, <2>3, <2>4
<1>3. CASE Start
  <2> USE <1>3 DEF Start
  <2>0. \A j \in Jobs : state'[j] = IF state[j] = "running" THEN "orphaned" ELSE state[j]
    BY DEF StateOnStart, InterruptedByRestart
  <2>a. \A t \in Targets :
          grant'[t] = IF \E j \in External : state[j] = "running" /\ TargetOf[j] = t
                      THEN "recovery_required" ELSE grant[t]
    BY DEF GrantOnStart, InterruptedByRestart, Grants
  <2>1. TypeOK'
    <3>1. state' \in [Jobs -> JobStates]
      BY <2>0 DEF TypeOK, JobStates
    <3>2. grant' \in [Grants -> GrantStates]
      BY DEF TypeOK, GrantOnStart, GrantStates
    <3> QED
      BY <3>1, <3>2 DEF TypeOK, SvcStates, SchedStates
  <2>2. SchedOK' /\ RunningIsOwned'
    BY <2>0 DEF SchedOK, RunningIsOwned, Executing, Managed
  <2>3. SvcOK'
    BY <2>0 DEF SvcOK, SchedOK
  <2>4. QueueOK'
    BY <2>0 DEF QueueOK, Managed, TypeOK
  <2>5. ReservationsMatchJobs'
    <3>1. \A j \in External : j \in Jobs /\ TargetOf[j] \in Targets
      BY DEF External
    <3>2. ASSUME NEW j \in External
          PROVE  LET t == TargetOf[j] IN
                 /\ state'[j] \in {"queued", "running"}
                       => grant'[t] = "reserved" /\ reservedBy'[t] = j
                 /\ state'[j] = "orphaned"
                       => grant'[t] = "recovery_required" /\ reservedBy'[t] = j
                 /\ state'[j] = "succeeded"
                       => grant'[t] = "consumed" /\ reservedBy'[t] = j
      <4>1. j \in Jobs /\ TargetOf[j] \in Targets
        BY <3>1
      <4>2. CASE state[j] = "running"
        <5>1. state'[j] = "orphaned" /\ grant'[TargetOf[j]] = "recovery_required"
          BY <2>0, <2>a, <4>1, <4>2
        <5> QED
          BY <4>2, <5>1 DEF ReservationsMatchJobs
      <4>3. CASE state[j] # "running" /\ state[j] \in {"queued", "orphaned", "succeeded"}
        <5>1. reservedBy[TargetOf[j]] = j
          BY <4>3 DEF ReservationsMatchJobs
        <5>2. ~\E i \in External : state[i] = "running" /\ TargetOf[i] = TargetOf[j]
          BY <4>3, <5>1 DEF ReservationsMatchJobs
        <5>3. state'[j] = state[j] /\ grant'[TargetOf[j]] = grant[TargetOf[j]]
          BY <2>0, <2>a, <4>1, <4>3, <5>2
        <5> QED
          BY <4>3, <5>3 DEF ReservationsMatchJobs
      <4> QED
        BY <2>0, <4>1, <4>2, <4>3
    <3>3. ASSUME NEW t \in Targets
          PROVE  /\ reservedBy'[t] # NoJob =>
                       /\ reservedBy'[t] \in External
                       /\ TargetOf[reservedBy'[t]] = t
                       /\ state'[reservedBy'[t]] \in
                             {"queued", "running", "orphaned", "succeeded"}
                 /\ reservedBy'[t] = NoJob => grant'[t] \in {"absent", "ready", "revoked"}
      BY <2>0, <2>a, <3>1 DEF ReservationsMatchJobs
    <3> QED
      BY <3>2, <3>3 DEF ReservationsMatchJobs
  <2>6. FirstInFirstOut'
    BY <2>0 DEF FirstInFirstOut, Managed
  <2> QED
    BY <2>1, <2>2, <2>3, <2>4, <2>5, <2>6
<1> QED
  BY <1>1, <1>2, <1>3

(***************************************************************************)
(* Every step preserves the invariant.                                     *)
(***************************************************************************)
LEMMA NextInd ==
    ASSUME IndInv, [Next]_vars
    PROVE  IndInv'
<1> USE JobsAssumption
<1>1. CASE \/ \E g \in Grants : GrantCreate(g) \/ GrantRevoke(g)
           \/ \E j \in Jobs : JobCreate(j) \/ JobCancel(j) \/ JobTransition(j)
  <2>1. CASE \E g \in Grants : GrantCreate(g) \/ GrantRevoke(g)
    BY <2>1, GrantsInd
  <2>2. CASE \E j \in Jobs : JobCreate(j) \/ JobCancel(j) \/ JobTransition(j)
    BY <2>2, RequestsInd
  <2> QED
    BY <1>1, <2>1, <2>2
<1>2. CASE \/ \E j \in Jobs, a \in {"resume", "rollback"} : RecoverBegin(j, a)
           \/ RecoverEnd \/ OtherHandlerCommits \/ BeginRefused
  BY <1>2, RecoveryInd
<1>3. CASE SchedulerStep
  BY <1>3, SchedulerInd
<1>4. CASE \E j \in Jobs : WorkerStep(j)
  BY <1>4, WorkerIsSafe, OutsideInd DEF IndInv, TypeOK
<1>5. CASE Shutdown \/ CloseStore \/ Exit \/ Crash \/ Start
  BY <1>5, LifetimeInd
<1>6. CASE \E s \in Sources : SourceDrifts(s)
  BY <1>6, OutsideInd DEF SourceDrifts, IndInv, TypeOK, fsVars
<1>7. CASE \E t \in Targets : ForeignAppears(t)
  BY <1>7, OutsideInd DEF ForeignAppears, IndInv, TypeOK, Content
<1>8. CASE UNCHANGED vars
  BY <1>8, OutsideInd DEF vars, IndInv, TypeOK, fsVars
<1> QED
  BY <1>1, <1>2, <1>3, <1>4, <1>5, <1>6, <1>7, <1>8 DEF Next

(***************************************************************************)
(* The invariant holds throughout.                                         *)
(***************************************************************************)
LEMMA Invariance == Spec => []IndInv
<1>1. Init => IndInv
  BY InitInd
<1>2. IndInv /\ [Next]_vars => IndInv'
  BY NextInd
<1> QED
  BY <1>1, <1>2, PTL DEF Spec

-----------------------------------------------------------------------------
(* The theorems *)

(***************************************************************************)
(* Type correctness: every variable, the job states and grant states of    *)
(* the database among them, stays in its declared domain.                  *)
(***************************************************************************)
THEOREM TypeCorrect == Spec => []TypeOK
<1>1. IndInv => TypeOK
  BY DEF IndInv
<1> QED
  BY <1>1, Invariance, PTL

(***************************************************************************)
(* For any number of jobs: a managed job is recorded as running only while *)
(* the scheduler thread is executing it, or the thread or process is gone. *)
(***************************************************************************)
THEOREM RunningOwned == Spec => []RunningIsOwned
<1>1. IndInv => RunningIsOwned
  BY DEF IndInv
<1> QED
  BY <1>1, Invariance, PTL

(***************************************************************************)
(* The job table and the grant table never disagree about who holds a      *)
(* destination, across cancellation, recovery, crash and restart.          *)
(***************************************************************************)
THEOREM ReservationsAgree == Spec => []ReservationsMatchJobs
<1>1. IndInv => ReservationsMatchJobs
  BY DEF IndInv
<1> QED
  BY <1>1, Invariance, PTL

(***************************************************************************)
(* Jobs are claimed in the order they were created, across restarts.       *)
(***************************************************************************)
THEOREM ClaimedInOrder == Spec => []FirstInFirstOut
<1>1. IndInv => FirstInFirstOut
  BY DEF IndInv
<1> QED
  BY <1>1, Invariance, PTL

(***************************************************************************)
(* What a step may do to the bytes at a destination.                       *)
(***************************************************************************)
LEMMA StepKeepsVisible ==
    ASSUME IndInv, [Next]_vars, NEW t \in Targets, dest[t] # Absent
    PROVE  dest'[t] = dest[t]
<1> USE JobsAssumption
<1>1. CASE UNCHANGED dest
  BY <1>1
<1>2. CASE RecoverEnd
  <2>1. /\ recJob \in Jobs /\ TargetOf[recJob] \in Targets /\ FsOf(TargetOf[recJob]) \in Fs
        /\ OpOf[recJob] \in Operations /\ SourceOf[recJob] \in Sources
        /\ FsOf(TargetOf[recJob]).dest = dest[TargetOf[recJob]]
    BY <1>2 DEF IndInv, RecoverEnd, SvcOK, TypeOK, External, FsOf, Fs
  <2>2. PICK o : /\ SetFs(TargetOf[recJob], o.fs)
                 /\ dest[TargetOf[recJob]] # Absent => o.fs.dest = dest[TargetOf[recJob]]
    BY <1>2, <2>1, ExecuteIsSafe, RollbackIsSafe DEF RecoverEnd
  <2> QED
    BY <2>1, <2>2 DEF SetFs, IndInv, TypeOK
<1>3. CASE ResolveForcedCancel
  <2>1. /\ cur \in Jobs /\ TargetOf[cur] \in Targets /\ FsOf(TargetOf[cur]) \in Fs
        /\ OpOf[cur] \in Operations /\ SourceOf[cur] \in Sources
        /\ FsOf(TargetOf[cur]).dest = dest[TargetOf[cur]]
    BY <1>3 DEF IndInv, ResolveForcedCancel, SchedOK, Executing, Managed, TypeOK, FsOf, Fs
  <2> DEFINE d == TargetOf[cur]
             E == ExecuteOutcomes(OpOf[cur], SourceOf[cur], FsOf(d), DestinationBusy(d),
                                  SourceOf[cur] \in drifted)
             R == RollbackOutcomes(OpOf[cur], FsOf(d), DestinationBusy(d))
  <2>2. \A o \in E : dest[d] # Absent => o.fs.dest = dest[d]
    BY <2>1, ExecuteIsSafe
  <2>3. \A o \in R : o.fs.dest = dest[d]
    BY <2>1, RollbackIsSafe
  <2>4. UNCHANGED dest \/ \E o \in E \cup R : SetFs(d, o.fs)
    BY <1>3 DEF ResolveForcedCancel, fsVars
  <2> HIDE DEF d, E, R
  <2> QED
    BY <2>1, <2>2, <2>3, <2>4 DEF SetFs, IndInv, TypeOK, d
<1>4. CASE \E j \in Jobs : WorkerStep(j)
  BY <1>4, WorkerIsSafe DEF IndInv
<1>5. CASE \E u \in Targets : ForeignAppears(u)
  BY <1>5 DEF ForeignAppears, IndInv, TypeOK
<1>6. CASE \/ \E g \in Grants : GrantCreate(g) \/ GrantRevoke(g)
           \/ \E j \in Jobs : JobCreate(j) \/ JobCancel(j) \/ JobTransition(j)
           \/ \E j \in Jobs, a \in {"resume", "rollback"} : RecoverBegin(j, a)
           \/ OtherHandlerCommits \/ BeginRefused
           \/ Shutdown \/ CloseStore \/ Exit \/ Crash \/ Start
           \/ \E s \in Sources : SourceDrifts(s)
  BY <1>1, <1>6 DEF GrantCreate, GrantRevoke, JobCreate, JobCancel, JobTransition,
       RecoverBegin,
       OtherHandlerCommits, BeginRefused, Shutdown, CloseStore, Exit, Crash, Start, ProcessGone,
       SourceDrifts, fsVars
<1>7. CASE SchedulerStep /\ ~ResolveForcedCancel
  <2>1. CASE \/ \E j \in Jobs : Claim(j)
             \/ Prepare \/ Progress20 \/ Spawn \/ Progress50 \/ Finish \/ SchedulerStops
    BY <1>1, <2>1 DEF Claim, Prepare, Progress20, Spawn, Progress50, Finish, SchedulerStops,
         Goto, Conclude, fsVars
  <2>2. CASE PollRunning \/ PollExited \/ SchedulerBusyTimeout
    BY <1>1, <2>2 DEF PollRunning, PollExited, SchedulerBusyTimeout, ConcludeCancel, Goto,
         Conclude, fsVars
  <2> QED
    BY <1>7, <2>1, <2>2 DEF SchedulerStep
<1>8. CASE UNCHANGED vars
  BY <1>1, <1>8 DEF vars, fsVars
<1> QED
  BY <1>2, <1>3, <1>4, <1>5, <1>6, <1>7, <1>8 DEF Next

(***************************************************************************)
(* No step of a worker, of recover(), of a forced cancellation or of       *)
(* anybody else removes or replaces bytes that are visible at a            *)
(* destination.                                                            *)
(***************************************************************************)
THEOREM VisibleBytesKept == Spec => VisibleBytesStay
<1>1. IndInv /\ [Next]_vars =>
        [\A t \in Targets : dest[t] # Absent => dest'[t] = dest[t]]_vars
  BY StepKeepsVisible
<1> QED
  BY <1>1, Invariance, PTL DEF Spec, VisibleBytesStay

(***************************************************************************)
(* What a step may do to the state of a managed job: only claim_next makes *)
(* it running, and only finish(), recover() and a cancellation end it.     *)
(***************************************************************************)
LEMMA StepNeverReruns ==
    ASSUME IndInv, [Next]_vars, NEW j \in Managed
    PROVE  /\ state[j] \in Terminal => state'[j] = state[j]
           /\ state[j] = "orphaned" => state'[j] \in {"orphaned", "canceled", "succeeded"}
           /\ j \in claimed /\ state[j] # "running" => state'[j] # "running"
<1> USE JobsAssumption DEF IndInv, Terminal
<1>0. j \in Jobs /\ state \in [Jobs -> JobStates]
  BY DEF TypeOK, Managed
<1>1. CASE UNCHANGED state
  BY <1>1
<1>2. CASE \E i \in Jobs : JobCreate(i) \/ JobCancel(i) \/ JobTransition(i)
  <2>1. PICK i \in Jobs : JobCreate(i) \/ JobCancel(i) \/ JobTransition(i)
    BY <1>2
  <2>2. CASE JobCreate(i)
    BY <1>0, <2>2 DEF JobCreate
  <2>3. CASE JobCancel(i)
    BY <1>0, <2>3 DEF JobCancel
  <2>4. CASE JobTransition(i)
    BY <1>0, <2>4 DEF JobTransition
  <2> QED
    BY <2>1, <2>2, <2>3, <2>4
<1>3. CASE RecoverEnd
  <2>1. state[recJob] = "orphaned" /\ recJob \in Jobs
    BY <1>3 DEF RecoverEnd, SvcOK, External
  <2>2. \/ UNCHANGED state
        \/ \E s \in {"succeeded", "canceled"} : state' = [state EXCEPT ![recJob] = s]
    BY <1>3 DEF RecoverEnd
  <2> QED
    BY <1>0, <2>1, <2>2
<1>4. CASE \E i \in Jobs : Claim(i)
  BY <1>0, <1>4 DEF Claim, Oldest, QueueOK
<1>5. CASE Finish
  BY <1>0, <1>5 DEF Finish, TypeOK
<1>6. CASE Start
  BY <1>0, <1>6 DEF Start, StateOnStart, InterruptedByRestart
<1>7. CASE \/ \E g \in Grants : GrantCreate(g) \/ GrantRevoke(g)
           \/ \E i \in Jobs, a \in {"resume", "rollback"} : RecoverBegin(i, a)
           \/ OtherHandlerCommits \/ BeginRefused
           \/ Shutdown \/ CloseStore \/ Exit \/ Crash
           \/ \E s \in Sources : SourceDrifts(s)
           \/ \E t \in Targets : ForeignAppears(t)
  BY <1>1, <1>7 DEF GrantCreate, GrantRevoke, RecoverBegin, OtherHandlerCommits,
       BeginRefused,
       Shutdown, CloseStore, Exit, Crash, ProcessGone, SourceDrifts, ForeignAppears, dbVars
<1>8. CASE \E i \in Jobs : WorkerStep(i)
  BY <1>1, <1>8, WorkerIsSafe DEF dbVars
<1>9. CASE \/ Prepare \/ Progress20 \/ Spawn \/ Progress50 \/ SchedulerStops
           \/ PollRunning \/ PollExited \/ ResolveForcedCancel \/ SchedulerBusyTimeout
  <2>1. CASE Prepare \/ Progress20 \/ Spawn \/ Progress50 \/ SchedulerStops
    BY <1>1, <2>1 DEF Prepare, Progress20, Spawn, Progress50, SchedulerStops, Goto,
         Conclude, dbVars
  <2>2. CASE PollRunning \/ PollExited \/ ResolveForcedCancel \/ SchedulerBusyTimeout
    BY <1>1, <2>2 DEF PollRunning, PollExited, ResolveForcedCancel, SchedulerBusyTimeout,
         ConcludeCancel, Goto, Conclude, dbVars
  <2> QED
    BY <1>9, <2>1, <2>2
<1>10. CASE UNCHANGED vars
  BY <1>1, <1>10 DEF vars, dbVars
<1> QED
  BY <1>2, <1>3, <1>4, <1>5, <1>6, <1>7, <1>8, <1>9, <1>10 DEF Next, SchedulerStep

(***************************************************************************)
(* A job is executed at most once, whatever crashes and restarts happen,   *)
(* and a recorded end is final.                                            *)
(***************************************************************************)
THEOREM ExecutedAtMostOnce == Spec => NoSecondExecution
<1>1. IndInv /\ [Next]_vars =>
        [\A j \in Managed :
           /\ state[j] \in Terminal => state'[j] = state[j]
           /\ state[j] = "orphaned" => state'[j] \in {"orphaned", "canceled", "succeeded"}
           /\ j \in claimed /\ state[j] # "running" => state'[j] # "running"]_vars
  BY StepNeverReruns
<1> QED
  BY <1>1, Invariance, PTL DEF Spec, NoSecondExecution

=============================================================================
