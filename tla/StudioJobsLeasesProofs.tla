----------------------- MODULE StudioJobsLeasesProofs -----------------------
(***************************************************************************)
(* StudioJobs implements ArtifactLeases: in lifetimes without a kill, each *)
(* step of the service, the scheduler thread or a worker is a step of a    *)
(* lease, or none.                                                         *)
(***************************************************************************)
EXTENDS StudioJobsOutcomesProofs

-----------------------------------------------------------------------------
(* Journals are retired before a success is reported                       *)

(* A job that is about to be recorded as succeeded, or whose worker reports *)
(* it, has retired its journal; only an external job has one to resolve.    *)
RetiredOK ==
    /\ sched = "resolving" => cur \in External
    /\ \A j \in External :
        /\ worker[j] = "ok" => stage[TargetOf[j]] = NoStage
        /\ cur = j /\ sched = "finishing" /\ outcome = "succeeded" =>
              stage[TargetOf[j]] = NoStage

Active == {"queued", "running", "orphaned"}

LeaseInv == LeftInv /\ SuccessOK /\ RetiredOK

(***************************************************************************)
(* What an execution does beside its own stage: it shows the source's      *)
(* bytes or nothing new, and success leaves no stage.                      *)
(***************************************************************************)
LEMMA ExecuteWrites ==
    ASSUME NEW op \in Operations, NEW s \in Sources, NEW f \in Fs, NEW busy, NEW moved,
           StageOf(op, s, f.stage),
           NEW o \in ExecuteOutcomes(op, s, f, busy, moved)
    PROVE  /\ o.fs.dest \in {f.dest, s}
           /\ o.ok => o.fs.dest = s /\ o.fs.stage = NoStage
<1>1. CASE o = Outcome(f.dest, f.stage, FALSE)
  BY <1>1 DEF Outcome
<1>2. CASE o = ExecuteVisible(op, s, f)
  <2>1. o.fs.dest = f.dest /\ (o.ok => o.fs.dest = s)
    BY <1>2, VisibleEffect, VisibleIsSafe
  <2>2. CASE f.stage = NoStage
    BY <1>2, <2>1, <2>2, VisibleEffect
  <2>3. CASE f.stage # NoStage
    BY <1>2, <2>1, <2>3 DEF ExecuteVisible, Outcome, StageOf
  <2> QED
    BY <2>1, <2>2, <2>3
<1>3. CASE o = EnterWithJournal(op, s, f) /\ f.stage # NoStage
  BY <1>3 DEF EnterWithJournal, Outcome, StageOf, NoStage
<1>4. CASE o \in FreshOutcomes(op, s) /\ f.dest = Absent
  <2>1. \/ \E ok \in BOOLEAN : o = Outcome(s, NoStage, ok)
        \/ o = Outcome(Absent, NoStage, FALSE)
        \/ /\ Journaled(op)
           /\ \E d \in {s, Absent}, b \in BOOLEAN :
                 o = Outcome(d, [src |-> s, full |-> b], FALSE)
    BY <1>4 DEF FreshOutcomes
  <2> QED
    BY <1>4, <2>1 DEF Outcome
<1> QED
  BY <1>1, <1>2, <1>3, <1>4 DEF ExecuteOutcomes

(***************************************************************************)
(* A worker shows only its own bytes, and reports success only after its   *)
(* journal is retired.                                                     *)
(***************************************************************************)
LEMMA WorkerWrites ==
    ASSUME LeftInv, NEW j \in External, WorkerStep(j)
    PROVE  /\ state[j] = "running" /\ cur = j /\ sched # "finishing"
           /\ dest'[TargetOf[j]] \in {dest[TargetOf[j]], SourceOf[j]}
           /\ worker'[j] = "ok" => stage'[TargetOf[j]] = NoStage
<1> USE JobsAssumption DEF LeftInv, IndInv
<1>1. PICK t \in Targets, s \in Sources, op \in Operations :
         t = TargetOf[j] /\ s = SourceOf[j] /\ op = OpOf[j]
  BY DEF External
<1>2. sched \in {"spawned", "polling"} /\ cur = j /\ state[j] = "running"
  <2>1. worker[j] \in WorkerAlive /\ j \in Jobs
    BY DEF WorkerStep, WorkerReadOnly, WorkerPreflight, WorkerExecute, WorkerEnter,
       WorkerStaged, WorkerPublish, WorkerFinish, WorkerFail, WorkerAlive, External
  <2> QED
    BY <2>1 DEF WorkerOK, WorkerAlive, SchedOK, Executing
<1>3. StageOf(op, s, stage[t])
  BY <1>1, <1>2, AtWork DEF LeftInv
<1>4. /\ FsOf(t) \in Fs /\ FsOf(t).dest = dest[t] /\ FsOf(t).stage = stage[t]
  BY DEF TypeOK, FsOf, Fs
<1>5. ASSUME NEW w, WorkerGoes(j, w)
      PROVE  worker'[j] = w
  BY <1>5 DEF WorkerGoes, TypeOK, External
<1>6. ASSUME NEW f, SetFs(t, f)
      PROVE  dest'[t] = f.dest /\ stage'[t] = f.stage
  BY <1>6 DEF SetFs, TypeOK
<1> SUFFICES /\ dest'[t] \in {dest[t], s}
             /\ worker'[j] = "ok" => stage'[t] = NoStage
  BY <1>1, <1>2
<1>7. CASE \/ WorkerReadOnly(j) \/ WorkerPreflight(j) \/ WorkerStaged(j) \/ WorkerFail(j)
           \/ WorkerPublish(j)
  BY <1>1, <1>5, <1>7 DEF WorkerReadOnly, WorkerPreflight, WorkerStaged, WorkerFail,
     WorkerPublish, fsVars, TypeOK
<1>8. CASE WorkerExecute(j)
  <2>1. CASE dest[t] = Absent
    BY <1>1, <1>5, <1>8, <2>1 DEF WorkerExecute, fsVars
  <2>2. CASE dest[t] # Absent
    <3>1. PICK o : /\ o = ExecuteVisible(op, s, FsOf(t)) /\ SetFs(t, o.fs)
                   /\ WorkerGoes(j, IF o.ok THEN "ok" ELSE "err")
      BY <1>1, <1>8, <2>2 DEF WorkerExecute
    <3>2. o.fs.dest = dest[t] /\ (o.ok => o.fs.stage = NoStage)
      BY <1>3, <1>4, <3>1, VisibleIsSafe DEF ExecuteVisible, Outcome, StageOf, NoStage
    <3> QED
      BY <1>5, <1>6, <3>1, <3>2
  <2> QED
    BY <2>1, <2>2
<1>9. CASE WorkerEnter(j)
  <2>1. CASE ~Journaled(op)
    BY <1>1, <1>5, <1>9, <2>1 DEF WorkerEnter, fsVars
  <2>2. CASE Journaled(op) /\ stage[t] # NoStage
    <3>1. PICK o : /\ o = EnterWithJournal(op, s, FsOf(t)) /\ SetFs(t, o.fs)
                   /\ WorkerGoes(j, IF o.ok THEN "ok" ELSE "err")
      BY <1>1, <1>9, <2>2 DEF WorkerEnter
    <3>2. o.fs.dest \in {dest[t], s} /\ (o.ok => o.fs.stage = NoStage)
      BY <1>3, <1>4, <2>2, <3>1 DEF EnterWithJournal, Outcome, StageOf, NoStage
    <3> QED
      BY <1>5, <1>6, <3>1, <3>2
  <2>3. CASE Journaled(op) /\ stage[t] = NoStage
    <3>1. /\ WorkerGoes(j, "staging") /\ dest[t] = Absent
          /\ SetFs(t, [dest |-> Absent, stage |-> [src |-> s, full |-> FALSE]])
      BY <1>1, <1>9, <2>3 DEF WorkerEnter
    <3> QED
      BY <1>5, <1>6, <3>1
  <2> QED
    BY <2>1, <2>2, <2>3
<1>10. CASE WorkerFinish(j)
  <2>1. dest' = dest /\ stage'[t] = IF Journaled(op) THEN NoStage ELSE stage[t]
    BY <1>1, <1>10 DEF WorkerFinish, TypeOK
  <2> QED
    BY <1>3, <2>1 DEF StageOf
<1> QED
  BY <1>7, <1>8, <1>9, <1>10 DEF WorkerStep

(***************************************************************************)
(* A recovery shows only the orphan's bytes, and frees or consumes its     *)
(* grant only when no stage is left.                                       *)
(***************************************************************************)
LEMMA RecoveryWrites ==
    ASSUME LeftInv, RecoverEnd, NEW j \in External, j = recJob
    PROVE  /\ state[j] = "orphaned"
           /\ \A u \in Targets : u # TargetOf[j] => dest'[u] = dest[u] /\ stage'[u] = stage[u]
           /\ dest'[TargetOf[j]] \in {dest[TargetOf[j]], SourceOf[j]}
           /\ \/ UNCHANGED <<state, reservedBy>>
              \/ /\ state' = [state EXCEPT ![j] = "succeeded"]
                 /\ UNCHANGED reservedBy
                 /\ dest'[TargetOf[j]] = SourceOf[j] /\ stage'[TargetOf[j]] = NoStage
              \/ /\ state' = [state EXCEPT ![j] = "canceled"]
                 /\ reservedBy' = [reservedBy EXCEPT ![TargetOf[j]] = NoJob]
                 /\ dest[TargetOf[j]] = Absent
                 /\ UNCHANGED dest /\ stage'[TargetOf[j]] = NoStage
<1> USE JobsAssumption DEF LeftInv, IndInv
<1>1. PICK t \in Targets, s \in Sources, op \in Operations :
         t = TargetOf[j] /\ s = SourceOf[j] /\ op = OpOf[j]
  BY DEF External
<1>2. state[j] = "orphaned"
  BY DEF RecoverEnd, SvcOK
<1>3. StageOf(op, s, stage[t])
  BY <1>1, <1>2, AtWork DEF LeftInv
<1>4. /\ FsOf(t) \in Fs /\ FsOf(t).dest = dest[t] /\ FsOf(t).stage = stage[t]
  BY DEF TypeOK, FsOf, Fs
<1>5. ASSUME NEW f, SetFs(t, f)
      PROVE  /\ dest'[t] = f.dest /\ stage'[t] = f.stage
             /\ \A u \in Targets : u # t => dest'[u] = dest[u] /\ stage'[u] = stage[u]
             /\ f.dest = dest[t] => UNCHANGED dest
  BY <1>5 DEF SetFs, TypeOK
<1>6. CASE recAction = "resume"
  <2>1. PICK o \in ExecuteOutcomes(op, s, FsOf(t), DestinationBusy(t), s \in drifted) :
           /\ SetFs(t, o.fs)
           /\ \/ UNCHANGED <<state, reservedBy>>
              \/ /\ o.ok
                 /\ state' = [state EXCEPT ![j] = "succeeded"]
                 /\ UNCHANGED reservedBy
    BY <1>1, <1>6 DEF RecoverEnd, ConsumeGrants
  <2>2. o.fs.dest \in {dest[t], s} /\ (o.ok => o.fs.dest = s /\ o.fs.stage = NoStage)
    BY <1>3, <1>4, <2>1, ExecuteWrites
  <2> QED
    BY <1>1, <1>2, <1>5, <2>1, <2>2
<1>7. CASE recAction # "resume"
  <2>1. PICK o \in RollbackOutcomes(op, FsOf(t), DestinationBusy(t)) :
           /\ SetFs(t, o.fs)
           /\ \/ UNCHANGED <<state, reservedBy>>
              \/ /\ o.ok
                 /\ state' = [state EXCEPT ![j] = "canceled"]
                 /\ reservedBy' = [reservedBy EXCEPT ![t] = NoJob]
    BY <1>1, <1>7 DEF RecoverEnd, ReleaseTarget
  <2>2. o.fs.dest = dest[t] /\ (o.ok => o.fs.dest = Absent /\ o.fs.stage = NoStage)
    BY <1>3, <1>4, <2>1, RollbackEffect, RollbackIsSafe
  <2> QED
    BY <1>1, <1>2, <1>5, <2>1, <2>2
<1> QED
  BY <1>6, <1>7

(***************************************************************************)
(* The same for a forced cancellation: it publishes nothing, and accepts   *)
(* what it finds only when no journal is left.                             *)
(***************************************************************************)
LEMMA CancelWrites ==
    ASSUME LeftInv, RetiredOK, ResolveForcedCancel
    PROVE  /\ cur \in External /\ state[cur] = "running"
           /\ UNCHANGED <<state, reservedBy, dest, worker, cur>>
           /\ \A u \in Targets : u # TargetOf[cur] => stage'[u] = stage[u]
           /\ outcome' = "succeeded" => stage'[TargetOf[cur]] = NoStage
<1> USE JobsAssumption DEF LeftInv, IndInv
<1>1. PICK j \in External, t \in Targets, s \in Sources, op \in Operations :
         j = cur /\ t = TargetOf[j] /\ s = SourceOf[j] /\ op = OpOf[j]
  BY DEF ResolveForcedCancel, RetiredOK, External
<1>2. state[j] = "running" /\ UNCHANGED <<state, reservedBy, worker, cur>>
  BY <1>1 DEF ResolveForcedCancel, SchedOK, Executing, dbVars
<1>3. StageOf(op, s, stage[t])
  BY <1>1, <1>2, AtWork DEF LeftInv
<1>4. /\ FsOf(t) \in Fs /\ FsOf(t).dest = dest[t] /\ FsOf(t).stage = stage[t]
  BY DEF TypeOK, FsOf, Fs
<1>5. ASSUME NEW f, SetFs(t, f), f.dest = dest[t]
      PROVE  /\ UNCHANGED dest /\ stage'[t] = f.stage
             /\ \A u \in Targets : u # t => stage'[u] = stage[u]
  BY <1>5 DEF SetFs, TypeOK
<1>6. CASE ~BindingHolds(cur)
  BY <1>1, <1>2, <1>6 DEF ResolveForcedCancel, fsVars
<1>7. CASE BindingHolds(cur) /\ dest[t] # Absent
  <2>1. PICK o \in ExecuteOutcomes(op, s, FsOf(t), DestinationBusy(t), s \in drifted) :
           SetFs(t, o.fs) /\ (outcome' = "succeeded" => o.ok)
    BY <1>1, <1>7 DEF ResolveForcedCancel
  <2>2. o.fs.dest = dest[t] /\ (o.ok => o.fs.stage = NoStage)
    BY <1>3, <1>4, <1>7, <2>1, ExecuteWrites, ExecuteIsSafe
  <2> QED
    BY <1>1, <1>2, <1>5, <2>1, <2>2
<1>8. CASE BindingHolds(cur) /\ dest[t] = Absent
  <2>1. PICK o \in RollbackOutcomes(op, FsOf(t), DestinationBusy(t)) :
           SetFs(t, o.fs) /\ outcome' # "succeeded"
    BY <1>1, <1>8 DEF ResolveForcedCancel
  <2>2. o.fs.dest = dest[t]
    BY <1>4, <2>1, RollbackIsSafe
  <2> QED
    BY <1>1, <1>2, <1>5, <2>1, <2>2
<1> QED
  BY <1>6, <1>7, <1>8

(***************************************************************************)
(* Nothing but a worker, a forced cancellation or a recovery touches a     *)
(* stage, and a success is passed on only from where it was known.         *)
(***************************************************************************)
LEMMA NextRetired == Orderly /\ LeaseInv /\ [Next]_vars => RetiredOK'
<1> SUFFICES ASSUME Orderly, LeaseInv, [Next]_vars PROVE RetiredOK'
  OBVIOUS
<1> USE JobsAssumption DEF LeaseInv, LeftInv, IndInv
<1>1. ASSUME UNCHANGED stage,
             \A j \in External : worker'[j] = "ok" => worker[j] = "ok",
             cur' # cur => sched' \notin {"resolving", "finishing"},
             sched' = "resolving" => sched = "resolving" \/ cur \in External,
             sched' = "finishing" /\ outcome' = "succeeded" =>
                sched = "finishing" /\ outcome = "succeeded"
      PROVE  RetiredOK'
  BY <1>1 DEF RetiredOK
<1>2. CASE SchedulerStep
  <2>1. CASE ResolveForcedCancel
    <3>1. /\ cur \in External /\ UNCHANGED <<worker, cur>> /\ sched' = "finishing"
          /\ outcome' = "succeeded" => stage'[TargetOf[cur]] = NoStage
          /\ \A j \in External : worker[j] # "ok"
      BY <2>1, CancelWrites DEF ResolveForcedCancel, WorkerOK, External
    <3> QED
      BY <3>1 DEF RetiredOK
  <2>2. CASE PollExited
    <3>1. /\ UNCHANGED <<stage, cur>> /\ cur \in Jobs
          /\ worker' = [worker EXCEPT ![cur] = "none"]
          /\ sched' = "resolving" => cur \in External
          /\ sched' = "finishing" /\ outcome' = "succeeded" => worker[cur] = "ok"
      BY <2>2 DEF PollExited, ConcludeCancel, Conclude, Goto, Reap, Interrupted, fsVars,
         SchedOK, Executing, Managed
    <3>2. \A j \in External : worker'[j] = "ok" => worker[j] = "ok"
      BY <3>1 DEF TypeOK, External
    <3> QED
      BY <3>1, <3>2 DEF RetiredOK
  <2>3. CASE \/ \E j \in Jobs : Claim(j)
             \/ Prepare \/ Progress20 \/ Spawn \/ Progress50 \/ PollRunning \/ Finish
             \/ SchedulerBusyTimeout \/ SchedulerStops
    <3>1. /\ UNCHANGED stage
          /\ cur' # cur => sched' \notin {"resolving", "finishing"}
          /\ sched' = "resolving" => sched = "resolving" \/ cur \in External
          /\ sched' = "finishing" /\ outcome' = "succeeded" =>
                sched = "finishing" /\ outcome = "succeeded"
      BY <2>3 DEF Claim, Prepare, Progress20, Spawn, Progress50, PollRunning, Finish,
         SchedulerBusyTimeout, SchedulerStops, ConcludeCancel, Conclude, Goto, Interrupted,
         fsVars
    <3>2. \A j \in External : worker'[j] \in {worker[j], "started", "none"}
      BY <2>3 DEF Claim, Prepare, Progress20, Spawn, Progress50, PollRunning, Finish,
         SchedulerBusyTimeout, SchedulerStops, Reap, TypeOK, External
    <3> QED
      BY <1>1, <3>1, <3>2
  <2> QED
    BY <1>2, <2>1, <2>2, <2>3 DEF SchedulerStep
<1>3. ASSUME NEW j \in Jobs, WorkerStep(j)
      PROVE  RetiredOK'
  <2>1. /\ UNCHANGED <<sched, cur, outcome>> /\ worker[j] # "none"
        /\ \A i \in Jobs : i # j => worker'[i] = worker[i]
        /\ j \notin External => UNCHANGED stage
    BY <1>3, WorkerEffect DEF WorkerAlive
  <2>2. sched \in {"spawned", "polling"} /\ \A i \in Jobs : i # j => worker[i] = "none"
    BY <2>1 DEF WorkerOK
  <2>3. \A i \in External : worker'[i] = "ok" => stage'[TargetOf[i]] = NoStage
    BY <1>3, <2>1, <2>2, WorkerWrites DEF External
  <2> QED
    BY <2>1, <2>2, <2>3 DEF RetiredOK
<1>4. CASE RecoverEnd
  <2>1. PICK j \in External : j = recJob
    BY <1>4 DEF RecoverEnd, SvcOK
  <2>2. /\ UNCHANGED <<sched, cur, outcome, worker>> /\ state[j] = "orphaned"
        /\ \A u \in Targets : u # TargetOf[j] => stage'[u] = stage[u]
    BY <1>4, <2>1, RecoveryWrites DEF RecoverEnd, schedVars
  <2>3. ASSUME NEW i \in External, state[i] = "running"
        PROVE  stage'[TargetOf[i]] = stage[TargetOf[i]]
    <3>1. TargetOf[i] \in Targets /\ TargetOf[j] \in Targets
      BY DEF External
    <3>2. i # j => TargetOf[i] # TargetOf[j]
      BY <2>2, <2>3, <3>1, AtWork
    <3> QED
      BY <2>2, <2>3, <3>1, <3>2
  <2>4. \A i \in External : cur = i /\ sched = "finishing" => state[i] = "running"
    BY DEF SchedOK, Executing
  <2>5. \A i \in External : worker[i] = "ok" => state[i] = "running"
    BY DEF WorkerOK, SchedOK, Executing, External
  <2> QED
    BY <2>2, <2>3, <2>4, <2>5 DEF RetiredOK
<1>5. CASE Exit
  <2>1. UNCHANGED stage /\ sched' = "down" /\ \A j \in Jobs : worker'[j] # "ok"
    BY <1>5 DEF Exit, ProcessGone, fsVars, WorkerAlive
  <2> QED
    BY <2>1 DEF RetiredOK, External
<1>6. CASE Start
  BY <1>1, <1>6 DEF Start, fsVars
<1>7. CASE \/ \E g \in Grants : GrantCreate(g) \/ GrantRevoke(g)
           \/ \E j \in Jobs : JobCreate(j) \/ JobCancel(j) \/ JobTransition(j)
           \/ \E j \in Jobs, a \in {"resume", "rollback"} : RecoverBegin(j, a)
           \/ OtherHandlerCommits \/ BeginRefused \/ Shutdown \/ CloseStore
           \/ \E s \in Sources : SourceDrifts(s)
           \/ \E t \in Targets : ForeignAppears(t)
           \/ UNCHANGED vars
  <2>1. UNCHANGED <<stage, worker, sched, cur, outcome>>
    BY <1>7 DEF GrantCreate, GrantRevoke, JobCreate, JobCancel, JobTransition, RecoverBegin,
       OtherHandlerCommits, BeginRefused, Shutdown, CloseStore, SourceDrifts,
       ForeignAppears, schedVars, fsVars, vars
  <2> QED
    BY <1>1, <2>1
<1> QED
  BY <1>2, <1>3, <1>4, <1>5, <1>6, <1>7 DEF Next, Orderly, Crash

(***************************************************************************)
(* All of it together is an invariant of lifetimes without a kill.         *)
(***************************************************************************)
LEMMA LeaseInvariance == ASSUME Orderly PROVE Spec => []LeaseInv
<1>1. Init => LeaseInv
  <2> SUFFICES ASSUME Init PROVE SuccessOK /\ RetiredOK
    BY InitLeft DEF LeaseInv
  <2> QED
    BY InitInd DEF Init, SuccessOK, RetiredOK, External
<1>2. LeaseInv /\ [Next]_vars => LeaseInv'
  <2> SUFFICES ASSUME LeaseInv, [Next]_vars PROVE LeaseInv'
    OBVIOUS
  <2>1. LeftInv' /\ RetiredOK'
    BY NextLeft, NextRetired DEF LeaseInv
  <2>2. SuccessInv
    BY DEF LeaseInv, LeftInv, SuccessInv
  <2>3. SuccessOK'
    BY <2>2, NextSuccess DEF SuccessInv
  <2> QED
    BY <2>1, <2>3 DEF LeaseInv
<1> QED
  BY <1>1, <1>2, PTL DEF Spec

-----------------------------------------------------------------------------
(* The lease a step sees                                                    *)

(***************************************************************************)
(* A step that leaves external rows in states of the same meaning.         *)
(***************************************************************************)
LEMMA VerdictKept ==
    ASSUME \A j \in External : VerdictOf(state'[j]) = VerdictOf(state[j])
    PROVE  Verdict' = Verdict
BY DEF Verdict

(***************************************************************************)
(* A step that changes one external row.                                   *)
(***************************************************************************)
LEMMA VerdictSet ==
    ASSUME NEW j \in External, NEW s, state'[j] = s,
           \A i \in External : i # j => state'[i] = state[i]
    PROVE  Verdict' = [Verdict EXCEPT ![j] = VerdictOf(s)]
BY DEF Verdict

(***************************************************************************)
(* A step that touches the stage of one target.                            *)
(***************************************************************************)
LEMMA ResidueSet ==
    ASSUME NEW t \in Targets, \A u \in Targets : u # t => stage'[u] = stage[u]
    PROVE  /\ Residue' \in {Residue \cup {t}, Residue \ {t}}
           /\ stage'[t] = NoStage => Residue' = Residue \ {t}
<1>1. CASE stage'[t] = NoStage
  <2>1. Residue' = Residue \ {t}
    BY <1>1 DEF Residue
  <2> QED
    BY <1>1, <2>1
<1>2. CASE stage'[t] # NoStage
  <2>1. Residue' = Residue \cup {t}
    BY <1>2 DEF Residue
  <2> QED
    BY <1>2, <2>1
<1> QED
  BY <1>1, <1>2

(***************************************************************************)
(* A queued, running or orphaned job holds its lease.                      *)
(***************************************************************************)
LEMMA ActiveHolds ==
    ASSUME LeaseInv, NEW j \in External, state[j] \in {"queued", "running", "orphaned"}
    PROVE  Leases!Holds(j)
<1>1. TargetOf[j] \in Targets /\ Verdict[j] = "open"
  BY JobsAssumption DEF External, Verdict, VerdictOf
<1> QED
  BY <1>1, AtWork DEF LeaseInv, Leases!Holds

(***************************************************************************)
(* Whatever a holder, or a recovery in its name, does at its destination   *)
(* is the work of a lease.                                                 *)
(***************************************************************************)
LEMMA WorkMaps ==
    ASSUME LeaseInv, TypeOK', NEW j \in External,
           state[j] \in {"queued", "running", "orphaned"},
           UNCHANGED <<state, reservedBy>>,
           \A u \in Targets : u # TargetOf[j] => dest'[u] = dest[u] /\ stage'[u] = stage[u],
           dest'[TargetOf[j]] \in {dest[TargetOf[j]], SourceOf[j]},
           dest[TargetOf[j]] # Absent => dest'[TargetOf[j]] = dest[TargetOf[j]]
    PROVE  Leases!Work(j)
<1> USE DEF LeaseInv, LeftInv, IndInv
<1>1. TargetOf[j] \in Targets
  BY JobsAssumption DEF External
<1>2. Residue' \in {Residue \cup {TargetOf[j]}, Residue \ {TargetOf[j]}}
  BY <1>1, ResidueSet
<1>3. UNCHANGED <<reservedBy, Verdict>>
  BY VerdictKept
<1>4. \/ UNCHANGED dest
      \/ /\ dest[TargetOf[j]] = Absent
         /\ dest' = [dest EXCEPT ![TargetOf[j]] = SourceOf[j]]
  <2>1. CASE dest'[TargetOf[j]] = dest[TargetOf[j]]
    BY <2>1 DEF TypeOK
  <2>2. CASE dest'[TargetOf[j]] # dest[TargetOf[j]]
    BY <1>1, <2>2 DEF TypeOK
  <2> QED
    BY <2>1, <2>2
<1> QED
  BY <1>2, <1>3, <1>4, ActiveHolds DEF Leases!Work

(***************************************************************************)
(* A success recorded for a holder whose bytes are in place publishes.     *)
(***************************************************************************)
LEMMA PublishMaps ==
    ASSUME LeaseInv, TypeOK', NEW j \in External,
           state[j] \in {"queued", "running", "orphaned"},
           state' = [state EXCEPT ![j] = "succeeded"], UNCHANGED reservedBy,
           \A u \in Targets : u # TargetOf[j] => dest'[u] = dest[u] /\ stage'[u] = stage[u],
           dest[TargetOf[j]] # Absent => dest'[TargetOf[j]] = dest[TargetOf[j]],
           dest'[TargetOf[j]] = SourceOf[j], stage'[TargetOf[j]] = NoStage
    PROVE  Leases!Publish(j)
<1> USE DEF LeaseInv, LeftInv, IndInv
<1>1. TargetOf[j] \in Targets /\ j \in Jobs
  BY JobsAssumption DEF External
<1>2. Residue' = Residue \ {TargetOf[j]}
  BY <1>1, ResidueSet
<1>3. Verdict' = [Verdict EXCEPT ![j] = "published"]
  <2>1. state'[j] = "succeeded" /\ \A i \in External : i # j => state'[i] = state[i]
    BY <1>1 DEF TypeOK, External
  <2>2. VerdictOf("succeeded") = "published"
    BY DEF VerdictOf
  <2> QED
    BY <2>1, <2>2, VerdictSet
<1>4. /\ dest[TargetOf[j]] \in {Absent, SourceOf[j]}
      /\ dest' = [dest EXCEPT ![TargetOf[j]] = SourceOf[j]]
  BY <1>1 DEF TypeOK
<1> QED
  BY <1>2, <1>3, <1>4, ActiveHolds DEF Leases!Publish

(***************************************************************************)
(* A failure or cancellation that frees a clean destination withdraws.     *)
(***************************************************************************)
LEMMA WithdrawMaps ==
    ASSUME LeaseInv, NEW j \in External, NEW s \in {"failed", "canceled"},
           state[j] \in {"queued", "running", "orphaned"},
           state' = [state EXCEPT ![j] = s],
           reservedBy' = [reservedBy EXCEPT ![TargetOf[j]] = NoJob],
           UNCHANGED dest, dest[TargetOf[j]] \in {Absent, Foreign},
           \A u \in Targets : u # TargetOf[j] => stage'[u] = stage[u],
           stage'[TargetOf[j]] = NoStage
    PROVE  Leases!Withdraw(j)
<1> USE DEF LeaseInv, LeftInv, IndInv
<1>1. TargetOf[j] \in Targets /\ j \in Jobs
  BY JobsAssumption DEF External
<1>2. Residue' = Residue \ {TargetOf[j]}
  BY <1>1, ResidueSet
<1>3. Verdict' = [Verdict EXCEPT ![j] = "withdrawn"]
  <2>1. state'[j] = s /\ \A i \in External : i # j => state'[i] = state[i]
    BY <1>1 DEF TypeOK, External
  <2>2. VerdictOf(s) = "withdrawn"
    BY DEF VerdictOf
  <2> QED
    BY <2>1, <2>2, VerdictSet
<1> QED
  BY <1>2, <1>3, ActiveHolds DEF Leases!Withdraw

-----------------------------------------------------------------------------
(* Each step is a step of a lease                                           *)

LeaseStep == Leases!Next \/ UNCHANGED Leases!vars

(***************************************************************************)
(* A step that keeps the files, the holders and the meaning of the rows is *)
(* not seen.                                                               *)
(***************************************************************************)
LEMMA QuietMaps ==
    ASSUME UNCHANGED <<dest, stage, reservedBy>>,
           \A j \in External : VerdictOf(state'[j]) = VerdictOf(state[j])
    PROVE  LeaseStep
<1>1. Residue' = Residue
  BY DEF Residue
<1> QED
  BY <1>1, VerdictKept DEF LeaseStep, Leases!vars

(***************************************************************************)
(* Creation takes the lease of a clean destination; cancelling a queued    *)
(* job gives it back.                                                      *)
(***************************************************************************)
LEMMA RequestsMap ==
    ASSUME LeaseInv, NEW j \in Jobs, JobCreate(j) \/ JobCancel(j)
    PROVE  LeaseStep
<1> USE JobsAssumption DEF LeaseInv, LeftInv, IndInv
<1>1. UNCHANGED <<dest, stage>>
  BY DEF JobCreate, JobCancel, fsVars
<1>2. \A i \in Jobs : i # j => state'[i] = state[i]
  BY DEF JobCreate, JobCancel, TypeOK
<1>3. CASE j \notin External
  <2>1. UNCHANGED reservedBy
    BY <1>3 DEF JobCreate, JobCancel
  <2> QED
    BY <1>1, <1>2, <1>3, <2>1, QuietMaps DEF External
<1>4. CASE j \in External /\ JobCreate(j)
  <2>1. PICK t \in Targets : t = TargetOf[j]
    OBVIOUS
  <2>2. /\ state[j] = "absent" /\ state'[j] = "queued"
        /\ grant[t] = "ready" /\ reservedBy[t] = NoJob
        /\ reservedBy' = [reservedBy EXCEPT ![t] = j]
    BY <1>4, <2>1 DEF JobCreate, Reservable, TypeOK
  <2>3. stage[t] = NoStage /\ dest[t] \in {Absent, Foreign}
    BY <2>2 DEF CleanOK, Clean
  <2>4. Verdict[j] = "none" /\ Verdict' = [Verdict EXCEPT ![j] = "open"]
    <3>1. VerdictOf("absent") = "none" /\ VerdictOf("queued") = "open"
      BY DEF VerdictOf
    <3>2. \A i \in External : i # j => state'[i] = state[i]
      BY <1>2 DEF External
    <3>3. Verdict[j] = "none"
      BY <1>4, <2>2, <3>1 DEF Verdict
    <3> QED
      BY <1>4, <2>2, <3>1, <3>2, <3>3, VerdictSet
  <2>5. Residue' = Residue /\ t \notin Residue
    BY <1>1, <2>3 DEF Residue
  <2>6. Leases!Lease(j)
    BY <1>1, <2>1, <2>2, <2>3, <2>4, <2>5 DEF Leases!Lease, Leases!Vacant
  <2> QED
    BY <1>4, <2>6 DEF LeaseStep, Leases!Next
<1>5. CASE j \in External /\ JobCancel(j) /\ state[j] = "running"
  <2>1. UNCHANGED <<state, reservedBy>>
    BY <1>5 DEF JobCancel, Managed, External
  <2> QED
    BY <1>1, <2>1, QuietMaps
<1>6. CASE j \in External /\ JobCancel(j) /\ state[j] # "running"
  <2>1. /\ state[j] = "queued" /\ state' = [state EXCEPT ![j] = "canceled"]
        /\ reservedBy' = [reservedBy EXCEPT ![TargetOf[j]] = NoJob]
    BY <1>6 DEF JobCancel, ReleaseTarget, External, Managed, QueueOK, TypeOK, JobStates,
       Terminal
  <2>2. Clean(TargetOf[j])
    BY <1>6, <2>1 DEF CleanOK
  <2>3. Leases!Withdraw(j)
    BY <1>1, <1>6, <2>1, <2>2, WithdrawMaps DEF Clean
  <2> QED
    BY <1>6, <2>3 DEF LeaseStep, Leases!Next
<1> QED
  BY <1>3, <1>4, <1>5, <1>6

(***************************************************************************)
(* finish() publishes, withdraws, or keeps the lease for recovery.         *)
(***************************************************************************)
LEMMA FinishMaps ==
    ASSUME Orderly, LeaseInv, TypeOK', Finish
    PROVE  LeaseStep
<1> USE JobsAssumption DEF LeaseInv, LeftInv, IndInv
<1>1. /\ cur \in Jobs /\ sched = "finishing" /\ state[cur] = "running"
      /\ outcome \in Terminal \cup {"orphaned"}
      /\ UNCHANGED <<dest, stage>> /\ state' = [state EXCEPT ![cur] = outcome]
  BY DEF Finish, SchedOK, Executing, Managed, fsVars, TypeOK
<1>2. CASE cur \notin External
  <2>1. UNCHANGED reservedBy
    BY <1>2 DEF Finish
  <2>2. \A j \in External : state'[j] = state[j]
    BY <1>1, <1>2 DEF TypeOK, External
  <2> QED
    BY <1>1, <2>1, <2>2, QuietMaps
<1>3. ASSUME NEW j \in External, j = cur
      PROVE  LeaseStep
  <2>1. CASE outcome = "orphaned"
    <3>1. UNCHANGED reservedBy
      BY <1>3, <2>1 DEF Finish, SettleGrants
    <3>2. \A i \in External : VerdictOf(state'[i]) = VerdictOf(state[i])
      BY <1>1, <2>1 DEF TypeOK, External, VerdictOf
    <3> QED
      BY <1>1, <3>1, <3>2, QuietMaps
  <2>2. CASE outcome = "succeeded"
    <3>1. UNCHANGED reservedBy
      BY <1>3, <2>2 DEF Finish, SettleGrants, ConsumeGrants
    <3>2. dest[TargetOf[j]] = SourceOf[j] /\ stage[TargetOf[j]] = NoStage
      BY <1>1, <1>3, <2>2 DEF SuccessOK, RetiredOK, Compared, IsPublished
    <3>3. Leases!Publish(j)
      BY <1>1, <1>3, <2>2, <3>1, <3>2, PublishMaps
    <3> QED
      BY <3>3 DEF LeaseStep, Leases!Next
  <2>3. CASE outcome \in {"failed", "canceled"}
    <3>1. reservedBy' = [reservedBy EXCEPT ![TargetOf[j]] = NoJob]
      BY <1>3, <2>3 DEF Finish, SettleGrants, ReleaseTarget
    <3>2. Clean(TargetOf[j])
      BY <1>1, <1>3, <2>3 DEF CleanOK
    <3>3. Leases!Withdraw(j)
      BY <1>1, <1>3, <2>3, <3>1, <3>2, WithdrawMaps DEF Clean
    <3> QED
      BY <3>3 DEF LeaseStep, Leases!Next
  <2> QED
    BY <1>1, <2>1, <2>2, <2>3 DEF Terminal
<1> QED
  BY <1>2, <1>3

(***************************************************************************)
(* A recovery works, and then publishes, withdraws or keeps the lease.     *)
(***************************************************************************)
LEMMA RecoveryMaps ==
    ASSUME LeaseInv, TypeOK', RecoverEnd
    PROVE  LeaseStep
<1> USE DEF LeaseInv, LeftInv, IndInv
<1>1. PICK j \in External : j = recJob
  BY DEF RecoverEnd, SvcOK
<1>2. TargetOf[j] \in Targets
  BY JobsAssumption DEF External
<1>3. dest[TargetOf[j]] # Absent => dest'[TargetOf[j]] = dest[TargetOf[j]]
  BY <1>2, StepKeepsVisible DEF Next
<1>4. /\ state[j] = "orphaned"
      /\ \A u \in Targets : u # TargetOf[j] => dest'[u] = dest[u] /\ stage'[u] = stage[u]
      /\ dest'[TargetOf[j]] \in {dest[TargetOf[j]], SourceOf[j]}
  BY <1>1, RecoveryWrites
<1>5. CASE UNCHANGED <<state, reservedBy>>
  <2>1. Leases!Work(j)
    BY <1>3, <1>4, <1>5, WorkMaps
  <2> QED
    BY <2>1 DEF LeaseStep, Leases!Next
<1>6. CASE /\ state' = [state EXCEPT ![j] = "succeeded"] /\ UNCHANGED reservedBy
           /\ dest'[TargetOf[j]] = SourceOf[j] /\ stage'[TargetOf[j]] = NoStage
  <2>1. Leases!Publish(j)
    BY <1>3, <1>4, <1>6, PublishMaps
  <2> QED
    BY <2>1 DEF LeaseStep, Leases!Next
<1>7. CASE /\ state' = [state EXCEPT ![j] = "canceled"]
           /\ reservedBy' = [reservedBy EXCEPT ![TargetOf[j]] = NoJob]
           /\ dest[TargetOf[j]] = Absent
           /\ UNCHANGED dest /\ stage'[TargetOf[j]] = NoStage
  <2>1. Leases!Withdraw(j)
    BY <1>4, <1>7, WithdrawMaps
  <2> QED
    BY <2>1 DEF LeaseStep, Leases!Next
<1> QED
  BY <1>1, <1>5, <1>6, <1>7, RecoveryWrites

(***************************************************************************)
(* The scheduler only works on a stage when it resolves a cancellation.    *)
(***************************************************************************)
LEMMA SchedulerMaps ==
    ASSUME Orderly, LeaseInv, TypeOK', SchedulerStep
    PROVE  LeaseStep
<1> USE DEF LeaseInv, LeftInv, IndInv
<1>1. CASE Finish
  BY <1>1, FinishMaps
<1>2. CASE ResolveForcedCancel
  <2>1. PICK j \in External : j = cur /\ state[j] = "running"
    BY <1>2, CancelWrites
  <2>2. /\ UNCHANGED <<state, reservedBy, dest>>
        /\ \A u \in Targets : u # TargetOf[j] => stage'[u] = stage[u]
    BY <1>2, <2>1, CancelWrites
  <2>3. Leases!Work(j)
    BY <2>1, <2>2, WorkMaps
  <2> QED
    BY <2>3 DEF LeaseStep, Leases!Next
<1>3. ASSUME NEW j \in Jobs, Claim(j)
      PROVE  LeaseStep
  <2>1. UNCHANGED <<dest, stage, reservedBy>>
    BY <1>3 DEF Claim, fsVars
  <2>2. \A i \in External : VerdictOf(state'[i]) = VerdictOf(state[i])
    BY <1>3 DEF Claim, Oldest, TypeOK, External, VerdictOf
  <2> QED
    BY <2>1, <2>2, QuietMaps
<1>4. CASE \/ Prepare \/ Progress20 \/ Spawn \/ Progress50 \/ PollRunning \/ PollExited
           \/ SchedulerBusyTimeout \/ SchedulerStops
  <2>1. UNCHANGED <<dest, stage, reservedBy, state>>
    BY <1>4 DEF Prepare, Progress20, Spawn, Progress50, PollRunning, PollExited,
       SchedulerBusyTimeout, SchedulerStops, Goto, Conclude, ConcludeCancel, dbVars, fsVars
  <2> QED
    BY <2>1, QuietMaps
<1> QED
  BY <1>1, <1>2, <1>3, <1>4 DEF SchedulerStep

(***************************************************************************)
(* A worker is the holder's.                                               *)
(***************************************************************************)
LEMMA WorkerMaps ==
    ASSUME LeaseInv, TypeOK', NEW j \in Jobs, WorkerStep(j)
    PROVE  LeaseStep
<1> USE DEF LeaseInv, LeftInv, IndInv
<1>1. /\ UNCHANGED <<state, reservedBy>>
      /\ \A u \in Targets : u # TargetOf[j] => dest'[u] = dest[u] /\ stage'[u] = stage[u]
      /\ j \notin External => UNCHANGED <<dest, stage>>
  BY WorkerEffect
<1>2. CASE j \notin External
  BY <1>1, <1>2, QuietMaps
<1>3. CASE j \in External
  <2>1. /\ state[j] = "running"
        /\ dest'[TargetOf[j]] \in {dest[TargetOf[j]], SourceOf[j]}
    BY <1>3, WorkerWrites
  <2>2. dest[TargetOf[j]] # Absent => dest'[TargetOf[j]] = dest[TargetOf[j]]
    BY JobsAssumption, WorkerIsSafe
  <2>3. Leases!Work(j)
    BY <1>1, <1>3, <2>1, <2>2, WorkMaps
  <2> QED
    BY <1>3, <2>3 DEF LeaseStep, Leases!Next
<1> QED
  BY <1>2, <1>3

(***************************************************************************)
(* Everything else: what the world puts at a free name is seen, grants,    *)
(* legacy rows, shutdown and restart are not.                              *)
(***************************************************************************)
LEMMA OthersMap ==
    ASSUME LeaseInv,
           \/ \E g \in Grants : GrantCreate(g) \/ GrantRevoke(g)
           \/ \E j \in Jobs : JobTransition(j)
           \/ \E j \in Jobs, a \in {"resume", "rollback"} : RecoverBegin(j, a)
           \/ OtherHandlerCommits \/ BeginRefused
           \/ Shutdown \/ CloseStore \/ Exit \/ Start
           \/ \E s \in Sources : SourceDrifts(s)
           \/ \E t \in Targets : ForeignAppears(t)
           \/ UNCHANGED vars
    PROVE  LeaseStep
<1> USE DEF LeaseInv, LeftInv, IndInv
<1>1. ASSUME NEW t \in Targets, ForeignAppears(t)
      PROVE  LeaseStep
  <2>1. /\ dest[t] = Absent /\ dest' = [dest EXCEPT ![t] = Foreign]
        /\ UNCHANGED <<reservedBy, stage, state>>
    BY <1>1 DEF ForeignAppears, dbVars
  <2>2. UNCHANGED <<Residue, Verdict>>
    BY <2>1 DEF Residue, Verdict
  <2>3. Leases!Appear(t)
    BY <2>1, <2>2 DEF Leases!Appear
  <2> QED
    BY <2>3 DEF LeaseStep, Leases!Next
<1>2. CASE Start
  <2>1. UNCHANGED <<dest, stage, reservedBy>>
    BY <1>2 DEF Start, fsVars
  <2>2. \A j \in External : VerdictOf(state'[j]) = VerdictOf(state[j])
    BY <1>2 DEF Start, StateOnStart, InterruptedByRestart, External, VerdictOf
  <2> QED
    BY <2>1, <2>2, QuietMaps
<1>3. CASE \/ \E g \in Grants : GrantCreate(g) \/ GrantRevoke(g)
           \/ \E j \in Jobs : JobTransition(j)
           \/ \E j \in Jobs, a \in {"resume", "rollback"} : RecoverBegin(j, a)
           \/ OtherHandlerCommits \/ BeginRefused
           \/ Shutdown \/ CloseStore \/ Exit
           \/ \E s \in Sources : SourceDrifts(s)
           \/ UNCHANGED vars
  <2>1. UNCHANGED <<dest, stage, reservedBy>>
    BY <1>3 DEF GrantCreate, GrantRevoke, JobTransition, RecoverBegin, OtherHandlerCommits,
       BeginRefused, Shutdown, CloseStore, Exit, ProcessGone, SourceDrifts, vars, dbVars,
       fsVars
  <2>2. \A j \in External : state'[j] = state[j]
    BY <1>3 DEF GrantCreate, GrantRevoke, JobTransition, RecoverBegin, OtherHandlerCommits,
       BeginRefused, Shutdown, CloseStore, Exit, ProcessGone, SourceDrifts, vars, dbVars,
       TypeOK, External, Managed
  <2> QED
    BY <2>1, <2>2, QuietMaps
<1> QED
  BY <1>1, <1>2, <1>3

(***************************************************************************)
(* StudioJobs implements ArtifactLeases in lifetimes without a kill: from  *)
(* create() to finish(), recover() or cancel() only the job that holds a   *)
(* destination writes there, what is visible is never replaced, and the    *)
(* grant comes back only with nothing of the job left, or is consumed with *)
(* the job's own artifact in place.                                        *)
(***************************************************************************)
THEOREM LeasesKept == ASSUME Orderly PROVE Spec => LeasesAreKept
<1>1. Init => Leases!Init
  <2> SUFFICES ASSUME Init PROVE Leases!Init
    OBVIOUS
  <2>1. Residue = {} /\ Verdict = [j \in External |-> "none"]
    BY DEF Init, Residue, Verdict, VerdictOf, External
  <2> QED
    BY <2>1 DEF Init, Leases!Init
<1>2. LeaseInv /\ [Next]_vars => [Leases!Next]_(Leases!vars)
  <2> SUFFICES ASSUME LeaseInv, [Next]_vars PROVE LeaseStep
    BY DEF LeaseStep
  <2>1. TypeOK'
    BY NextInd DEF LeaseInv, LeftInv, IndInv
  <2>2. CASE \E j \in Jobs : JobCreate(j) \/ JobCancel(j)
    BY <2>2, RequestsMap
  <2>3. CASE RecoverEnd
    BY <2>1, <2>3, RecoveryMaps
  <2>4. CASE SchedulerStep
    BY <2>1, <2>4, SchedulerMaps
  <2>5. CASE \E j \in Jobs : WorkerStep(j)
    BY <2>1, <2>5, WorkerMaps
  <2>6. CASE \/ \E g \in Grants : GrantCreate(g) \/ GrantRevoke(g)
             \/ \E j \in Jobs : JobTransition(j)
             \/ \E j \in Jobs, a \in {"resume", "rollback"} : RecoverBegin(j, a)
             \/ OtherHandlerCommits \/ BeginRefused
             \/ Shutdown \/ CloseStore \/ Exit \/ Start
             \/ \E s \in Sources : SourceDrifts(s)
             \/ \E t \in Targets : ForeignAppears(t)
             \/ UNCHANGED vars
    BY <2>6, OthersMap
  <2> QED
    BY <2>2, <2>3, <2>4, <2>5, <2>6 DEF Next, Orderly, Crash
<1> QED
  BY <1>1, <1>2, LeaseInvariance, PTL DEF Spec, LeasesAreKept, Leases!Spec

=============================================================================
