---------------------- MODULE StudioJobsOutcomesProofs ----------------------
(***************************************************************************)
(* Proofs about what StudioJobs leaves behind when it records an outcome:  *)
(* in lifetimes without a kill no worker outlives its job and no grant is  *)
(* freed over anything of an earlier job, and success is never recorded    *)
(* for other bytes than the job's own.                                     *)
(***************************************************************************)
EXTENDS StudioJobsProofs

(* The service is never killed.  After a kill a worker goes on by itself,   *)
(* and may publish at a grant that was rolled back in the meantime.         *)
Orderly == Crashes = FALSE

(* A recovered extraction is not compared with the package it should come   *)
(* from (README, section 4); a worker that outlives its service may leave   *)
(* it a journal of another one.                                             *)
Compared(j) == Orderly \/ OpOf[j] # "game.package.extract"

-----------------------------------------------------------------------------
(* Workers and the scheduler                                                *)

(* The only worker there is, running or ended, is the one the scheduler     *)
(* waits for.                                                               *)
WorkerOK ==
    \A j \in Jobs : worker[j] # "none" => sched \in {"spawned", "polling"} /\ cur = j

(***************************************************************************)
(* The scheduler leaves its worker section only after the process tree is  *)
(* reaped.                                                                 *)
(***************************************************************************)
LEMMA NextWorker == Orderly /\ IndInv /\ WorkerOK /\ [Next]_vars => WorkerOK'
<1> SUFFICES ASSUME Orderly, IndInv, WorkerOK, [Next]_vars PROVE WorkerOK'
  OBVIOUS
<1> USE DEF IndInv
<1>1. CASE UNCHANGED <<worker, sched, cur>>
  BY <1>1 DEF WorkerOK
<1>2. CASE sched \notin {"spawned", "polling"} /\ UNCHANGED worker
  BY <1>2 DEF WorkerOK
<1>3. CASE \/ \E j \in Jobs : Claim(j)
           \/ Prepare \/ Progress20 \/ ResolveForcedCancel \/ Finish \/ SchedulerStops \/ Start
  <2>1. sched \notin {"spawned", "polling"} /\ UNCHANGED worker
    BY <1>3 DEF Claim, Prepare, Progress20, ResolveForcedCancel, Finish, SchedulerStops, Start,
       SchedOK
  <2> QED
    BY <1>2, <2>1
<1>4. CASE Spawn
  <2>1. cur \in Jobs /\ \A j \in Jobs : worker[j] = "none"
    BY <1>4 DEF Spawn, SchedOK, Executing, Managed, WorkerOK
  <2>2. \/ UNCHANGED worker
        \/ /\ worker' = [worker EXCEPT ![cur] = "started"]
           /\ sched' = "spawned" /\ cur' = cur
    BY <1>4 DEF Spawn, Goto
  <2> QED
    BY <2>1, <2>2 DEF WorkerOK, TypeOK
<1>5. CASE Progress50
  BY <1>5 DEF Progress50, Goto, WorkerOK
<1>6. CASE PollRunning \/ PollExited \/ (SchedulerBusyTimeout /\ sched' = "finishing")
  <2>1. Reap
    BY <1>6 DEF PollRunning, PollExited, SchedulerBusyTimeout, Goto, Conclude
  <2>2. cur \in Jobs
    BY <1>6 DEF PollRunning, PollExited, SchedulerBusyTimeout, Goto, SchedOK, Executing,
       Managed
  <2>3. \A j \in Jobs : worker'[j] # "none" => worker[j] # "none" /\ j # cur
    BY <2>1, <2>2 DEF Reap, TypeOK
  <2> QED
    BY <2>3 DEF WorkerOK
<1>7. CASE SchedulerBusyTimeout /\ sched' # "finishing"
  <2>1. sched \notin {"spawned", "polling"} /\ UNCHANGED worker
    BY <1>7 DEF SchedulerBusyTimeout, Goto, Conclude
  <2> QED
    BY <1>2, <2>1
<1>8. CASE \E j \in Jobs : WorkerStep(j)
  <2>1. PICK j \in Jobs : WorkerStep(j)
    BY <1>8
  <2>2. UNCHANGED schedVars
    BY <2>1, WorkerIsSafe
  <2>3. worker[j] # "none"
    BY <2>1 DEF WorkerStep, WorkerReadOnly, WorkerPreflight, WorkerExecute, WorkerEnter,
       WorkerStaged, WorkerPublish, WorkerFinish, WorkerFail, WorkerAlive
  <2>4. \A i \in Jobs : i # j => worker'[i] = worker[i]
    BY <2>1 DEF WorkerStep, WorkerReadOnly, WorkerPreflight, WorkerExecute, WorkerEnter,
       WorkerStaged, WorkerPublish, WorkerFinish, WorkerFail, WorkerGoes, TypeOK
  <2> QED
    BY <2>2, <2>3, <2>4 DEF WorkerOK, schedVars
<1>9. CASE Exit
  BY <1>9 DEF Exit, ProcessGone, WorkerOK, WorkerAlive
<1>10. CASE \/ \E g \in Grants : GrantCreate(g) \/ GrantRevoke(g)
            \/ \E j \in Jobs : JobCreate(j) \/ JobCancel(j) \/ JobTransition(j)
            \/ \E j \in Jobs, a \in {"resume", "rollback"} : RecoverBegin(j, a)
            \/ RecoverEnd \/ OtherHandlerCommits \/ BeginRefused
            \/ Shutdown \/ CloseStore
            \/ \E s \in Sources : SourceDrifts(s)
            \/ \E t \in Targets : ForeignAppears(t)
            \/ UNCHANGED vars
  BY <1>1, <1>10 DEF GrantCreate, GrantRevoke, JobCreate, JobCancel, JobTransition,
     RecoverBegin, RecoverEnd, OtherHandlerCommits, BeginRefused, Shutdown, CloseStore,
     SourceDrifts, ForeignAppears, schedVars, vars
<1> QED
  BY <1>3, <1>4, <1>5, <1>6, <1>7, <1>8, <1>9, <1>10
     DEF Next, SchedulerStep, Orderly, Crash

(***************************************************************************)
(* In a lifetime without a kill, whatever state is recorded for a job, its *)
(* process tree was terminated and reaped first.                           *)
(***************************************************************************)
THEOREM ReapedFirst == ASSUME Orderly PROVE Spec => []ReapedBeforeRecorded
<1>1. Init => WorkerOK
  BY DEF Init, WorkerOK, WorkerAlive
<1>2. IndInv /\ WorkerOK => ReapedBeforeRecorded
  BY DEF IndInv, WorkerOK, WorkerAlive, SchedOK, Executing, ReapedBeforeRecorded
<1>3. IndInv /\ WorkerOK /\ [Next]_vars => WorkerOK'
  BY NextWorker
<1> QED
  BY <1>1, <1>2, <1>3, Invariance, PTL DEF Spec

-----------------------------------------------------------------------------
(* What an external operation may leave                                     *)

(* The stage, if there is one, is of this source and operation.             *)
StageOf(op, s, g) == g = NoStage \/ (Journaled(op) /\ g.src = s)

(***************************************************************************)
(* The operation on a visible destination: success means that the bytes    *)
(* are those of the source, unless an extraction adopts a foreign journal. *)
(***************************************************************************)
LEMMA VisibleEffect ==
    ASSUME NEW op \in Operations, NEW s \in Sources, NEW f \in Fs
    PROVE  /\ ExecuteVisible(op, s, f).fs.stage \in {f.stage, NoStage}
           /\ /\ ExecuteVisible(op, s, f).ok
              /\ op # "game.package.extract" \/ StageOf(op, s, f.stage)
              => ExecuteVisible(op, s, f).fs.dest = s
BY DEF ExecuteVisible, StageBecame, Outcome, StageOf, Journaled, NoStage

(***************************************************************************)
(* Adopting the journal of an earlier attempt.                             *)
(***************************************************************************)
LEMMA EnterEffect ==
    ASSUME NEW op \in Operations, NEW s \in Sources, NEW f \in Fs
    PROVE  /\ EnterWithJournal(op, s, f).fs.stage \in {f.stage, NoStage}
           /\ EnterWithJournal(op, s, f).ok => EnterWithJournal(op, s, f).fs.dest = s
BY DEF EnterWithJournal, StageBecame, Outcome, NoStage

(***************************************************************************)
(* A whole execution, as recovery and forced cancellation call it.         *)
(***************************************************************************)
LEMMA ExecuteEffect ==
    ASSUME NEW op \in Operations, NEW s \in Sources, NEW f \in Fs, NEW busy, NEW moved,
           NEW o \in ExecuteOutcomes(op, s, f, busy, moved)
    PROVE  /\ o.fs.stage = f.stage \/ StageOf(op, s, o.fs.stage)
           /\ o.ok /\ (op # "game.package.extract" \/ StageOf(op, s, f.stage))
              => o.fs.dest = s
<1>1. CASE o = Outcome(f.dest, f.stage, FALSE)
  BY <1>1 DEF Outcome
<1>2. CASE o = ExecuteVisible(op, s, f)
  BY <1>2, VisibleEffect DEF StageOf
<1>3. CASE o = EnterWithJournal(op, s, f)
  BY <1>3, EnterEffect DEF StageOf
<1>4. CASE o \in FreshOutcomes(op, s)
  <2>1. \/ \E ok \in BOOLEAN : o = Outcome(s, NoStage, ok)
        \/ o = Outcome(Absent, NoStage, FALSE)
        \/ /\ Journaled(op)
           /\ \E d \in {s, Absent}, b \in BOOLEAN :
                 o = Outcome(d, [src |-> s, full |-> b], FALSE)
    BY <1>4 DEF FreshOutcomes
  <2> QED
    BY <2>1 DEF Outcome, StageOf
<1> QED
  BY <1>1, <1>2, <1>3, <1>4 DEF ExecuteOutcomes

(***************************************************************************)
(* A roll-back succeeds only where nothing is visible, and leaves no       *)
(* journalled stage behind.                                                *)
(***************************************************************************)
LEMMA RollbackEffect ==
    ASSUME NEW op \in Operations, NEW s \in Sources, NEW f \in Fs, NEW busy,
           NEW o \in RollbackOutcomes(op, f, busy)
    PROVE  /\ o.fs.stage \in {f.stage, NoStage}
           /\ o.ok /\ StageOf(op, s, f.stage) => o.fs.dest = Absent /\ o.fs.stage = NoStage
BY DEF RollbackOutcomes, Outcome, StageOf

-----------------------------------------------------------------------------
(* What is left at a destination                                            *)

Clean(t) == stage[t] = NoStage /\ dest[t] \in {Absent, Foreign}

(* Which workers touch a destination, and how.                              *)
WorkerKindOK ==
    \A j \in Jobs :
        /\ worker[j] \in WorkerAlive \ {"started"} => j \in External
        /\ worker[j] = "staging" => Journaled(OpOf[j])

(* A grant nobody holds, and one whose job has not touched it yet or no     *)
(* longer, is clean.                                                        *)
CleanOK ==
    /\ \A t \in Targets : grant[t] \in {"absent", "ready", "revoked"} => Clean(t)
    /\ \A j \in External : state[j] = "queued" => Clean(TargetOf[j])
    /\ cur \in External =>
        /\ sched \in {"claimed", "prepared", "validated"} => Clean(TargetOf[cur])
        /\ sched = "finishing" /\ outcome \in {"failed", "canceled"} => Clean(TargetOf[cur])

(* A stage is the holder's own.                                             *)
StageOK ==
    \A j \in External :
        /\ reservedBy[TargetOf[j]] = j =>
              StageOf(OpOf[j], SourceOf[j], stage[TargetOf[j]])
        /\ worker[j] = "staging" => stage[TargetOf[j]].src = SourceOf[j]

LeftInv == IndInv /\ WorkerOK /\ WorkerKindOK /\ CleanOK /\ StageOK

(***************************************************************************)
(* What a step of a worker does to its own entry and destination.          *)
(***************************************************************************)
LEMMA WorkerEffect ==
    ASSUME TypeOK, WorkerKindOK, NEW j \in Jobs, WorkerStep(j)
    PROVE  /\ worker[j] \in WorkerAlive
           /\ \A i \in Jobs : i # j => worker'[i] = worker[i]
           /\ UNCHANGED <<state, grant, reservedBy, sched, cur, outcome>>
           /\ \A t \in Targets : t # TargetOf[j] =>
                 dest'[t] = dest[t] /\ stage'[t] = stage[t]
           /\ j \notin External => UNCHANGED <<dest, stage>>
           /\ worker'[j] \in WorkerAlive \ {"started"} => j \in External
           /\ worker'[j] = "staging" =>
                 Journaled(OpOf[j]) /\ stage'[TargetOf[j]].src = SourceOf[j]
           /\ \/ stage'[TargetOf[j]] \in {stage[TargetOf[j]], NoStage}
              \/ /\ Journaled(OpOf[j])
                 /\ \/ stage'[TargetOf[j]].src = SourceOf[j]
                    \/ /\ worker[j] = "staging"
                       /\ stage'[TargetOf[j]].src = stage[TargetOf[j]].src
<1> USE JobsAssumption DEF WorkerKindOK
<1>1. PICK t \in Targets, s \in Sources, op \in Operations :
         t = TargetOf[j] /\ s = SourceOf[j] /\ op = OpOf[j]
  OBVIOUS
<1>2. /\ FsOf(t) \in Fs /\ FsOf(t).dest = dest[t] /\ FsOf(t).stage = stage[t]
      /\ stage[t] \in Stage
  BY DEF TypeOK, FsOf, Fs
<1>3. UNCHANGED <<state, grant, reservedBy, sched, cur, outcome>>
  BY WorkerIsSafe DEF dbVars, schedVars
<1>4. ASSUME NEW w \in WorkerStates, WorkerGoes(j, w)
      PROVE  /\ worker'[j] = w
             /\ \A i \in Jobs : i # j => worker'[i] = worker[i]
  BY <1>4 DEF WorkerGoes, TypeOK
<1>5. ASSUME NEW f \in Fs, SetFs(t, f)
      PROVE  /\ dest'[t] = f.dest /\ stage'[t] = f.stage
             /\ \A u \in Targets : u # t => dest'[u] = dest[u] /\ stage'[u] = stage[u]
  BY <1>5 DEF SetFs, TypeOK
<1>6. {"ok", "err", "checked", "entering", "staging", "staged", "published"}
         \subseteq WorkerStates
  BY DEF WorkerStates, WorkerAlive
<1>7. CASE WorkerReadOnly(j) \/ WorkerPreflight(j) \/ WorkerFail(j)
  BY <1>1, <1>3, <1>4, <1>6, <1>7
     DEF WorkerReadOnly, WorkerPreflight, WorkerFail, fsVars, WorkerAlive
<1>8. CASE WorkerExecute(j)
  <2>1. worker[j] = "checked" /\ j \in External
    BY <1>8 DEF WorkerExecute, WorkerAlive
  <2>2. CASE dest[t] = Absent
    BY <1>1, <1>3, <1>4, <1>6, <1>8, <2>1, <2>2 DEF WorkerExecute, fsVars, WorkerAlive
  <2>3. CASE dest[t] # Absent
    <3>1. PICK o : /\ o = ExecuteVisible(op, s, FsOf(t)) /\ SetFs(t, o.fs)
                   /\ WorkerGoes(j, IF o.ok THEN "ok" ELSE "err")
      BY <1>1, <1>8, <2>3 DEF WorkerExecute
    <3>2. o.fs \in Fs /\ o.fs.stage \in {stage[t], NoStage}
      BY <1>2, <3>1, VisibleIsSafe, VisibleEffect
    <3>3. worker'[j] \in {"ok", "err"} /\ \A i \in Jobs : i # j => worker'[i] = worker[i]
      BY <1>4, <1>6, <3>1
    <3> QED
      BY <1>1, <1>3, <1>5, <2>1, <3>1, <3>2, <3>3 DEF WorkerAlive
  <2> QED
    BY <2>2, <2>3
<1>9. CASE WorkerEnter(j)
  <2>1. worker[j] = "entering" /\ j \in External
    BY <1>9 DEF WorkerEnter, WorkerAlive
  <2>2. CASE ~Journaled(op)
    BY <1>1, <1>3, <1>4, <1>6, <1>9, <2>1, <2>2 DEF WorkerEnter, fsVars, WorkerAlive
  <2>3. CASE Journaled(op) /\ stage[t] # NoStage
    <3>1. PICK o : /\ o = EnterWithJournal(op, s, FsOf(t)) /\ SetFs(t, o.fs)
                   /\ WorkerGoes(j, IF o.ok THEN "ok" ELSE "err")
      BY <1>1, <1>9, <2>3 DEF WorkerEnter
    <3>2. o.fs.stage \in {stage[t], NoStage}
      BY <1>2, <3>1, EnterEffect
    <3>3. o.fs \in Fs
      BY <1>2, <3>1, SourceNames DEF EnterWithJournal, Outcome, Fs, Stage, NoStage,
         StageBecame, Content
    <3>4. worker'[j] \in {"ok", "err"} /\ \A i \in Jobs : i # j => worker'[i] = worker[i]
      BY <1>4, <1>6, <3>1
    <3> QED
      BY <1>1, <1>3, <1>5, <2>1, <3>1, <3>2, <3>3, <3>4 DEF WorkerAlive
  <2>4. CASE Journaled(op) /\ stage[t] = NoStage
    <3>1. PICK f \in Fs : f = [dest |-> Absent, stage |-> [src |-> s, full |-> FALSE]]
      BY DEF Fs, Content, Stage
    <3>2. WorkerGoes(j, "staging") /\ SetFs(t, f)
      BY <1>1, <1>9, <2>4, <3>1 DEF WorkerEnter
    <3> QED
      BY <1>1, <1>3, <1>4, <1>5, <1>6, <2>1, <2>4, <3>1, <3>2 DEF WorkerAlive
  <2> QED
    BY <2>2, <2>3, <2>4
<1>10. CASE WorkerStaged(j)
  <2>1. worker[j] = "staging" /\ j \in External /\ Journaled(op) /\ UNCHANGED dest
    BY <1>1, <1>10 DEF WorkerStaged, WorkerAlive
  <2>2. /\ stage'[t].src = stage[t].src
        /\ \A u \in Targets : u # t => stage'[u] = stage[u]
    BY <1>1, <1>2, <1>10 DEF WorkerStaged, TypeOK, Stage
  <2> QED
    BY <1>1, <1>3, <1>4, <1>6, <1>10, <2>1, <2>2 DEF WorkerStaged, WorkerAlive
<1>11. CASE WorkerPublish(j) \/ WorkerFinish(j)
  <2>1. worker[j] \in {"staged", "published"} /\ j \in External
    BY <1>11 DEF WorkerPublish, WorkerFinish, WorkerAlive
  <2>2. /\ \A u \in Targets : u # t => dest'[u] = dest[u] /\ stage'[u] = stage[u]
        /\ stage'[t] \in {stage[t], NoStage}
    BY <1>1, <1>11 DEF WorkerPublish, WorkerFinish, TypeOK
  <2>3. \E w \in {"published", "ok", "err"} : WorkerGoes(j, w)
    BY <1>11 DEF WorkerPublish, WorkerFinish
  <2> QED
    BY <1>1, <1>3, <1>4, <1>6, <2>1, <2>2, <2>3 DEF WorkerAlive
<1> QED
  BY <1>7, <1>8, <1>9, <1>10, <1>11 DEF WorkerStep

(***************************************************************************)
(* Who is at work at a destination holds it.                               *)
(***************************************************************************)
LEMMA AtWork ==
    ASSUME LeftInv, NEW j \in External, NEW t \in Targets, t = TargetOf[j],
           state[j] \in {"queued", "running", "orphaned"}
    PROVE  /\ reservedBy[t] = j /\ grant[t] \in {"reserved", "recovery_required"}
           /\ StageOf(OpOf[j], SourceOf[j], stage[t])
           /\ \A i \in External : i # j /\ TargetOf[i] = t =>
                 state[i] \notin {"queued", "running", "orphaned"}
BY DEF LeftInv, IndInv, ReservationsMatchJobs, StageOK, External

(***************************************************************************)
(* Steps that change no file and no worker, free no grant and let no job   *)
(* begin or end.                                                           *)
(***************************************************************************)
LEMMA QuietLeft ==
    ASSUME LeftInv, UNCHANGED <<stage, worker, reservedBy>>,
           \A t \in Targets : Clean(t) => Clean(t)',
           \A t \in Targets : grant'[t] \in {"absent", "ready", "revoked"} =>
              grant[t] \in {"absent", "ready", "revoked"},
           \A j \in External : state'[j] = "queued" =>
              state[j] = "queued" \/ grant[TargetOf[j]] = "ready",
           cur' \in External =>
              /\ sched' \in {"claimed", "prepared", "validated"} =>
                    Clean(TargetOf[cur'])
              /\ sched' = "finishing" /\ outcome' \in {"failed", "canceled"} =>
                    Clean(TargetOf[cur'])
    PROVE  WorkerKindOK' /\ CleanOK' /\ StageOK'
<1> USE JobsAssumption
<1>1. WorkerKindOK' /\ StageOK'
  BY DEF LeftInv, WorkerKindOK, StageOK
<1>2. \A j \in External : TargetOf[j] \in Targets
  BY DEF External
<1>3. \A t \in Targets : grant'[t] \in {"absent", "ready", "revoked"} => Clean(t)'
  BY DEF LeftInv, CleanOK
<1>4. \A j \in External : state'[j] = "queued" => Clean(TargetOf[j])'
  BY <1>2 DEF LeftInv, CleanOK
<1>5. cur' \in External =>
        /\ sched' \in {"claimed", "prepared", "validated"} => Clean(TargetOf[cur])'
        /\ sched' = "finishing" /\ outcome' \in {"failed", "canceled"} =>
              Clean(TargetOf[cur])'
  BY <1>2
<1> QED
  BY <1>1, <1>3, <1>4, <1>5 DEF CleanOK

(***************************************************************************)
(* Requests: a queued job leaves a clean destination when it is canceled,  *)
(* and finds one when it is created.                                       *)
(***************************************************************************)
LEMMA RequestsLeft ==
    ASSUME LeftInv,
           \/ \E g \in Grants : GrantCreate(g) \/ GrantRevoke(g)
           \/ \E j \in Jobs : JobCreate(j) \/ JobCancel(j) \/ JobTransition(j)
           \/ \E j \in Jobs, a \in {"resume", "rollback"} : RecoverBegin(j, a)
           \/ OtherHandlerCommits \/ BeginRefused
    PROVE  WorkerKindOK' /\ CleanOK' /\ StageOK'
<1> USE JobsAssumption DEF LeftInv, IndInv
<1>1. CASE \/ \E g \in Grants : GrantCreate(g) \/ GrantRevoke(g)
           \/ \E j \in Jobs, a \in {"resume", "rollback"} : RecoverBegin(j, a)
           \/ OtherHandlerCommits \/ BeginRefused
           \/ \E j \in Jobs : JobTransition(j)
  <2>1. UNCHANGED <<stage, dest, worker, reservedBy, sched, cur, outcome>>
    BY <1>1 DEF GrantCreate, GrantRevoke, RecoverBegin, OtherHandlerCommits, BeginRefused,
       JobTransition, dbVars, svcVars, schedVars, fsVars
  <2>2. \A j \in External : state'[j] = state[j]
    BY <1>1 DEF GrantCreate, GrantRevoke, RecoverBegin, OtherHandlerCommits, BeginRefused,
       JobTransition, dbVars, TypeOK, External, Managed
  <2>3. \A t \in Targets : grant'[t] \in {"absent", "ready", "revoked"} =>
           grant[t] \in {"absent", "ready", "revoked"}
    BY <1>1 DEF GrantCreate, GrantRevoke, RecoverBegin, OtherHandlerCommits, BeginRefused,
       JobTransition, dbVars, TypeOK, CommittedGrants, Seen, SvcOK, Grants
  <2>4. cur' \in External =>
           /\ sched' \in {"claimed", "prepared", "validated"} => Clean(TargetOf[cur'])
           /\ sched' = "finishing" /\ outcome' \in {"failed", "canceled"} =>
                 Clean(TargetOf[cur'])
    BY <2>1 DEF CleanOK
  <2>5. \A t \in Targets : Clean(t) => Clean(t)'
    BY <2>1 DEF Clean
  <2> QED
    BY <2>1, <2>2, <2>3, <2>4, <2>5, QuietLeft
<1>2. ASSUME NEW j \in Jobs, JobCreate(j)
      PROVE  WorkerKindOK' /\ CleanOK' /\ StageOK'
  <2>1. UNCHANGED <<stage, dest, worker, sched, cur, outcome>>
    BY <1>2 DEF JobCreate, schedVars, fsVars
  <2>2. /\ state'[j] = "queued"
        /\ \A i \in Jobs : i # j => state'[i] = state[i]
        /\ j \in External => grant[TargetOf[j]] = "ready"
    BY <1>2 DEF JobCreate, TypeOK, Reservable
  <2>3. /\ \A t \in Targets : reservedBy'[t] \in {reservedBy[t], j}
        /\ \A t \in Targets : grant'[t] \in {"absent", "ready", "revoked"} =>
              grant'[t] = grant[t]
        /\ \A t \in Targets : reservedBy'[t] = j =>
              reservedBy[t] = j \/ (grant[t] = "ready" /\ j \in External)
    BY <1>2 DEF JobCreate, TypeOK, Reservable, Grants
  <2>4. WorkerKindOK'
    BY <2>1 DEF WorkerKindOK
  <2>5. CleanOK'
    BY <2>1, <2>2, <2>3 DEF CleanOK, Clean, External
  <2>6. StageOK'
    <3>1. ASSUME NEW i \in External, reservedBy'[TargetOf[i]] = i
          PROVE  StageOf(OpOf[i], SourceOf[i], stage[TargetOf[i]])
      BY <2>3, <3>1 DEF StageOK, CleanOK, Clean, StageOf, External
    <3> QED
      BY <2>1, <3>1 DEF StageOK
  <2> QED
    BY <2>4, <2>5, <2>6
<1>3. ASSUME NEW j \in Jobs, JobCancel(j)
      PROVE  WorkerKindOK' /\ CleanOK' /\ StageOK'
  <2>1. UNCHANGED <<stage, dest, worker, sched, cur, outcome>>
    BY <1>3 DEF JobCancel, schedVars, fsVars
  <2>2. CASE UNCHANGED <<grant, reservedBy>>
    <3>1. \A i \in External : state'[i] = "queued" => state[i] = "queued"
      BY <1>3 DEF JobCancel, TypeOK, External
    <3>2. cur' \in External =>
             /\ sched' \in {"claimed", "prepared", "validated"} => Clean(TargetOf[cur'])
             /\ sched' = "finishing" /\ outcome' \in {"failed", "canceled"} =>
                   Clean(TargetOf[cur'])
      BY <2>1 DEF CleanOK
    <3>3. \A t \in Targets : Clean(t) => Clean(t)'
      BY <2>1 DEF Clean
    <3> QED
      BY <2>1, <2>2, <3>1, <3>2, <3>3, QuietLeft
  <2>3. CASE j \in External /\ state[j] = "queued" /\ ReleaseTarget(j)
    <3>1. Clean(TargetOf[j])
      BY <2>3 DEF CleanOK
    <3>2. /\ \A t \in Targets : t # TargetOf[j] =>
                grant'[t] = grant[t] /\ reservedBy'[t] = reservedBy[t]
          /\ reservedBy'[TargetOf[j]] = NoJob
          /\ \A i \in Jobs : state'[i] = "queued" => state[i] = "queued"
      BY <1>3, <2>3 DEF JobCancel, ReleaseTarget, TypeOK, Grants
    <3>3. WorkerKindOK'
      BY <2>1 DEF WorkerKindOK
    <3>4. CleanOK'
      BY <2>1, <3>1, <3>2 DEF CleanOK, Clean, External
    <3>5. StageOK'
      BY <2>1, <3>2 DEF StageOK, External
    <3> QED
      BY <3>3, <3>4, <3>5
  <2> QED
    BY <1>3, <2>2, <2>3 DEF JobCancel, External, Managed, QueueOK, TypeOK, JobStates, Terminal
<1> QED
  BY <1>1, <1>2, <1>3

(***************************************************************************)
(* Explicit recovery frees a grant only after it was rolled back, and      *)
(* leaves no stage but the orphan's own.                                   *)
(***************************************************************************)
LEMMA RecoveryLeft ==
    ASSUME LeftInv, RecoverEnd
    PROVE  WorkerKindOK' /\ CleanOK' /\ StageOK'
<1> USE JobsAssumption DEF LeftInv, IndInv
<1>1. PICK j \in External, t \in Targets, s \in Sources, op \in Operations :
         j = recJob /\ t = TargetOf[j] /\ s = SourceOf[j] /\ op = OpOf[j]
  BY DEF RecoverEnd, SvcOK, External
<1>2. state[j] = "orphaned" /\ UNCHANGED <<worker, sched, cur, outcome>>
  BY <1>1 DEF RecoverEnd, SvcOK, schedVars
<1>3. /\ reservedBy[t] = j /\ grant[t] \in {"reserved", "recovery_required"}
      /\ StageOf(op, s, stage[t])
      /\ \A i \in External : i # j /\ TargetOf[i] = t =>
            state[i] \notin {"queued", "running", "orphaned"}
  BY <1>1, <1>2, AtWork
<1>4. FsOf(t) \in Fs /\ FsOf(t).stage = stage[t]
  BY DEF TypeOK, FsOf, Fs
<1>5. /\ \A u \in Targets : u # t => dest'[u] = dest[u] /\ stage'[u] = stage[u]
      /\ StageOf(op, s, stage'[t])
      /\ \/ UNCHANGED <<state, grant, reservedBy>>
         \/ /\ state' = [state EXCEPT ![j] = "succeeded"]
            /\ ConsumeGrants(j)
         \/ /\ state' = [state EXCEPT ![j] = "canceled"]
            /\ ReleaseTarget(j)
            /\ dest'[t] = Absent /\ stage'[t] = NoStage
  <2>1. CASE recAction = "resume"
    <3>1. PICK o \in ExecuteOutcomes(op, s, FsOf(t), DestinationBusy(t), s \in drifted) :
             /\ SetFs(t, o.fs)
             /\ \/ UNCHANGED <<state, grant, reservedBy>>
                \/ /\ state' = [state EXCEPT ![j] = "succeeded"]
                   /\ ConsumeGrants(j)
      BY <1>1, <2>1 DEF RecoverEnd
    <3>2. o.fs.stage = stage[t] \/ StageOf(op, s, o.fs.stage)
      BY <1>4, <3>1, ExecuteEffect
    <3> QED
      BY <1>3, <3>1, <3>2 DEF SetFs, TypeOK
  <2>2. CASE recAction # "resume"
    <3>1. PICK o \in RollbackOutcomes(op, FsOf(t), DestinationBusy(t)) :
             /\ SetFs(t, o.fs)
             /\ \/ UNCHANGED <<state, grant, reservedBy>>
                \/ /\ o.ok
                   /\ state' = [state EXCEPT ![j] = "canceled"]
                   /\ ReleaseTarget(j)
      BY <1>1, <2>2 DEF RecoverEnd
    <3>2. /\ o.fs.stage \in {stage[t], NoStage}
          /\ o.ok => o.fs.dest = Absent /\ o.fs.stage = NoStage
      BY <1>3, <1>4, <3>1, RollbackEffect
    <3> QED
      BY <1>3, <3>1, <3>2 DEF SetFs, TypeOK, StageOf
  <2> QED
    BY <2>1, <2>2
<1>6. /\ \A u \in Targets : u # t => reservedBy'[u] = reservedBy[u]
      /\ reservedBy'[t] \in {j, NoJob}
      /\ \A u \in Targets : grant'[u] \in {"absent", "ready", "revoked"} =>
            \/ u # t /\ grant'[u] = grant[u]
            \/ u = t /\ dest'[t] = Absent /\ stage'[t] = NoStage
      /\ \A i \in Jobs : i # j => state'[i] = state[i]
      /\ state'[j] # "queued"
  BY <1>1, <1>2, <1>3, <1>5 DEF ConsumeGrants, ReleaseTarget, TypeOK, Grants, External
<1>7. WorkerKindOK'
  BY <1>2 DEF WorkerKindOK
<1>8. ASSUME NEW i \in External, i # j, state[i] \in {"queued", "running"}
      PROVE  TargetOf[i] # t /\ TargetOf[i] \in Targets
  BY <1>3, <1>8 DEF External
<1>9. sched \in Executing => cur # j /\ state[cur] = "running"
  BY <1>2 DEF SchedOK
<1>10. CleanOK'
  <2>1. \A u \in Targets : grant'[u] \in {"absent", "ready", "revoked"} => Clean(u)'
    BY <1>5, <1>6 DEF CleanOK, Clean
  <2>2. \A i \in External : state'[i] = "queued" => Clean(TargetOf[i])'
    BY <1>5, <1>6, <1>8 DEF CleanOK, Clean, External
  <2>3. cur \in External /\ sched \in Executing =>
           TargetOf[cur] # t /\ TargetOf[cur] \in Targets
    BY <1>8, <1>9
  <2>4. cur' \in External =>
          /\ sched' \in {"claimed", "prepared", "validated"} => Clean(TargetOf[cur])'
          /\ sched' = "finishing" /\ outcome' \in {"failed", "canceled"} =>
                Clean(TargetOf[cur])'
    BY <1>2, <1>5, <2>3 DEF CleanOK, Clean, Executing
  <2> QED
    BY <2>1, <2>2, <2>4 DEF CleanOK
<1>11. StageOK'
  <2>1. ASSUME NEW i \in External, reservedBy'[TargetOf[i]] = i
        PROVE  StageOf(OpOf[i], SourceOf[i], stage'[TargetOf[i]])
    <3>1. CASE TargetOf[i] = t
      BY <1>1, <1>5, <1>6, <2>1, <3>1 DEF External
    <3>2. CASE TargetOf[i] # t
      BY <1>5, <1>6, <2>1, <3>2 DEF StageOK, External
    <3> QED
      BY <3>1, <3>2
  <2>2. ASSUME NEW i \in External, worker'[i] = "staging"
        PROVE  stage'[TargetOf[i]].src = SourceOf[i]
    <3>1. sched \in {"spawned", "polling"} /\ cur = i
      BY <1>2, <2>2 DEF WorkerOK, WorkerAlive, External
    <3>2. i # j /\ state[i] = "running"
      BY <1>9, <3>1 DEF Executing
    <3>3. TargetOf[i] # t /\ TargetOf[i] \in Targets
      BY <1>8, <3>2
    <3> QED
      BY <1>2, <1>5, <2>2, <3>3 DEF StageOK
  <2> QED
    BY <2>1, <2>2 DEF StageOK
<1> QED
  BY <1>7, <1>10, <1>11

(***************************************************************************)
(* The scheduler records failed or canceled for a job that has touched     *)
(* nothing, or whose destination it has just rolled back.                  *)
(***************************************************************************)
LEMMA SchedulerLeft ==
    ASSUME LeftInv, SchedulerStep
    PROVE  WorkerKindOK' /\ CleanOK' /\ StageOK'
<1> USE JobsAssumption DEF LeftInv, IndInv
<1>1. ASSUME NEW j \in Jobs, Claim(j)
      PROVE  WorkerKindOK' /\ CleanOK' /\ StageOK'
  <2>1. /\ UNCHANGED <<stage, dest, worker, reservedBy, grant>>
        /\ state[j] = "queued" /\ cur' = j /\ sched' = "claimed"
        /\ \A i \in Jobs : state'[i] = "queued" => state[i] = "queued"
    BY <1>1 DEF Claim, Oldest, fsVars, TypeOK
  <2>2. j \in External => Clean(TargetOf[j])
    BY <2>1 DEF CleanOK
  <2>3. \A t \in Targets : Clean(t) => Clean(t)'
    BY <2>1 DEF Clean
  <2> QED
    BY <2>1, <2>2, <2>3, QuietLeft DEF External
<1>2. CASE \/ Prepare \/ Progress20 \/ Progress50 \/ SchedulerStops
           \/ (SchedulerBusyTimeout /\ sched' = "dead")
  <2>1. UNCHANGED <<stage, dest, worker, reservedBy, grant, state>> /\ cur' = cur
    BY <1>2 DEF Prepare, Progress20, Progress50, SchedulerStops, SchedulerBusyTimeout, Goto,
       Conclude, dbVars, fsVars
  <2>2. /\ sched' \in {"claimed", "prepared", "validated"} =>
              sched \in {"claimed", "prepared", "validated"}
        /\ sched' = "finishing" => sched \in {"claimed", "prepared", "validated"}
    BY <1>2 DEF Prepare, Progress20, Progress50, SchedulerStops, SchedulerBusyTimeout, Goto,
       Conclude
  <2>3. \A t \in Targets : Clean(t) => Clean(t)'
    BY <2>1 DEF Clean
  <2> QED
    BY <2>1, <2>2, <2>3, QuietLeft DEF CleanOK
<1>3. CASE \/ Spawn \/ PollRunning \/ PollExited
           \/ (SchedulerBusyTimeout /\ sched' # "dead")
  <2>1. /\ UNCHANGED <<stage, dest, reservedBy, grant, state>>
        /\ cur' = cur /\ cur \in Jobs
    BY <1>3 DEF Spawn, PollRunning, PollExited, SchedulerBusyTimeout, ConcludeCancel, Goto,
       Conclude, dbVars, fsVars, SchedOK, Executing, Managed
  <2>2. \A j \in Jobs : worker'[j] \in {worker[j], "started", "none"}
    BY <1>3, <2>1 DEF Spawn, PollRunning, PollExited, SchedulerBusyTimeout, Goto, Conclude,
       Reap, TypeOK
  <2>3. cur \in External =>
           /\ sched' \notin {"claimed", "prepared", "validated"}
           /\ sched' = "finishing" /\ outcome' \in {"failed", "canceled"} =>
                 sched = "validated"
    BY <1>3 DEF Spawn, PollRunning, PollExited, SchedulerBusyTimeout, ConcludeCancel, Goto,
       Conclude, Interrupted
  <2>4. WorkerKindOK'
    BY <2>2 DEF WorkerKindOK, WorkerAlive
  <2>5. CleanOK'
    BY <2>1, <2>3 DEF CleanOK, Clean
  <2>6. StageOK'
    BY <2>1, <2>2 DEF StageOK, External
  <2> QED
    BY <2>4, <2>5, <2>6
<1>4. CASE ResolveForcedCancel
  <2>1. PICK j \in Jobs, t \in Targets, s \in Sources, op \in Operations :
           j = cur /\ t = TargetOf[j] /\ s = SourceOf[j] /\ op = OpOf[j]
    BY <1>4 DEF ResolveForcedCancel, SchedOK, Executing, Managed
  <2>2. /\ state[j] = "running" /\ sched' = "finishing"
        /\ UNCHANGED <<state, grant, reservedBy, worker, cur>>
    BY <1>4, <2>1 DEF ResolveForcedCancel, SchedOK, Executing, dbVars
  <2>3. \A i \in Jobs : worker[i] \notin WorkerAlive
    BY <1>4 DEF ResolveForcedCancel, WorkerOK, WorkerAlive
  <2>4. CASE ~BindingHolds(j)
    <3>1. outcome' = "orphaned" /\ UNCHANGED <<dest, stage>>
      BY <1>4, <2>1, <2>4 DEF ResolveForcedCancel, fsVars
    <3>2. \A u \in Targets : Clean(u) => Clean(u)'
      BY <3>1 DEF Clean
    <3> QED
      BY <2>2, <3>1, <3>2, QuietLeft
  <2>5. CASE BindingHolds(j)
    <3>1. /\ reservedBy[t] = j /\ grant[t] \in {"reserved", "recovery_required"}
      BY <2>1, <2>5 DEF BindingHolds
    <3>2. j \in External
      BY <2>1, <3>1 DEF ReservationsMatchJobs
    <3>3. /\ StageOf(op, s, stage[t])
          /\ \A i \in External : i # j /\ TargetOf[i] = t => state[i] # "queued"
      BY <2>1, <2>2, <3>2, AtWork
    <3>4. FsOf(t) \in Fs /\ FsOf(t).stage = stage[t]
      BY DEF TypeOK, FsOf, Fs
    <3>5. /\ \A u \in Targets : u # t => dest'[u] = dest[u] /\ stage'[u] = stage[u]
          /\ StageOf(op, s, stage'[t])
          /\ outcome' \in {"failed", "canceled"} =>
                dest'[t] = Absent /\ stage'[t] = NoStage
      <4>1. CASE dest[t] # Absent
        <5>1. PICK o \in ExecuteOutcomes(op, s, FsOf(t), DestinationBusy(t), s \in drifted) :
                 SetFs(t, o.fs) /\ outcome' \in {"orphaned", "succeeded"}
          BY <1>4, <2>1, <2>5, <4>1 DEF ResolveForcedCancel
        <5>2. o.fs.stage = stage[t] \/ StageOf(op, s, o.fs.stage)
          BY <3>4, <5>1, ExecuteEffect
        <5> QED
          BY <3>3, <5>1, <5>2 DEF SetFs, TypeOK
      <4>2. CASE dest[t] = Absent
        <5>1. PICK o \in RollbackOutcomes(op, FsOf(t), DestinationBusy(t)) :
                 /\ SetFs(t, o.fs)
                 /\ outcome' = IF o.ok THEN "canceled" ELSE "orphaned"
          BY <1>4, <2>1, <2>5, <4>2 DEF ResolveForcedCancel
        <5>2. /\ o.fs.stage \in {stage[t], NoStage}
              /\ o.ok => o.fs.dest = Absent /\ o.fs.stage = NoStage
          BY <3>3, <3>4, <5>1, RollbackEffect
        <5> QED
          BY <3>3, <5>1, <5>2 DEF SetFs, TypeOK, StageOf
      <4> QED
        BY <4>1, <4>2
    <3>6. WorkerKindOK'
      BY <2>2 DEF WorkerKindOK
    <3>7. CleanOK'
      <4>1. \A u \in Targets : grant'[u] \in {"absent", "ready", "revoked"} => Clean(u)'
        BY <2>2, <3>1, <3>5 DEF CleanOK, Clean
      <4>2. \A i \in External : state'[i] = "queued" => Clean(TargetOf[i])'
        BY <2>2, <3>3, <3>5 DEF CleanOK, Clean, External
      <4>3. outcome' \in {"failed", "canceled"} => Clean(t)'
        BY <3>5 DEF Clean
      <4> QED
        BY <2>1, <2>2, <4>1, <4>2, <4>3 DEF CleanOK
    <3>8. StageOK'
      <4>1. ASSUME NEW i \in External, reservedBy[TargetOf[i]] = i
            PROVE  StageOf(OpOf[i], SourceOf[i], stage'[TargetOf[i]])
        BY <2>1, <3>1, <3>5, <4>1 DEF StageOK, External
      <4>2. \A i \in External : worker'[i] # "staging"
        BY <2>2, <2>3 DEF WorkerAlive, External
      <4> QED
        BY <2>2, <4>1, <4>2 DEF StageOK
    <3> QED
      BY <3>6, <3>7, <3>8
  <2> QED
    BY <2>4, <2>5
<1>5. CASE Finish
  <2>1. /\ cur \in Jobs /\ UNCHANGED <<stage, dest, worker>>
        /\ cur' = NoJob /\ sched' = "idle" /\ outcome \in Terminal \cup {"orphaned"}
        /\ state' = [state EXCEPT ![cur] = outcome] /\ state[cur] = "running"
    BY <1>5 DEF Finish, SchedOK, Executing, Managed, fsVars, TypeOK
  <2>2. \A i \in Jobs : state'[i] = "queued" => state[i] = "queued"
    BY <2>1 DEF TypeOK, Terminal
  <2>3. /\ \A t \in Targets : reservedBy'[t] \in {reservedBy[t], NoJob}
        /\ \A t \in Targets : grant'[t] \in {"absent", "ready", "revoked"} =>
              \/ grant'[t] = grant[t]
              \/ cur \in External /\ t = TargetOf[cur] /\ outcome \in {"failed", "canceled"}
    BY <1>5, <2>1 DEF Finish, SettleGrants, ConsumeGrants, ReleaseTarget, TypeOK, Grants,
       Terminal, External
  <2>4. WorkerKindOK'
    BY <2>1 DEF WorkerKindOK, WorkerAlive
  <2>5. CleanOK'
    <3>1. \A t \in Targets : grant'[t] \in {"absent", "ready", "revoked"} => Clean(t)
      BY <1>5, <2>3 DEF CleanOK, Finish
    <3>2. \A i \in External : state'[i] = "queued" => Clean(TargetOf[i])
      BY <2>2 DEF CleanOK, External
    <3>3. NoJob \notin External
      BY DEF External
    <3> QED
      BY <2>1, <3>1, <3>2, <3>3 DEF CleanOK, Clean
  <2>6. StageOK'
    BY <2>1, <2>3 DEF StageOK, External
  <2> QED
    BY <2>4, <2>5, <2>6
<1> QED
  BY <1>1, <1>2, <1>3, <1>4, <1>5 DEF SchedulerStep

(***************************************************************************)
(* A worker touches only the destination its job holds, and leaves no      *)
(* stage there but its own.                                                *)
(***************************************************************************)
LEMMA WorkerLeft ==
    ASSUME LeftInv, NEW j \in Jobs, WorkerStep(j)
    PROVE  WorkerKindOK' /\ CleanOK' /\ StageOK'
<1> USE JobsAssumption DEF LeftInv, IndInv
<1>1. PICK t \in Targets, s \in Sources, op \in Operations :
         t = TargetOf[j] /\ s = SourceOf[j] /\ op = OpOf[j]
  OBVIOUS
<1>2. /\ sched \in {"spawned", "polling"} /\ cur = j /\ state[j] = "running"
      /\ UNCHANGED <<state, grant, reservedBy, sched, cur, outcome>>
      /\ \A i \in Jobs : i # j => worker'[i] = worker[i]
  BY WorkerEffect DEF WorkerOK, WorkerAlive, SchedOK, Executing
<1>3. /\ \A u \in Targets : u # t => dest'[u] = dest[u] /\ stage'[u] = stage[u]
      /\ j \notin External => UNCHANGED <<dest, stage>>
      /\ worker'[j] \in WorkerAlive \ {"started"} => j \in External
      /\ worker'[j] = "staging" => Journaled(op) /\ stage'[t].src = s
  BY <1>1, WorkerEffect
<1>4. j \in External =>
        /\ grant[t] \in {"reserved", "recovery_required"} /\ reservedBy[t] = j
        /\ StageOf(op, s, stage[t])
        /\ \A i \in External : i # j /\ TargetOf[i] = t =>
              state[i] \notin {"queued", "running", "orphaned"}
  BY <1>1, <1>2, AtWork
<1>5. j \in External => StageOf(op, s, stage'[t])
  <2> SUFFICES ASSUME j \in External PROVE StageOf(op, s, stage'[t])
    OBVIOUS
  <2>1. worker[j] = "staging" => stage[t].src = s
    BY <1>1 DEF StageOK
  <2>2. \/ stage'[t] \in {stage[t], NoStage}
        \/ /\ Journaled(op)
           /\ \/ stage'[t].src = s
              \/ worker[j] = "staging" /\ stage'[t].src = stage[t].src
    BY <1>1, WorkerEffect
  <2> QED
    BY <1>4, <2>1, <2>2 DEF StageOf
<1>6. WorkerKindOK'
  <2>1. ASSUME NEW i \in Jobs
        PROVE  /\ worker'[i] \in WorkerAlive \ {"started"} => i \in External
               /\ worker'[i] = "staging" => Journaled(OpOf[i])
    BY <1>1, <1>2, <1>3 DEF WorkerKindOK
  <2> QED
    BY <2>1 DEF WorkerKindOK, WorkerAlive
<1>7. CleanOK'
  <2>1. \A u \in Targets : grant'[u] \in {"absent", "ready", "revoked"} => Clean(u)'
    BY <1>2, <1>3, <1>4 DEF CleanOK, Clean
  <2>2. \A i \in External : state'[i] = "queued" => Clean(TargetOf[i])'
    BY <1>2, <1>3, <1>4 DEF CleanOK, Clean, External
  <2> QED
    BY <1>2, <2>1, <2>2 DEF CleanOK
<1>8. StageOK'
  <2>1. ASSUME NEW i \in External, reservedBy[TargetOf[i]] = i
        PROVE  StageOf(OpOf[i], SourceOf[i], stage'[TargetOf[i]])
    BY <1>1, <1>3, <1>4, <1>5, <2>1 DEF StageOK, External
  <2>2. ASSUME NEW i \in External, worker'[i] = "staging"
        PROVE  stage'[TargetOf[i]].src = SourceOf[i]
    <3>1. i = j
      BY <1>2, <2>2 DEF WorkerOK, WorkerAlive, External
    <3> QED
      BY <1>1, <1>3, <2>2, <3>1
  <2> QED
    BY <1>2, <2>1, <2>2 DEF StageOK
<1> QED
  BY <1>6, <1>7, <1>8

(***************************************************************************)
(* Shutdown and restart free no grant; the world outside may put something *)
(* at a free destination, but no stage.                                    *)
(***************************************************************************)
LEMMA LifetimeLeft ==
    ASSUME LeftInv,
           \/ Shutdown \/ CloseStore \/ Exit \/ Start
           \/ \E s \in Sources : SourceDrifts(s)
           \/ \E t \in Targets : ForeignAppears(t)
           \/ UNCHANGED vars
    PROVE  WorkerKindOK' /\ CleanOK' /\ StageOK'
<1> USE JobsAssumption DEF LeftInv, IndInv
<1>1. CASE \/ Shutdown \/ CloseStore
           \/ \E s \in Sources : SourceDrifts(s)
           \/ UNCHANGED vars
  <2>1. UNCHANGED <<stage, dest, worker, reservedBy, grant, state, sched, cur, outcome>>
    BY <1>1 DEF Shutdown, CloseStore, SourceDrifts, vars, dbVars, schedVars, fsVars
  <2>2. \A t \in Targets : Clean(t) => Clean(t)'
    BY <2>1 DEF Clean
  <2> QED
    BY <2>1, <2>2, QuietLeft DEF CleanOK
<1>2. CASE Exit
  <2>1. /\ UNCHANGED <<stage, dest, reservedBy, grant, state>> /\ cur' = NoJob
        /\ \A j \in Jobs : worker'[j] \in {worker[j], "none"}
    BY <1>2 DEF Exit, ProcessGone, dbVars, fsVars
  <2>2. NoJob \notin External
    BY DEF External
  <2>3. WorkerKindOK'
    BY <2>1 DEF WorkerKindOK, WorkerAlive
  <2>4. CleanOK'
    BY <2>1, <2>2 DEF CleanOK, Clean
  <2>5. StageOK'
    BY <2>1 DEF StageOK, External
  <2> QED
    BY <2>3, <2>4, <2>5
<1>3. CASE Start
  <2>1. /\ UNCHANGED <<stage, dest, worker, reservedBy>> /\ sched' = "idle"
        /\ \A j \in Jobs : state'[j] = "queued" => state[j] = "queued"
        /\ \A t \in Targets : grant'[t] \in {"absent", "ready", "revoked"} =>
              grant'[t] = grant[t]
    BY <1>3 DEF Start, StateOnStart, GrantOnStart, InterruptedByRestart, fsVars, Grants
  <2>2. \A t \in Targets : Clean(t) => Clean(t)'
    BY <2>1 DEF Clean
  <2> QED
    BY <2>1, <2>2, QuietLeft DEF External
<1>4. CASE \E t \in Targets : ForeignAppears(t)
  <2>1. /\ UNCHANGED <<stage, worker, reservedBy, grant, state, sched, cur, outcome>>
        /\ \A t \in Targets : dest'[t] \in {dest[t], Foreign}
    BY <1>4 DEF ForeignAppears, dbVars, schedVars, TypeOK
  <2>2. \A t \in Targets : Clean(t) => Clean(t)'
    BY <2>1 DEF Clean
  <2> QED
    BY <2>1, <2>2, QuietLeft DEF CleanOK
<1> QED
  BY <1>1, <1>2, <1>3, <1>4

(***************************************************************************)
(* Without a kill, every step keeps what is known of the destinations.     *)
(***************************************************************************)
LEMMA NextLeft == Orderly /\ LeftInv /\ [Next]_vars => LeftInv'
<1> SUFFICES ASSUME Orderly, LeftInv, [Next]_vars PROVE LeftInv'
  OBVIOUS
<1>1. IndInv' /\ WorkerOK'
  BY NextInd, NextWorker DEF LeftInv
<1>2. CASE SchedulerStep
  BY <1>1, <1>2, SchedulerLeft DEF LeftInv
<1>3. CASE \E j \in Jobs : WorkerStep(j)
  BY <1>1, <1>3, WorkerLeft DEF LeftInv
<1>4. CASE RecoverEnd
  BY <1>1, <1>4, RecoveryLeft DEF LeftInv
<1>5. CASE \/ \E g \in Grants : GrantCreate(g) \/ GrantRevoke(g)
           \/ \E j \in Jobs : JobCreate(j) \/ JobCancel(j) \/ JobTransition(j)
           \/ \E j \in Jobs, a \in {"resume", "rollback"} : RecoverBegin(j, a)
           \/ OtherHandlerCommits \/ BeginRefused
  BY <1>1, <1>5, RequestsLeft DEF LeftInv
<1>6. CASE \/ Shutdown \/ CloseStore \/ Exit \/ Start
           \/ \E s \in Sources : SourceDrifts(s)
           \/ \E t \in Targets : ForeignAppears(t)
           \/ UNCHANGED vars
  BY <1>1, <1>6, LifetimeLeft DEF LeftInv
<1> QED
  BY <1>2, <1>3, <1>4, <1>5, <1>6 DEF Next, Orderly, Crash

(***************************************************************************)
(* At first nothing was ever staged.                                       *)
(***************************************************************************)
LEMMA InitLeft == Init => LeftInv
<1> SUFFICES ASSUME Init PROVE WorkerOK /\ WorkerKindOK /\ CleanOK /\ StageOK
  BY InitInd DEF LeftInv
<1> USE JobsAssumption
<1>1. WorkerOK /\ WorkerKindOK
  BY DEF Init, WorkerOK, WorkerKindOK, WorkerAlive
<1>2. CleanOK
  BY DEF Init, CleanOK, Clean, External
<1>3. StageOK
  BY DEF Init, StageOK, StageOf, External
<1> QED
  BY <1>1, <1>2, <1>3

(***************************************************************************)
(* In a lifetime without a kill, a target grant is free only when nothing  *)
(* of an earlier job is left at its destination or staged beside it,       *)
(* whatever the user cancels, revokes, resumes or rolls back, and whatever *)
(* a worker had done when it was stopped.                                  *)
(***************************************************************************)
THEOREM FreeIsClean == ASSUME Orderly PROVE Spec => []FreeTargetIsClean
<1>1. LeftInv => FreeTargetIsClean
  BY DEF LeftInv, CleanOK, Clean, FreeTargetIsClean
<1>2. LeftInv /\ [Next]_vars => LeftInv'
  BY NextLeft
<1> QED
  BY <1>1, <1>2, InitLeft, PTL DEF Spec


-----------------------------------------------------------------------------
(* What is recorded as success                                              *)

IsPublished(j) == dest[TargetOf[j]] = SourceOf[j]

(* A worker that reports success, a success about to be recorded and one    *)
(* that is recorded: each time the job's own bytes are at its destination.  *)
SuccessOK ==
    \A j \in External : Compared(j) =>
        /\ worker[j] \in {"published", "ok"} => IsPublished(j)
        /\ cur = j /\ sched = "finishing" /\ outcome = "succeeded" => IsPublished(j)
        /\ state[j] = "succeeded" => IsPublished(j)

SuccessInv == IndInv /\ SuccessOK /\ (Orderly => LeftInv)

(***************************************************************************)
(* Published bytes stay: nothing replaces what is visible.                 *)
(***************************************************************************)
LEMMA PublishedStays ==
    ASSUME IndInv, [Next]_vars, NEW j \in External, IsPublished(j)
    PROVE  IsPublished(j)'
<1> USE JobsAssumption
<1>1. TargetOf[j] \in Targets /\ SourceOf[j] \in Sources
  BY DEF External
<1>2. dest[TargetOf[j]] # Absent
  BY <1>1, SourceNames DEF IsPublished
<1> QED
  BY <1>1, <1>2, StepKeepsVisible DEF IsPublished

(***************************************************************************)
(* The stage an extraction finds is its own, while nobody else can have    *)
(* left one.                                                               *)
(***************************************************************************)
LEMMA OwnStage ==
    ASSUME SuccessInv, NEW j \in External, Compared(j), NEW t \in Targets, t = TargetOf[j],
           state[j] \in {"queued", "running", "orphaned"}
    PROVE  OpOf[j] # "game.package.extract" \/ StageOf(OpOf[j], SourceOf[j], stage[t])
<1>1. CASE Orderly
  BY <1>1, AtWork DEF SuccessInv
<1>2. CASE ~Orderly
  BY <1>2 DEF Compared
<1> QED
  BY <1>1, <1>2

(***************************************************************************)
(* A worker that has published, or reports success, has put its own bytes  *)
(* at the destination or compared what it found there.                     *)
(***************************************************************************)
LEMMA WorkerSucceeds ==
    ASSUME SuccessInv, NEW j \in External, Compared(j), WorkerStep(j),
           worker'[j] \in {"published", "ok"}
    PROVE  IsPublished(j)'
<1> USE JobsAssumption DEF SuccessInv, IndInv
<1>1. PICK t \in Targets, s \in Sources, op \in Operations :
         t = TargetOf[j] /\ s = SourceOf[j] /\ op = OpOf[j]
  BY DEF External
<1>2. /\ FsOf(t) \in Fs /\ FsOf(t).dest = dest[t] /\ FsOf(t).stage = stage[t]
  BY DEF TypeOK, FsOf, Fs
<1>3. ASSUME NEW w, WorkerGoes(j, w)
      PROVE  worker'[j] = w
  BY <1>3 DEF WorkerGoes, TypeOK, External
<1>4. ASSUME NEW f \in Fs, SetFs(t, f)
      PROVE  dest'[t] = f.dest
  BY <1>4 DEF SetFs, TypeOK
<1>5. CASE WorkerReadOnly(j) \/ WorkerPreflight(j) \/ WorkerStaged(j) \/ WorkerFail(j)
  BY <1>3, <1>5 DEF WorkerReadOnly, WorkerPreflight, WorkerStaged, WorkerFail
<1>6. CASE WorkerExecute(j)
  <2>1. dest[t] # Absent
    BY <1>1, <1>3, <1>6 DEF WorkerExecute
  <2>2. PICK o : /\ o = ExecuteVisible(op, s, FsOf(t)) /\ SetFs(t, o.fs)
                 /\ WorkerGoes(j, IF o.ok THEN "ok" ELSE "err")
    BY <1>1, <1>6, <2>1 DEF WorkerExecute
  <2>3. o.ok /\ o.fs \in Fs
    BY <1>2, <1>3, <2>2, VisibleIsSafe
  <2>4. op # "game.package.extract" \/ StageOf(op, s, stage[t])
    <3>1. CASE Orderly
      <4>1. worker[j] \in WorkerAlive /\ LeftInv
        BY <1>6, <3>1 DEF WorkerExecute, WorkerAlive
      <4>2. sched \in {"spawned", "polling"} /\ cur = j
        BY <4>1 DEF LeftInv, WorkerOK, WorkerAlive, External
      <4>3. state[j] = "running"
        BY <4>2 DEF SchedOK, Executing
      <4> QED
        BY <1>1, <4>3, OwnStage
    <3>2. CASE ~Orderly
      BY <1>1, <3>2 DEF Compared
    <3> QED
      BY <3>1, <3>2
  <2>5. o.fs.dest = s
    BY <1>2, <2>2, <2>3, <2>4, VisibleEffect
  <2> QED
    BY <1>1, <1>4, <2>2, <2>3, <2>5 DEF IsPublished
<1>7. CASE WorkerEnter(j)
  <2>1. Journaled(op) /\ stage[t] # NoStage
    BY <1>1, <1>3, <1>7 DEF WorkerEnter
  <2>2. PICK o : /\ o = EnterWithJournal(op, s, FsOf(t)) /\ SetFs(t, o.fs)
                 /\ WorkerGoes(j, IF o.ok THEN "ok" ELSE "err")
    BY <1>1, <1>7, <2>1 DEF WorkerEnter
  <2>3. o.ok
    BY <1>3, <2>2
  <2>4. o.fs \in Fs
    BY <1>2, <2>2, SourceNames DEF EnterWithJournal, Outcome, Fs, Stage, NoStage,
       StageBecame, Content
  <2> QED
    BY <1>1, <1>2, <1>4, <2>2, <2>3, <2>4, EnterEffect DEF IsPublished
<1>8. CASE WorkerPublish(j)
  BY <1>1, <1>8 DEF WorkerPublish, TypeOK, IsPublished
<1>9. CASE WorkerFinish(j)
  BY <1>9 DEF WorkerFinish, SuccessOK, IsPublished
<1> QED
  BY <1>5, <1>6, <1>7, <1>8, <1>9 DEF WorkerStep

(***************************************************************************)
(* The scheduler decides for success only on a worker's report, or after   *)
(* it has verified what a cancelled worker left visible.                   *)
(***************************************************************************)
LEMMA SchedulerSucceeds ==
    ASSUME SuccessInv, SchedulerStep, NEW j \in External, Compared(j),
           cur' = j, sched' = "finishing", outcome' = "succeeded"
    PROVE  IsPublished(j)'
<1> USE JobsAssumption DEF SuccessInv, IndInv
<1>1. CASE PollExited
  <2>1. worker[cur] = "ok" /\ cur' = cur /\ UNCHANGED dest
    BY <1>1 DEF PollExited, Conclude, ConcludeCancel, Goto, Interrupted, fsVars
  <2> QED
    BY <2>1 DEF SuccessOK, IsPublished
<1>2. CASE ResolveForcedCancel
  <2>1. PICK t \in Targets, s \in Sources, op \in Operations :
           t = TargetOf[j] /\ s = SourceOf[j] /\ op = OpOf[j]
    BY DEF External
  <2>2. cur = j /\ state[j] = "running"
    BY <1>2 DEF ResolveForcedCancel, SchedOK, Executing
  <2>3. FsOf(t) \in Fs /\ FsOf(t).stage = stage[t]
    BY DEF TypeOK, FsOf, Fs
  <2>4. PICK o \in ExecuteOutcomes(op, s, FsOf(t), DestinationBusy(t), s \in drifted) :
           SetFs(t, o.fs) /\ o.ok
    BY <1>2, <2>1, <2>2 DEF ResolveForcedCancel
  <2>5. o.fs \in Fs /\ o.fs.dest = s
    BY <2>1, <2>2, <2>3, <2>4, ExecuteEffect, ExecuteIsSafe, OwnStage
  <2> QED
    BY <2>1, <2>4, <2>5 DEF SetFs, TypeOK, IsPublished
<1>3. CASE \/ \E i \in Jobs : Claim(i)
           \/ Prepare \/ Progress20 \/ Spawn \/ Progress50 \/ PollRunning
           \/ Finish \/ SchedulerBusyTimeout \/ SchedulerStops
  BY <1>3 DEF Claim, Prepare, Progress20, Spawn, Progress50, PollRunning, Finish,
     SchedulerBusyTimeout, SchedulerStops, Conclude, ConcludeCancel, Goto, Interrupted
<1> QED
  BY <1>1, <1>2, <1>3 DEF SchedulerStep

(***************************************************************************)
(* An explicit resume reports what it published or compared.               *)
(***************************************************************************)
LEMMA ResumeSucceeds ==
    ASSUME SuccessInv, RecoverEnd, NEW j \in External, Compared(j),
           state[j] # "succeeded", state'[j] = "succeeded"
    PROVE  IsPublished(j)'
<1> USE JobsAssumption DEF SuccessInv, IndInv
<1>1. PICK t \in Targets, s \in Sources, op \in Operations :
         t = TargetOf[j] /\ s = SourceOf[j] /\ op = OpOf[j]
  BY DEF External
<1>2. j = recJob /\ recAction = "resume" /\ state[j] = "orphaned"
  BY DEF RecoverEnd, SvcOK, TypeOK, External
<1>3. FsOf(t) \in Fs /\ FsOf(t).stage = stage[t]
  BY DEF TypeOK, FsOf, Fs
<1>4. PICK o \in ExecuteOutcomes(op, s, FsOf(t), DestinationBusy(t), s \in drifted) :
         SetFs(t, o.fs) /\ o.ok
  BY <1>1, <1>2 DEF RecoverEnd
<1>5. o.fs \in Fs /\ o.fs.dest = s
  BY <1>1, <1>2, <1>3, <1>4, ExecuteEffect, ExecuteIsSafe, OwnStage
<1> QED
  BY <1>1, <1>4, <1>5 DEF SetFs, TypeOK, IsPublished

(***************************************************************************)
(* Every other step passes a success on from the worker to the scheduler   *)
(* and from the scheduler to the row, or leaves it where it is.            *)
(***************************************************************************)
LEMMA NextSuccess == SuccessInv /\ [Next]_vars => SuccessInv'
<1> SUFFICES ASSUME SuccessInv, [Next]_vars PROVE SuccessOK'
  <2>1. SuccessInv /\ [Next]_vars => IndInv' /\ (Orderly => LeftInv')
    BY NextInd, NextLeft DEF SuccessInv
  <2>2. Orderly' = Orderly
    BY DEF Orderly
  <2> QED
    BY <2>1, <2>2 DEF SuccessInv
<1> USE JobsAssumption DEF SuccessInv, IndInv
<1> SUFFICES ASSUME NEW j \in External, Compared(j), ~IsPublished(j)'
             PROVE  /\ worker'[j] \notin {"published", "ok"}
                    /\ ~(cur' = j /\ sched' = "finishing" /\ outcome' = "succeeded")
                    /\ state'[j] # "succeeded"
  BY DEF SuccessOK, Compared, Orderly
<1>1. /\ worker[j] \notin {"published", "ok"}
      /\ ~(cur = j /\ sched = "finishing" /\ outcome = "succeeded")
      /\ state[j] # "succeeded"
  BY PublishedStays DEF SuccessOK
<1>2. j \in Jobs /\ j \in Managed
  BY DEF External, Managed
<1>3. CASE SchedulerStep
  <2>1. ~(cur' = j /\ sched' = "finishing" /\ outcome' = "succeeded")
    BY <1>3, SchedulerSucceeds
  <2>2. worker'[j] \in {worker[j], "started", "none"}
    BY <1>2, <1>3 DEF SchedulerStep, Claim, Prepare, Progress20, Spawn, Progress50,
       PollRunning, PollExited, ResolveForcedCancel, Finish, SchedulerBusyTimeout,
       SchedulerStops, Reap, TypeOK
  <2>3. state'[j] = state[j] \/ (Finish /\ cur = j /\ state'[j] = outcome)
                             \/ state'[j] = "running"
    BY <1>2, <1>3 DEF SchedulerStep, Claim, Prepare, Progress20, Spawn, Progress50,
       PollRunning, PollExited, ResolveForcedCancel, Finish, SchedulerBusyTimeout,
       SchedulerStops, Goto, Conclude, ConcludeCancel, dbVars, TypeOK
  <2> QED
    BY <1>1, <2>1, <2>2, <2>3 DEF Finish
<1>4. ASSUME NEW i \in Jobs, WorkerStep(i)
      PROVE  /\ worker'[j] \notin {"published", "ok"}
             /\ ~(cur' = j /\ sched' = "finishing" /\ outcome' = "succeeded")
             /\ state'[j] # "succeeded"
  <2>1. UNCHANGED <<state, sched, cur, outcome>>
    BY <1>4, WorkerIsSafe DEF dbVars, schedVars
  <2>2. CASE i = j
    BY <1>1, <1>4, <2>1, <2>2, WorkerSucceeds
  <2>3. CASE i # j
    <3>1. worker'[j] = worker[j]
      BY <1>4, <2>3 DEF WorkerStep, WorkerReadOnly, WorkerPreflight, WorkerExecute,
         WorkerEnter, WorkerStaged, WorkerPublish, WorkerFinish, WorkerFail, WorkerGoes,
         TypeOK, External
    <3> QED
      BY <1>1, <2>1, <3>1
  <2> QED
    BY <2>2, <2>3
<1>5. CASE RecoverEnd
  <2>1. UNCHANGED <<sched, cur, outcome, worker>>
    BY <1>5 DEF RecoverEnd, schedVars
  <2> QED
    BY <1>1, <1>5, <2>1, ResumeSucceeds
<1>6. CASE Exit \/ Crash
  <2>1. /\ UNCHANGED state /\ sched' = "down"
        /\ worker'[j] \in {worker[j], "none"}
    BY <1>2, <1>6 DEF Exit, Crash, ProcessGone, dbVars
  <2> QED
    BY <1>1, <2>1
<1>7. CASE Start
  BY <1>1, <1>2, <1>7 DEF Start, StateOnStart
<1>8. CASE \/ \E g \in Grants : GrantCreate(g) \/ GrantRevoke(g)
           \/ \E i \in Jobs : JobCreate(i) \/ JobCancel(i)
           \/ \E i \in Jobs : JobTransition(i)
           \/ \E i \in Jobs, a \in {"resume", "rollback"} : RecoverBegin(i, a)
           \/ OtherHandlerCommits \/ BeginRefused \/ Shutdown \/ CloseStore
           \/ \E s \in Sources : SourceDrifts(s)
           \/ \E t \in Targets : ForeignAppears(t)
           \/ UNCHANGED vars
  <2>1. UNCHANGED <<sched, cur, outcome, worker>>
    BY <1>8 DEF GrantCreate, GrantRevoke, JobCreate, JobCancel, JobTransition, RecoverBegin,
       OtherHandlerCommits, BeginRefused, Shutdown, CloseStore, SourceDrifts,
       ForeignAppears, schedVars, vars
  <2>2. state'[j] \in {state[j], "queued", "canceled"}
    BY <1>2, <1>8 DEF GrantCreate, GrantRevoke, JobCreate, JobCancel, JobTransition,
       RecoverBegin, OtherHandlerCommits, BeginRefused, Shutdown, CloseStore,
       SourceDrifts, ForeignAppears, dbVars, vars, TypeOK
  <2> QED
    BY <1>1, <2>1, <2>2
<1> QED
  BY <1>3, <1>4, <1>5, <1>6, <1>7, <1>8 DEF Next

(***************************************************************************)
(* A job recorded as succeeded has its own artifact at its destination:    *)
(* for every materialization and packaging, across kills, restarts, forced *)
(* cancellations and resumed recoveries, and for every extraction in a     *)
(* lifetime without a kill.                                                *)
(***************************************************************************)
THEOREM SuccessIsOwn ==
    ASSUME \A j \in External : Compared(j)
    PROVE  Spec => []SucceededIsPublished
<1>1. Init => SuccessInv
  BY InitInd, InitLeft DEF SuccessInv, Init, SuccessOK, External
<1>2. SuccessInv => SucceededIsPublished
  BY DEF SuccessInv, SuccessOK, IsPublished, SucceededIsPublished
<1>3. SuccessInv /\ [Next]_vars => SuccessInv'
  BY NextSuccess
<1> QED
  BY <1>1, <1>2, <1>3, PTL DEF Spec

=============================================================================
