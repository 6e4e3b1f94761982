------------------------- MODULE CreationJobsProofs -------------------------
(***************************************************************************)
(* Proofs about CreationJobs for any jobs, grants, platforms and number of *)
(* starts.  The invariant comes in three layers, each proved inductive     *)
(* with the help of those below it: who is at work on which row, the       *)
(* private files of an attempt, and the publication of a destination.      *)
(***************************************************************************)
EXTENDS CreationJobs, FiniteSetTheorems, TLAPS

-----------------------------------------------------------------------------
(* First layer: control                                                     *)

Ending == {"error", "clean", "cleaned", "release", "finish", "write"}
After  == {"committed", "recorded", "retire", "retired", "complete"}

(* The scheduler holds a running job until it commits it or gives it up.    *)
RunOK ==
    /\ run.pc \in {"idle", "dead"} => run.job = NoJob /\ ~run.drop
    /\ run.pc \notin {"idle", "dead"} => run.job \in Jobs
    /\ run.pc \in Executing \cup Ending => job[run.job].state = "running"
    /\ run.pc \in After => job[run.job].state = "succeeded"
    /\ run.pc \in {"clean", "cleaned", "release", "finish", "write"} => run.end # "none"
    /\ service \in {"down", "refused"} => run = IdleRun

(* A recovery holds an orphan, or a success that is still to be cleaned.    *)
RecOK ==
    /\ service # "up" => rec.pc = "idle"
    /\ rec.pc # "idle" =>
          /\ rec.job \in Jobs
          /\ rec.mode = "cleanup" => job[rec.job].state = "succeeded" /\ rec.pc = "clean"
          /\ rec.mode # "cleanup" => job[rec.job].state = "orphaned"
    /\ rec.pc = "settle" => rec.job \in Publishing /\ rec.mode = "resume"
    /\ rec.pc = "unwind" => rec.job \in Publishing /\ rec.mode = "rollback"

Advancing == {"reserved", "worker_started", "output_published"}

(* The phase of the attempt the scheduler works on                          *)
PhaseOK ==
    LET j == run.job
        p == attempt[run.job].phase
    IN /\ run.pc \in {"attempted", "staged"} => p = "reserving"
       /\ run.pc \in {"bound", "journaled"} => p = "bound"
       /\ run.pc \in {"ready", "progressed", "appended"} => p \in Advancing
       /\ run.pc \in {"progressed", "appended"} => job[j].step = Follows(p)
       /\ run.pc \in {"spawn", "register", "feed", "wait"} => p = "worker_started"
       /\ run.pc \in {"begin", "materialize"} => p = "output_published" /\ j \in Publishing
       /\ run.pc = "commit" => p = "registry_committing"
       /\ run.pc \in {"clean", "cleaned"} => p # "none"

(* A record that is about to be written is behind its row.                  *)
AheadOK ==
    /\ run.pc = "progressed" => ahead[run.job] > 0
    /\ run.pc = "committed" /\ files[run.job].journal = "registry_committing" =>
          ahead[run.job] > 0

Control == TypeOK /\ RunOK /\ RecOK /\ PhaseOK /\ AheadOK /\ RunningIsHeld

-----------------------------------------------------------------------------
(* Second layer: cancellation, workers and private files                    *)

CancelOK == \A j \in accepted : job[j].state = "running" /\ job[j].cancel

WorkerOK ==
    \A j \in Jobs :
        /\ worker[j] = "fed" =>
              /\ attempt[j].worker
              /\ service \in {"up", "stopping"} => run.job = j /\ run.pc = "wait"
        /\ worker[j] = "waiting" => run.job = j /\ run.pc \in {"register", "feed"}
        /\ run.job = j /\ run.pc = "feed" => attempt[j].worker

Bare(j) == ~files[j].stage /\ files[j].journal = "none"

(* What the scheduler or a recovery has deleted, and what it will drop      *)
DropOK ==
    /\ run.drop => run.pc \in {"clean", "cleaned", "release", "finish", "write"}
    /\ run.pc \in {"clean", "cleaned"} => run.drop
    /\ run.pc = "cleaned" => ~files[run.job].stage
    /\ run.pc \in {"release", "finish", "write"} =>
          /\ run.drop => Bare(run.job)
          /\ ~run.drop => attempt[run.job].phase = "none" \/ run.end = "orphaned"
    /\ run.pc = "release" => run.drop \/ attempt[run.job].phase = "none"
    /\ run.pc = "retired" => ~files[run.job].stage
    /\ run.pc = "complete" => Bare(run.job)
    /\ rec.pc = "cleaned" => ~files[rec.job].stage
    /\ rec.pc = "commit" => Bare(rec.job)

(* Files have an attempt, and an attempt has a job that is not over.        *)
OwnedOK ==
    \A j \in Jobs :
        /\ ~Bare(j) => attempt[j].phase # "none"
        /\ attempt[j].phase # "none" =>
              \/ job[j].state \in {"running", "orphaned"}
              \/ job[j].state = "succeeded" /\ job[j].step = "cleanup_pending"

Private == CancelOK /\ WorkerOK /\ DropOK /\ OwnedOK

-----------------------------------------------------------------------------
(* Third layer: destinations                                                *)

(* Who a grant belongs to                                                   *)
GrantOK ==
    \A g \in Grants :
        /\ grant[g].state \in {"ready", "revoked"} => grant[g].by = NoJob /\ Auth(g) = "none"
        /\ grant[g].state \in Held \cup {"published"} =>
              grant[g].by \in Publishing /\ GrantOf[grant[g].by] = g
        /\ grant[g].state \in Held =>
              job[grant[g].by].state \in {"queued", "running", "orphaned"}
        /\ grant[g].state = "published" =>
              job[grant[g].by].state = "succeeded" /\ Auth(g) = "none"

(* What each authority of a row says of the destination                     *)
Described(g) ==
    LET o == out[g]
        a == Auth(g)
        t == grant[g].by
    IN /\ a = "none" => o.journal = "none" /\ o.stage = "none" /\ o.target = NoJob
       /\ a = "reserved" => o.journal \in {"none", "intent"} /\ o.stage = "none" /\ o.target = NoJob
       /\ a = "started" => o.journal = "intent" /\ o.stage # "full" /\ o.target = NoJob
       /\ a = "allocated" => /\ o.journal \in {"intent", "copying"} /\ o.stage = "partial"
                             /\ o.target = NoJob
       /\ a = "staged" => /\ o.journal \in {"copying", "ready"}
                          /\ o.target \in {NoJob, t}
                          /\ o.target = t => o.journal = "ready" /\ o.stage = "none"
                          /\ o.target = NoJob => o.stage # "none"
       /\ a = "resetting" => o.target = NoJob
       /\ a = "verified" => /\ o.journal \in {"none", "ready"} /\ o.stage = "none"
                            /\ o.target \in {NoJob, t}
                            /\ o.target = NoJob => o.journal = "none"

DestinationOK ==
    \A g \in Grants : IF grant[g].state = "published" THEN out[g].target = grant[g].by
                                                      ELSE Described(g)

Decided(g) == Verified(g) \/ (Auth(g) \in {"none", "reserved"} /\ Clear(g))

Owns(j) == grant[GrantOf[j]].by = j

(* The grant of the job the scheduler, or a recovery, works on              *)
HolderOK ==
    LET j == run.job
        g == GrantOf[run.job]
    IN run.job \in Publishing =>
          /\ run.pc = "claimed" => Owns(j) /\ Decided(g)
          /\ run.pc = "error" /\ attempt[j].phase = "none" => Owns(j) /\ Decided(g)
          /\ run.pc = "materialize" => Owns(j) /\ grant[g].state = "reserved"
          /\ run.pc \in {"clean", "cleaned"} /\ Owns(j) => Auth(g) = "none"
          /\ run.pc = "release" /\ Owns(j) => Decided(g)
          /\ run.pc \in {"finish", "write"} /\ run.end # "orphaned" => ~Owns(j)

RecoveredOK ==
    LET j == rec.job
        g == GrantOf[rec.job]
    IN rec.pc # "idle" /\ rec.mode # "cleanup" /\ j \in Publishing =>
          /\ Owns(j) /\ grant[g].state \in Held
          /\ rec.pc \in {"clean", "cleaned", "commit"} =>
                IF rec.mode = "resume" THEN Decided(g) ELSE Clear(g)

Published ==
    /\ GrantOK /\ DestinationOK /\ HolderOK /\ RecoveredOK
    /\ ResumeIsDecided /\ SucceededIsPublished

-----------------------------------------------------------------------------
(* Rows keep their shape when a field gets another value of its kind.       *)

(* An attempt keeps its shape. *)
LEMMA AttemptTyped ==
    ASSUME NEW I, NEW P, NEW W, NEW f \in [I -> [phase : P, worker : W]], NEW i,
           NEW p \in P, NEW w \in W
    PROVE  /\ [f EXCEPT ![i].phase = p] \in [I -> [phase : P, worker : W]]
           /\ [f EXCEPT ![i].worker = w] \in [I -> [phase : P, worker : W]]
  OBVIOUS

(* So do the private files of an attempt *)
LEMMA FilesTyped ==
    ASSUME NEW I, NEW S, NEW J, NEW f \in [I -> [stage : S, journal : J]], NEW i,
           NEW s \in S, NEW n \in J
    PROVE  /\ [f EXCEPT ![i].stage = s] \in [I -> [stage : S, journal : J]]
           /\ [f EXCEPT ![i].journal = n] \in [I -> [stage : S, journal : J]]
  OBVIOUS

(* So do the row of a job *)
LEMMA RowTyped ==
    ASSUME TypeOK, NEW j \in Jobs
    PROVE  /\ \A t \in Steps : [job EXCEPT ![j].step = t] \in JobRows
           /\ [job EXCEPT ![j].cancel = TRUE] \in JobRows
           /\ \A s \in States, t \in Steps :
                 [job EXCEPT ![j].state = s, ![j].step = t] \in JobRows
           /\ \A s \in States, q \in Nat :
                 [job EXCEPT ![j].state = s, ![j].seq = q] \in JobRows
           /\ \A s \in States, t \in Steps :
                 [job EXCEPT ![j].state = s, ![j].step = t, ![j].cancel = FALSE] \in JobRows
<1> DEFINE B == BOOLEAN
<1>1. TRUE \in B /\ FALSE \in B
  OBVIOUS
<1>2. job \in [Jobs -> [state : States, step : Steps, cancel : B, seq : Nat]]
  BY DEF TypeOK, JobRows
<1>3. JobRows = [Jobs -> [state : States, step : Steps, cancel : B, seq : Nat]]
  BY DEF JobRows
<1> HIDE DEF B
<1> QED
  BY <1>1, <1>2, <1>3

(* the row of a grant *)
LEMMA GrantTyped ==
    ASSUME TypeOK, NEW g \in Grants
    PROVE  /\ [grant EXCEPT ![g] = FreeGrant] \in GrantRows
           /\ \A a \in Authorities : [grant EXCEPT ![g].auth = a] \in GrantRows
           /\ \A s \in {"ready", "revoked", "published"} \cup Held :
                 /\ [grant EXCEPT ![g].state = s] \in GrantRows
                 /\ \A a \in Authorities :
                       [grant EXCEPT ![g].state = s, ![g].auth = a] \in GrantRows
                 /\ \A j \in Jobs : [grant EXCEPT ![g].state = s, ![g].by = j] \in GrantRows
<1> DEFINE S == {"ready", "revoked", "published"} \cup Held
<1> DEFINE J == Jobs \cup {NoJob}
<1>1. /\ GrantRows = [Grants -> [state : S, by : J, auth : Authorities]]
      /\ Jobs \subseteq J
  BY DEF GrantRows
<1>2. grant \in [Grants -> [state : S, by : J, auth : Authorities]]
  BY DEF TypeOK, GrantRows
<1> HIDE DEF S, J
<1>3. ASSUME NEW s \in S
      PROVE  /\ [grant EXCEPT ![g].state = s] \in GrantRows
             /\ \A a \in Authorities :
                   [grant EXCEPT ![g].state = s, ![g].auth = a] \in GrantRows
             /\ \A j \in Jobs : [grant EXCEPT ![g].state = s, ![g].by = j] \in GrantRows
  BY <1>1, <1>2
<1>4. \A a \in Authorities : [grant EXCEPT ![g].auth = a] \in GrantRows
  BY <1>1, <1>2
<1>5. FreeGrant \in [state : S, by : J, auth : Authorities]
  BY DEF FreeGrant, S, J, Authorities
<1>6. [grant EXCEPT ![g] = FreeGrant] \in GrantRows
  BY <1>1, <1>2, <1>5
<1> QED
  BY <1>3, <1>4, <1>6 DEF S

(* and a destination. *)
LEMMA DestinationTyped ==
    ASSUME TypeOK, NEW g \in Grants
    PROVE  /\ \A n \in {"none", "intent", "copying", "ready"} :
                 [out EXCEPT ![g].journal = n] \in Destinations
           /\ \A t \in Jobs \cup {NoJob} :
                 /\ [out EXCEPT ![g].target = t] \in Destinations
                 /\ [out EXCEPT ![g].target = t, ![g].stage = "none"] \in Destinations
<1> DEFINE N == {"none", "intent", "copying", "ready"}
<1> DEFINE S == {"none", "partial", "full"}
<1> DEFINE T == Jobs \cup {NoJob}
<1>1. Destinations = [Grants -> [journal : N, stage : S, target : T]] /\ "none" \in S
  BY DEF Destinations
<1>2. out \in [Grants -> [journal : N, stage : S, target : T]]
  BY DEF TypeOK, Destinations
<1> HIDE DEF N, S, T
<1>3. \A n \in N : [out EXCEPT ![g].journal = n] \in Destinations
  BY <1>1, <1>2
<1>4. \A t \in T : /\ [out EXCEPT ![g].target = t] \in Destinations
                   /\ [out EXCEPT ![g].target = t, ![g].stage = "none"] \in Destinations
  BY <1>1, <1>2
<1> QED
  BY <1>3, <1>4 DEF N, T

(* What progress makes of a phase that can advance *)
LEMMA FollowsTyped ==
    ASSUME NEW p \in Advancing
    PROVE  Follows(p) \in {"worker_started", "output_published", "registry_committing"}
  BY DEF Advancing, Follows

(***************************************************************************)
(* The scheduler prepares an attempt, advances it and runs its worker.     *)
(***************************************************************************)
LEMMA ControlPrepares ==
    ASSUME Control, NEW j \in Jobs, run.job = j, service \in {"up", "stopping"},
           UNCHANGED <<platform, service, starts, rec>>,
           \/ ReserveAttempt(j) \/ CreateStage(j) \/ BindStage(j)
           \/ CreateJournal(j) \/ BindJournal(j) \/ Progress(j)
           \/ AppendJournal(j) \/ AdvanceAttempt(j) \/ Spawn(j)
           \/ RegisterWorker(j) \/ Feed(j) \/ WorkerEnds(j)
    PROVE  Control'
<1> USE CreationAssumption DEF Control, rowVars
<1>1. CASE ReserveAttempt(j)
  <2>1. TypeOK'
    <3>1. attempt' \in AttemptRows
      BY <1>1, AttemptTyped DEF TypeOK, AttemptRows, Phases, PhaseOK, RunOK, Follows,
           Advancing, NoAttempt, Executing, Ending, ReserveAttempt, Goto
    <3> QED
      BY <1>1, <3>1 DEF TypeOK, RunPcs, RecPcs, IdleRun, IdleRec, RunOK, PhaseOK,
           AheadOK, ReserveAttempt, Goto
  <2>2. RunOK' /\ RunningIsHeld'
    BY <1>1 DEF TypeOK, JobRows, RunOK, RunningIsHeld, Executing, Ending, After,
         IdleRun, RunPcs, States, ReserveAttempt, Goto
  <2>3. RecOK'
    BY <1>1 DEF RecOK, ReserveAttempt, Goto
  <2>4. PhaseOK'
    BY <1>1 DEF TypeOK, JobRows, AttemptRows, PhaseOK, ReserveAttempt, Goto
  <2>5. AheadOK'
    BY <1>1 DEF AheadOK, ReserveAttempt, Goto
  <2> QED
    BY <2>1, <2>2, <2>3, <2>4, <2>5 DEF Control
<1>2. CASE CreateStage(j)
  <2>1. TypeOK'
    <3>1. files' \in PrivateFiles
      BY <1>2, FilesTyped DEF TypeOK, PrivateFiles, Journals, PhaseOK, RunOK, Follows,
           Advancing, NoAttempt, Executing, Ending, CreateStage, Goto
    <3> QED
      BY <1>2, <3>1 DEF TypeOK, RunPcs, RecPcs, IdleRun, IdleRec, RunOK, PhaseOK,
           AheadOK, CreateStage, Goto
  <2>2. RunOK' /\ RunningIsHeld'
    BY <1>2 DEF TypeOK, JobRows, RunOK, RunningIsHeld, Executing, Ending, After,
         IdleRun, RunPcs, States, CreateStage, Goto
  <2>3. RecOK'
    BY <1>2 DEF RecOK, CreateStage, Goto
  <2>4. PhaseOK'
    BY <1>2 DEF PhaseOK, CreateStage, Goto
  <2>5. AheadOK'
    BY <1>2 DEF AheadOK, CreateStage, Goto
  <2> QED
    BY <2>1, <2>2, <2>3, <2>4, <2>5 DEF Control
<1>3. CASE BindStage(j)
  <2>1. TypeOK'
    <3>1. attempt' \in AttemptRows
      BY <1>3, AttemptTyped DEF TypeOK, AttemptRows, Phases, PhaseOK, RunOK, Follows,
           Advancing, NoAttempt, Executing, Ending, BindStage, Goto
    <3> QED
      BY <1>3, <3>1 DEF TypeOK, RunPcs, RecPcs, IdleRun, IdleRec, RunOK, PhaseOK,
           AheadOK, BindStage, Goto
  <2>2. RunOK' /\ RunningIsHeld'
    BY <1>3 DEF TypeOK, JobRows, RunOK, RunningIsHeld, Executing, Ending, After,
         IdleRun, RunPcs, States, BindStage, Goto
  <2>3. RecOK'
    BY <1>3 DEF RecOK, BindStage, Goto
  <2>4. PhaseOK'
    BY <1>3 DEF TypeOK, JobRows, AttemptRows, PhaseOK, BindStage, Goto
  <2>5. AheadOK'
    BY <1>3 DEF AheadOK, BindStage, Goto
  <2> QED
    BY <2>1, <2>2, <2>3, <2>4, <2>5 DEF Control
<1>4. CASE CreateJournal(j)
  <2>1. TypeOK'
    <3>1. files' \in PrivateFiles
      BY <1>4, FilesTyped DEF TypeOK, PrivateFiles, Journals, PhaseOK, RunOK, Follows,
           Advancing, NoAttempt, Executing, Ending, CreateJournal, Goto
    <3> QED
      BY <1>4, <3>1 DEF TypeOK, RunPcs, RecPcs, IdleRun, IdleRec, RunOK, PhaseOK,
           AheadOK, CreateJournal, Goto
  <2>2. RunOK' /\ RunningIsHeld'
    BY <1>4 DEF TypeOK, JobRows, RunOK, RunningIsHeld, Executing, Ending, After,
         IdleRun, RunPcs, States, CreateJournal, Goto
  <2>3. RecOK'
    BY <1>4 DEF RecOK, CreateJournal, Goto
  <2>4. PhaseOK'
    BY <1>4 DEF PhaseOK, CreateJournal, Goto
  <2>5. AheadOK'
    BY <1>4 DEF AheadOK, CreateJournal, Goto
  <2> QED
    BY <2>1, <2>2, <2>3, <2>4, <2>5 DEF Control
<1>5. CASE BindJournal(j)
  <2>1. TypeOK'
    <3>1. attempt' \in AttemptRows
      BY <1>5, AttemptTyped DEF TypeOK, AttemptRows, Phases, PhaseOK, RunOK, Follows,
           Advancing, NoAttempt, Executing, Ending, BindJournal, Goto
    <3> QED
      BY <1>5, <3>1 DEF TypeOK, RunPcs, RecPcs, IdleRun, IdleRec, RunOK, PhaseOK,
           AheadOK, BindJournal, Goto
  <2>2. RunOK' /\ RunningIsHeld'
    BY <1>5 DEF TypeOK, JobRows, RunOK, RunningIsHeld, Executing, Ending, After,
         IdleRun, RunPcs, States, BindJournal, Goto
  <2>3. RecOK'
    BY <1>5 DEF RecOK, BindJournal, Goto
  <2>4. PhaseOK'
    BY <1>5 DEF TypeOK, JobRows, AttemptRows, RunOK, PhaseOK, Executing, Ending, After,
         RunPcs, Follows, Advancing, Phases, IdleRun, BindJournal, Goto
  <2>5. AheadOK'
    BY <1>5 DEF AheadOK, BindJournal, Goto
  <2> QED
    BY <2>1, <2>2, <2>3, <2>4, <2>5 DEF Control
<1>6. CASE Progress(j)
  <2>1. TypeOK'
    <3>1. job' \in JobRows
      BY <1>6, FollowsTyped, RowTyped DEF TypeOK, States, Steps, PhaseOK, RunOK,
           Follows, Advancing, NoAttempt, Executing, Ending, Progress, Goto, Bump
    <3> QED
      BY <1>6, FollowsTyped, <3>1 DEF TypeOK, RunPcs, RecPcs, IdleRun, IdleRec, RunOK,
           PhaseOK, AheadOK, Progress, Goto, Bump, Follows
  <2>2. RunOK' /\ RunningIsHeld'
    BY <1>6 DEF TypeOK, JobRows, RunOK, RunningIsHeld, Executing, Ending, After,
         IdleRun, RunPcs, States, Progress, Goto, Bump, Follows
  <2>3. RecOK'
    BY <1>6 DEF RecOK, Progress, Goto, Bump, Follows
  <2>4. PhaseOK'
    BY <1>6 DEF TypeOK, JobRows, AttemptRows, PhaseOK, Follows, Progress, Goto, Bump
  <2>5. AheadOK'
    BY <1>6 DEF TypeOK, PrivateFiles, AheadOK, Bump, Progress, Goto, Follows
  <2> QED
    BY <2>1, <2>2, <2>3, <2>4, <2>5 DEF Control
<1>7. CASE AppendJournal(j)
  <2>1. TypeOK'
    <3>1. files' \in PrivateFiles
      BY <1>7, FilesTyped DEF TypeOK, PrivateFiles, Journals, PhaseOK, RunOK, Follows,
           Advancing, NoAttempt, Executing, Ending, AppendJournal, Goto
    <3> QED
      BY <1>7, <3>1 DEF TypeOK, RunPcs, RecPcs, IdleRun, IdleRec, RunOK, PhaseOK,
           AheadOK, AppendJournal, Goto
  <2>2. RunOK' /\ RunningIsHeld'
    BY <1>7 DEF TypeOK, JobRows, RunOK, RunningIsHeld, Executing, Ending, After,
         IdleRun, RunPcs, States, AppendJournal, Goto
  <2>3. RecOK'
    BY <1>7 DEF RecOK, AppendJournal, Goto
  <2>4. PhaseOK'
    BY <1>7 DEF PhaseOK, AppendJournal, Goto
  <2>5. AheadOK'
    BY <1>7 DEF AheadOK, AppendJournal, Goto
  <2> QED
    BY <2>1, <2>2, <2>3, <2>4, <2>5 DEF Control
<1>8. CASE AdvanceAttempt(j)
  <2>1. TypeOK'
    <3>1. attempt' \in AttemptRows
      BY <1>8, AttemptTyped DEF TypeOK, AttemptRows, Phases, PhaseOK, RunOK, Follows,
           Advancing, NoAttempt, Executing, Ending, AdvanceAttempt, Goto
    <3> QED
      BY <1>8, <3>1 DEF TypeOK, RunPcs, RecPcs, IdleRun, IdleRec, RunOK, PhaseOK,
           AheadOK, AdvanceAttempt, Goto
  <2>2. RunOK' /\ RunningIsHeld'
    BY <1>8 DEF TypeOK, JobRows, RunOK, RunningIsHeld, Executing, Ending, After,
         IdleRun, RunPcs, States, AdvanceAttempt, Goto
  <2>3. RecOK'
    BY <1>8 DEF RecOK, AdvanceAttempt, Goto
  <2>4. PhaseOK'
    BY <1>8 DEF TypeOK, JobRows, AttemptRows, RunOK, PhaseOK, Executing, Ending, After,
         RunPcs, Follows, Advancing, Phases, IdleRun, AdvanceAttempt, Goto
  <2>5. AheadOK'
    BY <1>8 DEF AheadOK, AdvanceAttempt, Goto
  <2> QED
    BY <2>1, <2>2, <2>3, <2>4, <2>5 DEF Control
<1>9. CASE Spawn(j)
  <2>1. TypeOK'
    BY <1>9 DEF TypeOK, RunPcs, RecPcs, IdleRun, IdleRec, RunOK, PhaseOK, AheadOK,
         Spawn, Goto
  <2>2. RunOK' /\ RunningIsHeld'
    BY <1>9 DEF TypeOK, JobRows, RunOK, RunningIsHeld, Executing, Ending, After,
         IdleRun, RunPcs, States, Spawn, Goto
  <2>3. RecOK'
    BY <1>9 DEF RecOK, Spawn, Goto
  <2>4. PhaseOK'
    BY <1>9 DEF PhaseOK, Spawn, Goto
  <2>5. AheadOK'
    BY <1>9 DEF AheadOK, Spawn, Goto
  <2> QED
    BY <2>1, <2>2, <2>3, <2>4, <2>5 DEF Control
<1>10. CASE RegisterWorker(j)
  <2>1. TypeOK'
    <3>1. attempt' \in AttemptRows
      BY <1>10, AttemptTyped DEF TypeOK, AttemptRows, Phases, PhaseOK, RunOK, Follows,
           Advancing, NoAttempt, Executing, Ending, RegisterWorker, Goto
    <3> QED
      BY <1>10, <3>1 DEF TypeOK, RunPcs, RecPcs, IdleRun, IdleRec, RunOK, PhaseOK,
           AheadOK, RegisterWorker, Goto
  <2>2. RunOK' /\ RunningIsHeld'
    BY <1>10 DEF TypeOK, JobRows, RunOK, RunningIsHeld, Executing, Ending, After,
         IdleRun, RunPcs, States, RegisterWorker, Goto
  <2>3. RecOK'
    BY <1>10 DEF RecOK, RegisterWorker, Goto
  <2>4. PhaseOK'
    BY <1>10 DEF PhaseOK, RegisterWorker, Goto
  <2>5. AheadOK'
    BY <1>10 DEF AheadOK, RegisterWorker, Goto
  <2> QED
    BY <2>1, <2>2, <2>3, <2>4, <2>5 DEF Control
<1>11. CASE Feed(j)
  <2>1. TypeOK'
    BY <1>11 DEF TypeOK, RunPcs, RecPcs, IdleRun, IdleRec, RunOK, PhaseOK, AheadOK,
         Feed, Goto
  <2>2. RunOK' /\ RunningIsHeld'
    BY <1>11 DEF TypeOK, JobRows, RunOK, RunningIsHeld, Executing, Ending, After,
         IdleRun, RunPcs, States, Feed, Goto
  <2>3. RecOK'
    BY <1>11 DEF RecOK, Feed, Goto
  <2>4. PhaseOK'
    BY <1>11 DEF PhaseOK, Feed, Goto
  <2>5. AheadOK'
    BY <1>11 DEF AheadOK, Feed, Goto
  <2> QED
    BY <2>1, <2>2, <2>3, <2>4, <2>5 DEF Control
<1>12. CASE WorkerEnds(j)
  <2>1. TypeOK'
    <3>1. attempt' \in AttemptRows
      BY <1>12, AttemptTyped DEF TypeOK, AttemptRows, Phases, PhaseOK, RunOK, Follows,
           Advancing, NoAttempt, Executing, Ending, WorkerEnds, Goto
    <3> QED
      BY <1>12, <3>1 DEF TypeOK, RunPcs, RecPcs, IdleRun, IdleRec, RunOK, PhaseOK,
           AheadOK, WorkerEnds, Goto
  <2>2. RunOK' /\ RunningIsHeld'
    BY <1>12 DEF TypeOK, JobRows, RunOK, RunningIsHeld, Executing, Ending, After,
         IdleRun, RunPcs, States, WorkerEnds, Goto
  <2>3. RecOK'
    BY <1>12 DEF RecOK, WorkerEnds, Goto
  <2>4. PhaseOK'
    BY <1>12 DEF TypeOK, JobRows, AttemptRows, RunOK, PhaseOK, Executing, Ending, After,
         RunPcs, Follows, Advancing, Phases, IdleRun, WorkerEnds, Goto
  <2>5. AheadOK'
    BY <1>12 DEF AheadOK, WorkerEnds, Goto
  <2> QED
    BY <2>1, <2>2, <2>3, <2>4, <2>5 DEF Control
<1> QED
  BY <1>1, <1>2, <1>3, <1>4, <1>5, <1>6, <1>7, <1>8, <1>9, <1>10, <1>11, <1>12

(***************************************************************************)
(* The scheduler begins a publication, commits and retires what it made.   *)
(***************************************************************************)
LEMMA ControlCommits ==
    ASSUME Control, NEW j \in Jobs, run.job = j, service \in {"up", "stopping"},
           UNCHANGED <<platform, service, starts, rec>>,
           \/ Begin(j) \/ MaterializeDone(j) \/ CommitRegistry(j)
           \/ RecordCommitted(j) \/ RecordCleanup(j) \/ RetireStage(j)
           \/ RetireJournal(j) \/ Complete(j) \/ LeaveCleanup(j)
    PROVE  Control'
<1> USE CreationAssumption DEF Control, rowVars
<1>1. CASE Begin(j)
  <2>1. TypeOK'
    <3>1. grant' \in GrantRows
      <4>1. GrantOf[j] \in Grants
        BY <1>1 DEF Begin, PhaseOK, RunOK, Executing, RunPcs
      <4>2. (IF grant[GrantOf[j]].auth = "none" THEN "reserved"
                                              ELSE grant[GrantOf[j]].auth) \in Authorities
        BY <4>1 DEF TypeOK, GrantRows, Authorities
      <4>3. grant' = [grant EXCEPT ![GrantOf[j]].auth =
                        IF grant[GrantOf[j]].auth = "none" THEN "reserved"
                                                          ELSE grant[GrantOf[j]].auth]
        BY <1>1, <4>1 DEF Begin, TypeOK, GrantRows
      <4> QED
        BY <4>1, <4>2, <4>3, GrantTyped
    <3> QED
      BY <1>1, <3>1 DEF TypeOK, RunPcs, RecPcs, IdleRun, IdleRec, RunOK, PhaseOK,
           AheadOK, Begin, Goto
  <2>2. RunOK' /\ RunningIsHeld'
    BY <1>1 DEF TypeOK, JobRows, RunOK, RunningIsHeld, Executing, Ending, After,
         IdleRun, RunPcs, States, Begin, Goto
  <2>3. RecOK'
    BY <1>1 DEF RecOK, Begin, Goto
  <2>4. PhaseOK'
    BY <1>1 DEF PhaseOK, Begin, Goto
  <2>5. AheadOK'
    BY <1>1 DEF AheadOK, Begin, Goto
  <2> QED
    BY <2>1, <2>2, <2>3, <2>4, <2>5 DEF Control
<1>2. CASE MaterializeDone(j)
  <2>1. TypeOK'
    BY <1>2 DEF TypeOK, RunPcs, RecPcs, IdleRun, IdleRec, RunOK, PhaseOK, AheadOK,
         MaterializeDone, Goto
  <2>2. RunOK' /\ RunningIsHeld'
    BY <1>2 DEF TypeOK, JobRows, RunOK, RunningIsHeld, Executing, Ending, After,
         IdleRun, RunPcs, States, MaterializeDone, Goto
  <2>3. RecOK'
    BY <1>2 DEF RecOK, MaterializeDone, Goto
  <2>4. PhaseOK'
    BY <1>2 DEF TypeOK, JobRows, AttemptRows, RunOK, PhaseOK, Executing, Ending, After,
         RunPcs, Follows, Advancing, Phases, IdleRun, MaterializeDone, Goto
  <2>5. AheadOK'
    BY <1>2 DEF AheadOK, MaterializeDone, Goto
  <2> QED
    BY <2>1, <2>2, <2>3, <2>4, <2>5 DEF Control
<1>3. CASE CommitRegistry(j)
  <2>1. TypeOK'
    <3>1. attempt' \in AttemptRows
      BY <1>3, AttemptTyped DEF TypeOK, AttemptRows, Phases, PhaseOK, RunOK, Follows,
           Advancing, NoAttempt, Executing, Ending, CommitRegistry, Goto, Bump
    <3>2. job' \in JobRows
      BY <1>3, RowTyped DEF TypeOK, States, Steps, PhaseOK, RunOK, Follows, Advancing,
           NoAttempt, Executing, Ending, CommitRegistry, Goto, Bump
    <3>3. grant' \in GrantRows
      BY <1>3, GrantTyped DEF TypeOK, Held, Authorities, PhaseOK, RunOK, Follows,
           Advancing, NoAttempt, Executing, Ending, CommitRegistry, Goto, Bump
    <3> QED
      BY <1>3, <3>1, <3>2, <3>3 DEF TypeOK, RunPcs, RecPcs, IdleRun, IdleRec, RunOK,
           PhaseOK, AheadOK, CommitRegistry, Goto, Bump
  <2>2. RunOK' /\ RunningIsHeld'
    BY <1>3 DEF TypeOK, JobRows, RunOK, RunningIsHeld, CommitRegistry, Goto, Bump
  <2>3. RecOK'
    BY <1>3 DEF TypeOK, JobRows, RecOK, CommitRegistry, Goto, Bump
  <2>4. PhaseOK'
    BY <1>3 DEF PhaseOK, CommitRegistry, Goto, Bump
  <2>5. AheadOK'
    BY <1>3 DEF TypeOK, PrivateFiles, AheadOK, Bump, CommitRegistry, Goto
  <2> QED
    BY <2>1, <2>2, <2>3, <2>4, <2>5 DEF Control
<1>4. CASE RecordCommitted(j)
  <2>1. TypeOK'
    <3>1. files' \in PrivateFiles
      BY <1>4, FilesTyped DEF TypeOK, PrivateFiles, Journals, PhaseOK, RunOK, Follows,
           Advancing, NoAttempt, Executing, Ending, RecordCommitted, Goto
    <3> QED
      BY <1>4, <3>1 DEF TypeOK, RunPcs, RecPcs, IdleRun, IdleRec, RunOK, PhaseOK,
           AheadOK, RecordCommitted, Goto
  <2>2. RunOK' /\ RunningIsHeld'
    BY <1>4 DEF TypeOK, JobRows, RunOK, RunningIsHeld, Executing, Ending, After,
         IdleRun, RunPcs, States, RecordCommitted, Goto
  <2>3. RecOK'
    BY <1>4 DEF RecOK, RecordCommitted, Goto
  <2>4. PhaseOK'
    BY <1>4 DEF PhaseOK, RecordCommitted, Goto
  <2>5. AheadOK'
    BY <1>4 DEF AheadOK, RecordCommitted, Goto
  <2> QED
    BY <2>1, <2>2, <2>3, <2>4, <2>5 DEF Control
<1>5. CASE RecordCleanup(j)
  <2>1. TypeOK'
    <3>1. files' \in PrivateFiles
      BY <1>5, FilesTyped DEF TypeOK, PrivateFiles, Journals, PhaseOK, RunOK, Follows,
           Advancing, NoAttempt, Executing, Ending, RecordCleanup, Goto
    <3> QED
      BY <1>5, <3>1 DEF TypeOK, RunPcs, RecPcs, IdleRun, IdleRec, RunOK, PhaseOK,
           AheadOK, RecordCleanup, Goto
  <2>2. RunOK' /\ RunningIsHeld'
    BY <1>5 DEF TypeOK, JobRows, RunOK, RunningIsHeld, Executing, Ending, After,
         IdleRun, RunPcs, States, RecordCleanup, Goto
  <2>3. RecOK'
    BY <1>5 DEF RecOK, RecordCleanup, Goto
  <2>4. PhaseOK'
    BY <1>5 DEF PhaseOK, RecordCleanup, Goto
  <2>5. AheadOK'
    BY <1>5 DEF AheadOK, RecordCleanup, Goto
  <2> QED
    BY <2>1, <2>2, <2>3, <2>4, <2>5 DEF Control
<1>6. CASE RetireStage(j)
  <2>1. TypeOK'
    <3>1. files' \in PrivateFiles
      BY <1>6, FilesTyped DEF TypeOK, PrivateFiles, Journals, PhaseOK, RunOK, Follows,
           Advancing, NoAttempt, Executing, Ending, RetireStage, Goto
    <3> QED
      BY <1>6, <3>1 DEF TypeOK, RunPcs, RecPcs, IdleRun, IdleRec, RunOK, PhaseOK,
           AheadOK, RetireStage, Goto
  <2>2. RunOK' /\ RunningIsHeld'
    BY <1>6 DEF TypeOK, JobRows, RunOK, RunningIsHeld, Executing, Ending, After,
         IdleRun, RunPcs, States, RetireStage, Goto
  <2>3. RecOK'
    BY <1>6 DEF RecOK, RetireStage, Goto
  <2>4. PhaseOK'
    BY <1>6 DEF PhaseOK, RetireStage, Goto
  <2>5. AheadOK'
    BY <1>6 DEF AheadOK, RetireStage, Goto
  <2> QED
    BY <2>1, <2>2, <2>3, <2>4, <2>5 DEF Control
<1>7. CASE RetireJournal(j)
  <2>1. TypeOK'
    <3>1. files' \in PrivateFiles
      BY <1>7, FilesTyped DEF TypeOK, PrivateFiles, Journals, PhaseOK, RunOK, Follows,
           Advancing, NoAttempt, Executing, Ending, RetireJournal, Goto
    <3> QED
      BY <1>7, <3>1 DEF TypeOK, RunPcs, RecPcs, IdleRun, IdleRec, RunOK, PhaseOK,
           AheadOK, RetireJournal, Goto
  <2>2. RunOK' /\ RunningIsHeld'
    BY <1>7 DEF TypeOK, JobRows, RunOK, RunningIsHeld, Executing, Ending, After,
         IdleRun, RunPcs, States, RetireJournal, Goto
  <2>3. RecOK'
    BY <1>7 DEF RecOK, RetireJournal, Goto
  <2>4. PhaseOK'
    BY <1>7 DEF PhaseOK, RetireJournal, Goto
  <2>5. AheadOK'
    BY <1>7 DEF AheadOK, RetireJournal, Goto
  <2> QED
    BY <2>1, <2>2, <2>3, <2>4, <2>5 DEF Control
<1>8. CASE Complete(j)
  <2>1. TypeOK'
    <3>1. attempt' \in AttemptRows
      BY <1>8, AttemptTyped DEF TypeOK, AttemptRows, Phases, PhaseOK, RunOK, Follows,
           Advancing, NoAttempt, Executing, Ending, Complete, CompleteCleanup, IdleRun
    <3>2. job' \in JobRows
      BY <1>8, RowTyped DEF TypeOK, States, Steps, PhaseOK, RunOK, Follows, Advancing,
           NoAttempt, Executing, Ending, Complete, CompleteCleanup, IdleRun
    <3> QED
      BY <1>8, <3>1, <3>2 DEF TypeOK, RunPcs, RecPcs, IdleRun, IdleRec, RunOK, PhaseOK,
           AheadOK, Complete, CompleteCleanup, NoAttempt
  <2>2. RunOK' /\ RunningIsHeld'
    BY <1>8 DEF TypeOK, JobRows, RunOK, RunningIsHeld, Executing, Ending, After,
         IdleRun, RunPcs, States, Complete, CompleteCleanup, NoAttempt
  <2>3. RecOK'
    BY <1>8 DEF RecOK, Complete, CompleteCleanup, IdleRun, NoAttempt
  <2>4. PhaseOK'
    BY <1>8 DEF PhaseOK, IdleRun, Complete, CompleteCleanup, NoAttempt
  <2>5. AheadOK'
    BY <1>8 DEF AheadOK, IdleRun, Complete, CompleteCleanup, NoAttempt
  <2> QED
    BY <2>1, <2>2, <2>3, <2>4, <2>5 DEF Control
<1>9. CASE LeaveCleanup(j)
  <2>1. TypeOK'
    BY <1>9 DEF TypeOK, RunPcs, RecPcs, IdleRun, IdleRec, RunOK, PhaseOK, AheadOK,
         LeaveCleanup
  <2>2. RunOK' /\ RunningIsHeld'
    BY <1>9 DEF TypeOK, JobRows, RunOK, RunningIsHeld, Executing, Ending, After,
         IdleRun, RunPcs, States, LeaveCleanup
  <2>3. RecOK'
    BY <1>9 DEF RecOK, LeaveCleanup, IdleRun
  <2>4. PhaseOK'
    BY <1>9 DEF PhaseOK, IdleRun, LeaveCleanup
  <2>5. AheadOK'
    BY <1>9 DEF AheadOK, IdleRun, LeaveCleanup
  <2> QED
    BY <2>1, <2>2, <2>3, <2>4, <2>5 DEF Control
<1> QED
  BY <1>1, <1>2, <1>3, <1>4, <1>5, <1>6, <1>7, <1>8, <1>9

(***************************************************************************)
(* The scheduler ends a job after an exception.                            *)
(***************************************************************************)
LEMMA ControlFails ==
    ASSUME Control, NEW j \in Jobs, run.job = j, service \in {"up", "stopping"},
           UNCHANGED <<platform, service, starts, rec>>,
           \/ Fail(j) \/ RequireRecovery(j) \/ NothingToClean(j)
           \/ StartCleanup(j) \/ Retain(j) \/ CleanStage(j) \/ CleanJournal(j)
           \/ Release(j) \/ ReleaseRefused(j) \/ ReadRow(j) \/ WriteRow(j)
           \/ ErrorEscapes(j)
    PROVE  Control'
<1> USE CreationAssumption DEF Control, rowVars
<1>1. CASE Fail(j)
  <2>1. TypeOK'
    <3>1. attempt' \in AttemptRows
      BY <1>1, AttemptTyped DEF TypeOK, AttemptRows, Phases, PhaseOK, RunOK, Follows,
           Advancing, NoAttempt, Executing, Ending, Fail, IdleRun
    <3> QED
      BY <1>1, <3>1 DEF TypeOK, RunPcs, RecPcs, IdleRun, IdleRec, RunOK, PhaseOK,
           AheadOK, Fail
  <2>2. RunOK' /\ RunningIsHeld'
    BY <1>1 DEF TypeOK, JobRows, RunOK, RunningIsHeld, Executing, Ending, After,
         IdleRun, RunPcs, States, Fail
  <2>3. RecOK'
    BY <1>1 DEF RecOK, Fail, IdleRun
  <2>4. PhaseOK'
    BY <1>1 DEF PhaseOK, IdleRun, Fail
  <2>5. AheadOK'
    BY <1>1 DEF AheadOK, IdleRun, Fail
  <2> QED
    BY <2>1, <2>2, <2>3, <2>4, <2>5 DEF Control
<1>2. CASE RequireRecovery(j)
  <2>1. TypeOK'
    <3>1. job' \in JobRows
      BY <1>2, RowTyped DEF TypeOK, States, Steps, PhaseOK, RunOK, Follows, Advancing,
           NoAttempt, Executing, Ending, RequireRecovery, Bump, IdleRun, Intended
    <3>2. grant' \in GrantRows
      BY <1>2, GrantTyped DEF TypeOK, Held, Authorities, PhaseOK, RunOK, Follows,
           Advancing, NoAttempt, Executing, Ending, RequireRecovery, Bump, IdleRun,
           Intended
    <3> QED
      BY <1>2, <3>1, <3>2 DEF TypeOK, RunPcs, RecPcs, IdleRun, IdleRec, RunOK, PhaseOK,
           AheadOK, RequireRecovery, Bump, Intended
  <2>2. RunOK' /\ RunningIsHeld'
    BY <1>2 DEF TypeOK, JobRows, RunOK, RunningIsHeld, Executing, Ending, After,
         IdleRun, RunPcs, States, RequireRecovery, Bump, Intended
  <2>3. RecOK'
    BY <1>2 DEF TypeOK, JobRows, RecOK, RunOK, Executing, Ending, After,
         RequireRecovery, Bump, IdleRun, Intended
  <2>4. PhaseOK'
    BY <1>2 DEF PhaseOK, IdleRun, RequireRecovery, Bump, Intended
  <2>5. AheadOK'
    BY <1>2 DEF AheadOK, IdleRun, Bump, RequireRecovery, Intended
  <2> QED
    BY <2>1, <2>2, <2>3, <2>4, <2>5 DEF Control
<1>3. CASE NothingToClean(j)
  <2>1. TypeOK'
    BY <1>3 DEF TypeOK, RunPcs, RecPcs, IdleRun, IdleRec, RunOK, PhaseOK, AheadOK,
         NothingToClean, Last, Verdict
  <2>2. RunOK' /\ RunningIsHeld'
    BY <1>3 DEF TypeOK, JobRows, RunOK, RunningIsHeld, Executing, Ending, After,
         IdleRun, RunPcs, States, NothingToClean, Last, Verdict
  <2>3. RecOK'
    BY <1>3 DEF RecOK, NothingToClean, Last, Verdict
  <2>4. PhaseOK'
    BY <1>3 DEF PhaseOK, NothingToClean, Last, Verdict
  <2>5. AheadOK'
    BY <1>3 DEF AheadOK, NothingToClean, Last, Verdict
  <2> QED
    BY <2>1, <2>2, <2>3, <2>4, <2>5 DEF Control
<1>4. CASE StartCleanup(j)
  <2>1. TypeOK'
    BY <1>4 DEF TypeOK, RunPcs, RecPcs, IdleRun, IdleRec, RunOK, PhaseOK, AheadOK,
         StartCleanup, Verdict
  <2>2. RunOK' /\ RunningIsHeld'
    BY <1>4 DEF TypeOK, JobRows, RunOK, RunningIsHeld, Executing, Ending, After,
         IdleRun, RunPcs, States, StartCleanup, Verdict
  <2>3. RecOK'
    BY <1>4 DEF RecOK, StartCleanup, Verdict
  <2>4. PhaseOK'
    BY <1>4 DEF PhaseOK, StartCleanup, Verdict
  <2>5. AheadOK'
    BY <1>4 DEF AheadOK, StartCleanup, Verdict
  <2> QED
    BY <2>1, <2>2, <2>3, <2>4, <2>5 DEF Control
<1>5. CASE Retain(j)
  <2>1. TypeOK'
    BY <1>5 DEF TypeOK, RunPcs, RecPcs, IdleRun, IdleRec, RunOK, PhaseOK, AheadOK,
         Retain
  <2>2. RunOK' /\ RunningIsHeld'
    BY <1>5 DEF TypeOK, JobRows, RunOK, RunningIsHeld, Executing, Ending, After,
         IdleRun, RunPcs, States, Retain
  <2>3. RecOK'
    BY <1>5 DEF RecOK, Retain
  <2>4. PhaseOK'
    BY <1>5 DEF PhaseOK, Retain
  <2>5. AheadOK'
    BY <1>5 DEF AheadOK, Retain
  <2> QED
    BY <2>1, <2>2, <2>3, <2>4, <2>5 DEF Control
<1>6. CASE CleanStage(j)
  <2>1. TypeOK'
    <3>1. files' \in PrivateFiles
      BY <1>6, FilesTyped DEF TypeOK, PrivateFiles, Journals, PhaseOK, RunOK, Follows,
           Advancing, NoAttempt, Executing, Ending, CleanStage, Goto
    <3> QED
      BY <1>6, <3>1 DEF TypeOK, RunPcs, RecPcs, IdleRun, IdleRec, RunOK, PhaseOK,
           AheadOK, CleanStage, Goto
  <2>2. RunOK' /\ RunningIsHeld'
    BY <1>6 DEF TypeOK, JobRows, RunOK, RunningIsHeld, Executing, Ending, After,
         IdleRun, RunPcs, States, CleanStage, Goto
  <2>3. RecOK'
    BY <1>6 DEF RecOK, CleanStage, Goto
  <2>4. PhaseOK'
    BY <1>6 DEF PhaseOK, CleanStage, Goto
  <2>5. AheadOK'
    BY <1>6 DEF AheadOK, CleanStage, Goto
  <2> QED
    BY <2>1, <2>2, <2>3, <2>4, <2>5 DEF Control
<1>7. CASE CleanJournal(j)
  <2>1. TypeOK'
    <3>1. files' \in PrivateFiles
      BY <1>7, FilesTyped DEF TypeOK, PrivateFiles, Journals, PhaseOK, RunOK, Follows,
           Advancing, NoAttempt, Executing, Ending, CleanJournal, Goto, Last
    <3> QED
      BY <1>7, <3>1 DEF TypeOK, RunPcs, RecPcs, IdleRun, IdleRec, RunOK, PhaseOK,
           AheadOK, CleanJournal, Goto, Last
  <2>2. RunOK' /\ RunningIsHeld'
    BY <1>7 DEF TypeOK, JobRows, RunOK, RunningIsHeld, Executing, Ending, After,
         IdleRun, RunPcs, States, CleanJournal, Goto, Last
  <2>3. RecOK'
    BY <1>7 DEF RecOK, CleanJournal, Goto, Last
  <2>4. PhaseOK'
    BY <1>7 DEF PhaseOK, CleanJournal, Goto, Last
  <2>5. AheadOK'
    BY <1>7 DEF AheadOK, CleanJournal, Goto, Last
  <2> QED
    BY <2>1, <2>2, <2>3, <2>4, <2>5 DEF Control
<1>8. CASE Release(j)
  <2>1. TypeOK'
    <3>1. grant' \in GrantRows
      BY <1>8, GrantTyped DEF TypeOK, Held, Authorities, PhaseOK, RunOK, Follows,
           Advancing, NoAttempt, Executing, Ending, Release, Goto, Free
    <3> QED
      BY <1>8, <3>1 DEF TypeOK, RunPcs, RecPcs, IdleRun, IdleRec, RunOK, PhaseOK,
           AheadOK, Release, Goto, Free
  <2>2. RunOK' /\ RunningIsHeld'
    BY <1>8 DEF TypeOK, JobRows, RunOK, RunningIsHeld, Executing, Ending, After,
         IdleRun, RunPcs, States, Release, Goto, Free
  <2>3. RecOK'
    BY <1>8 DEF RecOK, Release, Goto, Free
  <2>4. PhaseOK'
    BY <1>8 DEF PhaseOK, Release, Goto, Free
  <2>5. AheadOK'
    BY <1>8 DEF AheadOK, Release, Goto, Free
  <2> QED
    BY <2>1, <2>2, <2>3, <2>4, <2>5 DEF Control
<1>9. CASE ReleaseRefused(j)
  <2>1. TypeOK'
    BY <1>9 DEF TypeOK, RunPcs, RecPcs, IdleRun, IdleRec, RunOK, PhaseOK, AheadOK,
         ReleaseRefused
  <2>2. RunOK' /\ RunningIsHeld'
    BY <1>9 DEF TypeOK, JobRows, RunOK, RunningIsHeld, Executing, Ending, After,
         IdleRun, RunPcs, States, ReleaseRefused
  <2>3. RecOK'
    BY <1>9 DEF RecOK, ReleaseRefused
  <2>4. PhaseOK'
    BY <1>9 DEF PhaseOK, ReleaseRefused
  <2>5. AheadOK'
    BY <1>9 DEF AheadOK, ReleaseRefused
  <2> QED
    BY <2>1, <2>2, <2>3, <2>4, <2>5 DEF Control
<1>10. CASE ReadRow(j)
  <2>1. TypeOK'
    BY <1>10 DEF TypeOK, RunPcs, RecPcs, IdleRun, IdleRec, RunOK, PhaseOK, AheadOK,
         ReadRow
  <2>2. RunOK' /\ RunningIsHeld'
    BY <1>10 DEF TypeOK, JobRows, RunOK, RunningIsHeld, Executing, Ending, After,
         IdleRun, RunPcs, States, ReadRow
  <2>3. RecOK'
    BY <1>10 DEF RecOK, ReadRow
  <2>4. PhaseOK'
    BY <1>10 DEF PhaseOK, ReadRow
  <2>5. AheadOK'
    BY <1>10 DEF AheadOK, ReadRow
  <2> QED
    BY <2>1, <2>2, <2>3, <2>4, <2>5 DEF Control
<1>11. CASE WriteRow(j)
  <2>1. TypeOK'
    <3>1. attempt' \in AttemptRows
      BY <1>11, AttemptTyped DEF TypeOK, AttemptRows, Phases, PhaseOK, RunOK, Follows,
           Advancing, NoAttempt, Executing, Ending, WriteRow, Bump, Behind, IdleRun
    <3>2. job' \in JobRows
      BY <1>11, RowTyped DEF TypeOK, States, Steps, PhaseOK, RunOK, Follows, Advancing,
           NoAttempt, Executing, Ending, WriteRow, Bump, Behind, IdleRun
    <3> QED
      BY <1>11, <3>1, <3>2 DEF TypeOK, RunPcs, RecPcs, IdleRun, IdleRec, RunOK, PhaseOK,
           AheadOK, WriteRow, Bump, Behind, NoAttempt
  <2>2. RunOK' /\ RunningIsHeld'
    BY <1>11 DEF TypeOK, JobRows, RunOK, RunningIsHeld, Executing, Ending, After,
         IdleRun, RunPcs, States, WriteRow, Bump, Behind, NoAttempt
  <2>3. RecOK'
    BY <1>11 DEF TypeOK, JobRows, RecOK, RunOK, Executing, Ending, After, WriteRow,
         Bump, Behind, NoAttempt, IdleRun
  <2>4. PhaseOK'
    BY <1>11 DEF PhaseOK, IdleRun, WriteRow, Bump, Behind, NoAttempt
  <2>5. AheadOK'
    BY <1>11 DEF AheadOK, IdleRun, Bump, WriteRow, Behind, NoAttempt
  <2> QED
    BY <2>1, <2>2, <2>3, <2>4, <2>5 DEF Control
<1>12. CASE ErrorEscapes(j)
  <2>1. TypeOK'
    <3>1. /\ UNCHANGED <<job, ahead, accepted, attempt, grant, files, worker, out>>
          /\ run' = [IdleRun EXCEPT !.pc = "dead"]
      BY <1>12 DEF ErrorEscapes
    <3> QED
      BY <3>1 DEF TypeOK, IdleRun, RunPcs
  <2>2. RunOK' /\ RunningIsHeld'
    BY <1>12 DEF TypeOK, JobRows, RunOK, RunningIsHeld, Executing, Ending, After,
         IdleRun, RunPcs, States, ErrorEscapes
  <2>3. RecOK'
    BY <1>12 DEF RecOK, ErrorEscapes, IdleRun
  <2>4. PhaseOK'
    BY <1>12 DEF PhaseOK, IdleRun, ErrorEscapes
  <2>5. AheadOK'
    BY <1>12 DEF AheadOK, IdleRun, ErrorEscapes
  <2> QED
    BY <2>1, <2>2, <2>3, <2>4, <2>5 DEF Control
<1> QED
  BY <1>1, <1>2, <1>3, <1>4, <1>5, <1>6, <1>7, <1>8, <1>9, <1>10, <1>11, <1>12

-----------------------------------------------------------------------------
(* A step of a publication touches one destination, and of its grant only   *)
(* the authority.                                                           *)

Local(g) ==
    /\ grant' \in GrantRows /\ out' \in Destinations
    /\ \A h \in Grants \ {g} : grant'[h] = grant[h] /\ out'[h] = out[h]
    /\ grant'[g].state = grant[g].state /\ grant'[g].by = grant[g].by

(* An update of the authority is local. *)
LEMMA NoteIsLocal ==
    ASSUME TypeOK, NEW g \in Grants, NEW from, NEW to \in Authorities, Note(g, from, to)
    PROVE  Local(g)
<1>1. grant' = [grant EXCEPT ![g].auth = to] /\ out' = out
  BY DEF Note
<1>2. grant' \in GrantRows
  BY <1>1, GrantTyped
<1> QED
  BY <1>1, <1>2 DEF Local, TypeOK, GrantRows

(* A record in the publication journal is local. *)
LEMMA WriteIsLocal ==
    ASSUME TypeOK, NEW g \in Grants, NEW from,
           NEW to \in {"none", "intent", "copying", "ready"}, Write(g, from, to)
    PROVE  Local(g)
<1>1. out' = [out EXCEPT ![g].journal = to] /\ grant' = grant
  BY DEF Write
<1>2. out' \in Destinations
  BY <1>1 DEF TypeOK, Destinations
<1> QED
  BY <1>1, <1>2 DEF Local, TypeOK, Destinations

(* So is whatever happens to the stage and the directory. *)
LEMMA MoveIsLocal ==
    ASSUME TypeOK, NEW g \in Grants,
           AllocateStage(g) \/ FillStage(g) \/ PublishTarget(g) \/ RemoveStage(g)
    PROVE  Local(g)
<1>1. CASE AllocateStage(g)
  BY <1>1 DEF AllocateStage, Local, TypeOK, Destinations
<1>2. CASE FillStage(g)
  BY <1>2 DEF FillStage, Local, TypeOK, Destinations
<1>3. CASE RemoveStage(g)
  BY <1>3 DEF RemoveStage, Local, TypeOK, Destinations
<1>4. CASE PublishTarget(g)
  <2>1. grant[g].by \in Jobs \cup {NoJob}
    BY DEF TypeOK, GrantRows
  <2>2. out' = [out EXCEPT ![g].target = grant[g].by, ![g].stage = "none"] /\ grant' = grant
    BY <1>4 DEF PublishTarget
  <2>3. out' \in Destinations
    BY <2>1, <2>2, DestinationTyped
  <2> QED
    BY <2>2, <2>3 DEF Local, TypeOK, Destinations
<1> QED
  BY <1>1, <1>2, <1>3, <1>4

(* Every step of a publication, its completion or its withdrawal is local. *)
LEMMA StepIsLocal ==
    ASSUME TypeOK, NEW g \in Grants, PublishStep(g) \/ SettleStep(g) \/ UnwindStep(g)
    PROVE  Local(g)
<1>1. \/ AllocateStage(g) \/ FillStage(g) \/ PublishTarget(g) \/ RemoveStage(g)
      \/ \E from : \/ \E to \in Authorities : Note(g, from, to)
                   \/ \E to \in {"none", "intent", "copying", "ready"} : Write(g, from, to)
  <2> USE DEF Authorities
  <2>1. CASE PublishStep(g)
    BY <2>1, Zenon DEF PublishStep, WriteIntent, NoteStarted, NoteAllocated, WriteCopying,
         NoteStaged, WriteReady, NoteVerified, RemoveJournal
  <2>2. CASE SettleStep(g)
    BY <2>2, Zenon DEF SettleStep, WriteCopying, NoteStaged, WriteReady, NoteVerified,
         RemoveJournal, NoteResetting, DropIntent, NoteReset
  <2>3. CASE UnwindStep(g)
    BY <2>3, Zenon DEF UnwindStep, NoteResetting, DropIntent, NoteReset, NoteUnwinding,
         DropJournal, NoteVerified, RemoveJournal
  <2> QED
    BY <2>1, <2>2, <2>3
<1> QED
  BY <1>1, NoteIsLocal, WriteIsLocal, MoveIsLocal

(***************************************************************************)
(* The requests of the service thread, and claim_next.                     *)
(***************************************************************************)
LEMMA ControlRequests ==
    ASSUME Control, NEW j \in Jobs,
           \/ Create(j) \/ CancelQueued(j) \/ CancelRunning(j) \/ Claim(j)
    PROVE  Control'
<1> USE CreationAssumption DEF Control, rowVars
<1>1. CASE Create(j)
  <2>1. TypeOK'
    <3>1. job' \in JobRows
      <4>1. IsFiniteSet({k \in Jobs : job[k].state # "absent"})
        BY FS_Subset
      <4>2. 1 + Cardinality({k \in Jobs : job[k].state # "absent"}) \in Nat
        BY <4>1, FS_CardinalityType
      <4> QED
        BY <1>1, <4>2, RowTyped DEF Create, States
    <3>2. grant' \in GrantRows
      BY <1>1, GrantTyped DEF TypeOK, Held, Authorities, PhaseOK, RunOK, Follows,
           Advancing, NoAttempt, Executing, Ending, Create, Serving
    <3> QED
      BY <1>1, <3>1, <3>2 DEF TypeOK, RunPcs, RecPcs, IdleRun, IdleRec, RunOK, PhaseOK,
           AheadOK, Create, Serving
  <2>2. RunOK' /\ RunningIsHeld'
    BY <1>1 DEF TypeOK, JobRows, RunOK, RunningIsHeld, Executing, Ending, After,
         IdleRun, RunPcs, States, Create, Serving
  <2>3. RecOK'
    BY <1>1 DEF RecOK, Create, Serving
  <2>4. PhaseOK'
    BY <1>1 DEF TypeOK, JobRows, AttemptRows, RunOK, PhaseOK, Executing, Ending, After,
         RunPcs, Follows, Advancing, Phases, IdleRun, Create, Serving
  <2>5. AheadOK'
    BY <1>1 DEF AheadOK, Create, Serving
  <2> QED
    BY <2>1, <2>2, <2>3, <2>4, <2>5 DEF Control
<1>2. CASE CancelQueued(j)
  <2>1. TypeOK'
    <3>1. job' \in JobRows
      BY <1>2, RowTyped DEF TypeOK, States, Steps, PhaseOK, RunOK, Follows, Advancing,
           NoAttempt, Executing, Ending, CancelQueued, Serving, Releasable, Free
    <3>2. grant' \in GrantRows
      BY <1>2, GrantTyped DEF TypeOK, Held, Authorities, PhaseOK, RunOK, Follows,
           Advancing, NoAttempt, Executing, Ending, CancelQueued, Serving, Releasable,
           Free
    <3> QED
      BY <1>2, <3>1, <3>2 DEF TypeOK, RunPcs, RecPcs, IdleRun, IdleRec, RunOK, PhaseOK,
           AheadOK, CancelQueued, Serving, Releasable, Free
  <2>2. RunOK' /\ RunningIsHeld'
    BY <1>2 DEF TypeOK, JobRows, RunOK, RunningIsHeld, Executing, Ending, After,
         IdleRun, RunPcs, States, CancelQueued, Serving, Releasable, Free
  <2>3. RecOK'
    BY <1>2 DEF RecOK, CancelQueued, Serving, Releasable, Free
  <2>4. PhaseOK'
    BY <1>2 DEF TypeOK, JobRows, AttemptRows, RunOK, PhaseOK, Executing, Ending, After,
         RunPcs, Follows, Advancing, Phases, IdleRun, CancelQueued, Serving, Releasable,
         Free
  <2>5. AheadOK'
    BY <1>2 DEF AheadOK, CancelQueued, Serving, Releasable, Free
  <2> QED
    BY <2>1, <2>2, <2>3, <2>4, <2>5 DEF Control
<1>3. CASE CancelRunning(j)
  <2>1. TypeOK'
    <3>1. job' \in JobRows
      BY <1>3, RowTyped DEF CancelRunning
    <3>2. ahead' \in [Jobs -> 0..4] /\ accepted' \subseteq Jobs
      BY <1>3 DEF TypeOK, CancelRunning, Bump
    <3>3. run' = run \/ (run.pc = "write" /\ run' = [run EXCEPT !.raced = TRUE])
      BY <1>3 DEF CancelRunning
    <3>4. run' \in [pc : RunPcs, job : Jobs \cup {NoJob}, raced : BOOLEAN, drop : BOOLEAN,
                    end : {"none", "failed", "canceled", "orphaned"}]
      BY <3>3 DEF TypeOK
    <3> QED
      BY <1>3, <3>1, <3>2, <3>4 DEF TypeOK, CancelRunning
  <2>2. RunOK' /\ RunningIsHeld'
    BY <1>3 DEF RunOK, RunningIsHeld, CancelRunning, Serving, Bump
  <2>3. RecOK'
    BY <1>3 DEF RecOK, CancelRunning, Serving, Bump
  <2>4. PhaseOK'
    BY <1>3 DEF PhaseOK, CancelRunning, Serving, Bump
  <2>5. AheadOK'
    BY <1>3 DEF TypeOK, PrivateFiles, AheadOK, Bump, CancelRunning, Serving
  <2> QED
    BY <2>1, <2>2, <2>3, <2>4, <2>5 DEF Control
<1>4. CASE Claim(j)
  <2>1. TypeOK'
    <3>1. job' \in JobRows
      BY <1>4, RowTyped DEF Claim, States, Steps
    <3>2. ahead' \in [Jobs -> 0..4] /\ accepted' \subseteq Jobs
      BY <1>4 DEF TypeOK, Claim
    <3>3. run' \in [pc : RunPcs, job : Jobs \cup {NoJob}, raced : BOOLEAN, drop : BOOLEAN,
                    end : {"none", "failed", "canceled", "orphaned"}]
      BY <1>4 DEF Claim, IdleRun, RunPcs
    <3> QED
      BY <1>4, <3>1, <3>2, <3>3 DEF TypeOK, Claim
  <2>2. RunOK' /\ RunningIsHeld'
    BY <1>4 DEF TypeOK, JobRows, RunOK, RunningIsHeld, Executing, Ending, After,
         IdleRun, RunPcs, States, Claim
  <2>3. RecOK'
    BY <1>4 DEF TypeOK, JobRows, RecOK, Claim, IdleRun
  <2>4. PhaseOK'
    BY <1>4 DEF PhaseOK, IdleRun, Claim
  <2>5. AheadOK'
    BY <1>4 DEF AheadOK, IdleRun, Claim
  <2> QED
    BY <2>1, <2>2, <2>3, <2>4, <2>5 DEF Control
<1> QED
  BY <1>1, <1>2, <1>3, <1>4

(* A recovery and the scheduler meet only on a job that succeeded. *)
LEMMA Apart ==
    ASSUME Control, rec.pc # "idle", run.job = rec.job
    PROVE  run.pc \in After /\ rec.mode = "cleanup"
<1>1. rec.job \in Jobs /\ run.pc \notin {"idle", "dead"}
  BY CreationAssumption DEF Control, RecOK, RunOK
<1>2. job[rec.job].state # "running"
  BY DEF Control, RecOK
<1>3. run.pc \in After
  BY <1>1, <1>2 DEF Control, TypeOK, RunOK, RunPcs, Executing, Ending, After
<1> QED
  BY <1>1, <1>3 DEF Control, RecOK, RunOK

(***************************************************************************)
(* The recovery of a job, after its publication is decided.                *)
(***************************************************************************)
LEMMA ControlRecovers ==
    ASSUME Control, NEW j \in Jobs, rec.job = j, rec.pc # "idle", service = "up",
           UNCHANGED <<platform, service, starts>>,
           \/ Settled(j) \/ Unwound(j) \/ RemoveTarget(j) \/ RecCleanStage(j)
           \/ RecCleanJournal(j) \/ Requeue(j) \/ RollBack(j)
           \/ CleanupRecord(j) \/ CleanupStage(j) \/ CleanupJournal(j)
           \/ CleanupComplete(j) \/ Refuse(j)
    PROVE  Control'
<1> USE CreationAssumption DEF Control, rowVars
<1>a. run.job = j => run.pc \in After /\ rec.mode = "cleanup"
  BY Apart
<1>1. CASE Settled(j)
  <2>1. TypeOK'
    BY <1>1, <1>a DEF TypeOK, RunPcs, RecPcs, IdleRun, IdleRec, RunOK, PhaseOK, AheadOK,
         RecOK, Settled, RecGoto, Onward
  <2>2. RunOK' /\ RunningIsHeld'
    BY <1>1, <1>a DEF RunOK, RunningIsHeld, Settled, RecGoto, Onward
  <2>3. RecOK'
    BY <1>1, <1>a DEF RecOK, Settled, RecGoto, Onward
  <2>4. PhaseOK'
    BY <1>1, <1>a DEF PhaseOK, Settled, RecGoto, Onward
  <2>5. AheadOK'
    BY <1>1, <1>a DEF AheadOK, Settled, RecGoto, Onward
  <2> QED
    BY <2>1, <2>2, <2>3, <2>4, <2>5 DEF Control
<1>2. CASE Unwound(j)
  <2>1. TypeOK'
    BY <1>2, <1>a DEF TypeOK, RunPcs, RecPcs, IdleRun, IdleRec, RunOK, PhaseOK, AheadOK,
         RecOK, Unwound, RecGoto, Onward
  <2>2. RunOK' /\ RunningIsHeld'
    BY <1>2, <1>a DEF RunOK, RunningIsHeld, Unwound, RecGoto, Onward
  <2>3. RecOK'
    BY <1>2, <1>a DEF RecOK, Unwound, RecGoto, Onward
  <2>4. PhaseOK'
    BY <1>2, <1>a DEF PhaseOK, Unwound, RecGoto, Onward
  <2>5. AheadOK'
    BY <1>2, <1>a DEF AheadOK, Unwound, RecGoto, Onward
  <2> QED
    BY <2>1, <2>2, <2>3, <2>4, <2>5 DEF Control
<1>3. CASE RemoveTarget(j)
  <2>1. TypeOK'
    <3>1. out' \in Destinations
      <4>1. GrantOf[j] \in Grants
        BY <1>3 DEF RemoveTarget, RecOK
      <4> QED
        BY <1>3, <4>1, DestinationTyped DEF RemoveTarget
    <3> QED
      BY <1>3, <1>a, <3>1 DEF TypeOK, RunPcs, RecPcs, IdleRun, IdleRec, RunOK, PhaseOK,
           AheadOK, RecOK, RemoveTarget, RecGoto, Onward
  <2>2. RunOK' /\ RunningIsHeld'
    BY <1>3, <1>a DEF RunOK, RunningIsHeld, RemoveTarget, RecGoto, Onward
  <2>3. RecOK'
    BY <1>3, <1>a DEF RecOK, RemoveTarget, RecGoto, Onward
  <2>4. PhaseOK'
    BY <1>3, <1>a DEF PhaseOK, RemoveTarget, RecGoto, Onward
  <2>5. AheadOK'
    BY <1>3, <1>a DEF AheadOK, RemoveTarget, RecGoto, Onward
  <2> QED
    BY <2>1, <2>2, <2>3, <2>4, <2>5 DEF Control
<1>4. CASE RecCleanStage(j)
  <2>1. TypeOK'
    <3>1. files' \in PrivateFiles
      BY <1>4, <1>a, FilesTyped DEF TypeOK, PrivateFiles, Journals, PhaseOK, RunOK,
           Follows, Advancing, NoAttempt, Executing, Ending, RecCleanStage, RecGoto,
           Onward
    <3> QED
      BY <1>4, <1>a, <3>1 DEF TypeOK, RunPcs, RecPcs, IdleRun, IdleRec, RunOK, PhaseOK,
           AheadOK, RecOK, RecCleanStage, RecGoto, Onward
  <2>2. RunOK' /\ RunningIsHeld'
    BY <1>4, <1>a DEF RunOK, RunningIsHeld, RecCleanStage, RecGoto, Onward
  <2>3. RecOK'
    BY <1>4, <1>a DEF RecOK, RecCleanStage, RecGoto, Onward
  <2>4. PhaseOK'
    BY <1>4, <1>a DEF PhaseOK, RecCleanStage, RecGoto, Onward
  <2>5. AheadOK'
    BY <1>4, <1>a DEF AheadOK, RecCleanStage, RecGoto, Onward
  <2> QED
    BY <2>1, <2>2, <2>3, <2>4, <2>5 DEF Control
<1>5. CASE RecCleanJournal(j)
  <2>1. TypeOK'
    <3>1. files' \in PrivateFiles
      BY <1>5, <1>a, FilesTyped DEF TypeOK, PrivateFiles, Journals, PhaseOK, RunOK,
           Follows, Advancing, NoAttempt, Executing, Ending, RecCleanJournal, RecGoto,
           Onward
    <3> QED
      BY <1>5, <1>a, <3>1 DEF TypeOK, RunPcs, RecPcs, IdleRun, IdleRec, RunOK, PhaseOK,
           AheadOK, RecOK, RecCleanJournal, RecGoto, Onward
  <2>2. RunOK' /\ RunningIsHeld'
    BY <1>5, <1>a DEF RunOK, RunningIsHeld, RecCleanJournal, RecGoto, Onward
  <2>3. RecOK'
    BY <1>5, <1>a DEF RecOK, RecCleanJournal, RecGoto, Onward
  <2>4. PhaseOK'
    BY <1>5, <1>a DEF PhaseOK, RecCleanJournal, RecGoto, Onward
  <2>5. AheadOK'
    BY <1>5, <1>a DEF TypeOK, PrivateFiles, RunOK, PhaseOK, AheadOK, Executing, Ending,
         After, RunPcs, IdleRun, Bump, RecCleanJournal, RecGoto, Onward
  <2> QED
    BY <2>1, <2>2, <2>3, <2>4, <2>5 DEF Control
<1>6. CASE Requeue(j)
  <2>1. TypeOK'
    <3>1. attempt' \in AttemptRows
      BY <1>6, <1>a, AttemptTyped DEF TypeOK, AttemptRows, Phases, PhaseOK, RunOK,
           Follows, Advancing, NoAttempt, Executing, Ending, Requeue, IdleRec
    <3>2. job' \in JobRows
      BY <1>6, <1>a, RowTyped DEF TypeOK, States, Steps, PhaseOK, RunOK, Follows,
           Advancing, NoAttempt, Executing, Ending, Requeue, IdleRec
    <3>3. grant' \in GrantRows
      BY <1>6, <1>a, GrantTyped DEF TypeOK, Held, Authorities, PhaseOK, RunOK, Follows,
           Advancing, NoAttempt, Executing, Ending, Requeue, IdleRec
    <3> QED
      BY <1>6, <1>a, <3>1, <3>2, <3>3 DEF TypeOK, RunPcs, RecPcs, IdleRun, IdleRec,
           RunOK, PhaseOK, AheadOK, RecOK, Requeue, NoAttempt
  <2>2. RunOK' /\ RunningIsHeld'
    BY <1>6, <1>a DEF TypeOK, JobRows, RunOK, RunningIsHeld, Executing, Ending, After,
         IdleRun, RunPcs, States, Requeue, IdleRec, NoAttempt
  <2>3. RecOK'
    BY <1>6, <1>a DEF RecOK, Requeue, IdleRec, NoAttempt
  <2>4. PhaseOK'
    BY <1>6, <1>a DEF TypeOK, JobRows, AttemptRows, RunOK, PhaseOK, Executing, Ending,
         After, RunPcs, Follows, Advancing, Phases, IdleRun, Requeue, IdleRec, NoAttempt
  <2>5. AheadOK'
    BY <1>6, <1>a DEF AheadOK, Requeue, IdleRec, NoAttempt
  <2> QED
    BY <2>1, <2>2, <2>3, <2>4, <2>5 DEF Control
<1>7. CASE RollBack(j)
  <2>1. TypeOK'
    <3>1. attempt' \in AttemptRows
      BY <1>7, <1>a, AttemptTyped DEF TypeOK, AttemptRows, Phases, PhaseOK, RunOK,
           Follows, Advancing, NoAttempt, Executing, Ending, RollBack, IdleRec, Free
    <3>2. job' \in JobRows
      BY <1>7, <1>a, RowTyped DEF TypeOK, States, Steps, PhaseOK, RunOK, Follows,
           Advancing, NoAttempt, Executing, Ending, RollBack, IdleRec, Free
    <3>3. grant' \in GrantRows
      BY <1>7, <1>a, GrantTyped DEF TypeOK, Held, Authorities, PhaseOK, RunOK, Follows,
           Advancing, NoAttempt, Executing, Ending, RollBack, IdleRec, Free
    <3> QED
      BY <1>7, <1>a, <3>1, <3>2, <3>3 DEF TypeOK, RunPcs, RecPcs, IdleRun, IdleRec,
           RunOK, PhaseOK, AheadOK, RecOK, RollBack, NoAttempt, Free
  <2>2. RunOK' /\ RunningIsHeld'
    BY <1>7, <1>a DEF TypeOK, JobRows, RunOK, RunningIsHeld, Executing, Ending, After,
         IdleRun, RunPcs, States, RollBack, IdleRec, NoAttempt, Free
  <2>3. RecOK'
    BY <1>7, <1>a DEF RecOK, RollBack, IdleRec, NoAttempt, Free
  <2>4. PhaseOK'
    BY <1>7, <1>a DEF TypeOK, JobRows, AttemptRows, RunOK, PhaseOK, Executing, Ending,
         After, RunPcs, Follows, Advancing, Phases, IdleRun, RollBack, IdleRec,
         NoAttempt, Free
  <2>5. AheadOK'
    BY <1>7, <1>a DEF AheadOK, RollBack, IdleRec, NoAttempt, Free
  <2> QED
    BY <2>1, <2>2, <2>3, <2>4, <2>5 DEF Control
<1>8. CASE CleanupRecord(j)
  <2>1. TypeOK'
    <3>1. files' \in PrivateFiles
      <4>1. \A n \in Journals : [files EXCEPT ![j].journal = n] \in PrivateFiles
        BY FilesTyped DEF TypeOK, PrivateFiles
      <4> QED
        BY <1>8, <4>1 DEF CleanupRecord, Journals
    <3> QED
      BY <1>8, <1>a, <3>1 DEF TypeOK, RunPcs, RecPcs, IdleRun, IdleRec, RunOK, PhaseOK,
           AheadOK, RecOK, CleanupRecord
  <2>2. RunOK' /\ RunningIsHeld'
    BY <1>8, <1>a DEF RunOK, RunningIsHeld, CleanupRecord
  <2>3. RecOK'
    BY <1>8, <1>a DEF RecOK, CleanupRecord
  <2>4. PhaseOK'
    BY <1>8, <1>a DEF PhaseOK, CleanupRecord
  <2>5. AheadOK'
    BY <1>8, <1>a DEF TypeOK, PrivateFiles, RunOK, PhaseOK, AheadOK, Executing, Ending,
         After, RunPcs, IdleRun, Bump, CleanupRecord
  <2> QED
    BY <2>1, <2>2, <2>3, <2>4, <2>5 DEF Control
<1>9. CASE CleanupStage(j)
  <2>1. TypeOK'
    <3>1. files' \in PrivateFiles
      BY <1>9, <1>a, FilesTyped DEF TypeOK, PrivateFiles, Journals, PhaseOK, RunOK,
           Follows, Advancing, NoAttempt, Executing, Ending, CleanupStage
    <3> QED
      BY <1>9, <1>a, <3>1 DEF TypeOK, RunPcs, RecPcs, IdleRun, IdleRec, RunOK, PhaseOK,
           AheadOK, RecOK, CleanupStage
  <2>2. RunOK' /\ RunningIsHeld'
    BY <1>9, <1>a DEF RunOK, RunningIsHeld, CleanupStage
  <2>3. RecOK'
    BY <1>9, <1>a DEF RecOK, CleanupStage
  <2>4. PhaseOK'
    BY <1>9, <1>a DEF PhaseOK, CleanupStage
  <2>5. AheadOK'
    BY <1>9, <1>a DEF AheadOK, CleanupStage
  <2> QED
    BY <2>1, <2>2, <2>3, <2>4, <2>5 DEF Control
<1>10. CASE CleanupJournal(j)
  <2>1. TypeOK'
    <3>1. files' \in PrivateFiles
      BY <1>10, <1>a, FilesTyped DEF TypeOK, PrivateFiles, Journals, PhaseOK, RunOK,
           Follows, Advancing, NoAttempt, Executing, Ending, CleanupJournal
    <3> QED
      BY <1>10, <1>a, <3>1 DEF TypeOK, RunPcs, RecPcs, IdleRun, IdleRec, RunOK, PhaseOK,
           AheadOK, RecOK, CleanupJournal
  <2>2. RunOK' /\ RunningIsHeld'
    BY <1>10, <1>a DEF RunOK, RunningIsHeld, CleanupJournal
  <2>3. RecOK'
    BY <1>10, <1>a DEF RecOK, CleanupJournal
  <2>4. PhaseOK'
    BY <1>10, <1>a DEF PhaseOK, CleanupJournal
  <2>5. AheadOK'
    BY <1>10, <1>a DEF AheadOK, CleanupJournal
  <2> QED
    BY <2>1, <2>2, <2>3, <2>4, <2>5 DEF Control
<1>11. CASE CleanupComplete(j)
  <2>1. TypeOK'
    <3>1. attempt' \in AttemptRows
      BY <1>11, <1>a, AttemptTyped DEF TypeOK, AttemptRows, Phases, PhaseOK, RunOK,
           Follows, Advancing, NoAttempt, Executing, Ending, CleanupComplete, IdleRec,
           CompleteCleanup
    <3>2. job' \in JobRows
      BY <1>11, <1>a, RowTyped DEF TypeOK, States, Steps, PhaseOK, RunOK, Follows,
           Advancing, NoAttempt, Executing, Ending, CleanupComplete, IdleRec,
           CompleteCleanup
    <3> QED
      BY <1>11, <1>a, <3>1, <3>2 DEF TypeOK, RunPcs, RecPcs, IdleRun, IdleRec, RunOK,
           PhaseOK, AheadOK, RecOK, CleanupComplete, NoAttempt, CompleteCleanup
  <2>2. RunOK' /\ RunningIsHeld'
    BY <1>11, <1>a DEF RunOK, RunningIsHeld, CleanupComplete, IdleRec, NoAttempt,
         CompleteCleanup
  <2>3. RecOK'
    BY <1>11, <1>a DEF RecOK, CleanupComplete, IdleRec, NoAttempt, CompleteCleanup
  <2>4. PhaseOK'
    BY <1>11, <1>a DEF TypeOK, JobRows, AttemptRows, RunOK, PhaseOK, Executing, Ending,
         After, RunPcs, Follows, Advancing, Phases, IdleRun, CleanupComplete, IdleRec,
         NoAttempt, CompleteCleanup
  <2>5. AheadOK'
    BY <1>11, <1>a DEF AheadOK, CleanupComplete, IdleRec, NoAttempt, CompleteCleanup
  <2> QED
    BY <2>1, <2>2, <2>3, <2>4, <2>5 DEF Control
<1>12. CASE Refuse(j)
  <2>1. TypeOK'
    BY <1>12, <1>a DEF TypeOK, RunPcs, RecPcs, IdleRun, IdleRec, RunOK, PhaseOK,
         AheadOK, RecOK, Refuse
  <2>2. RunOK' /\ RunningIsHeld'
    BY <1>12, <1>a DEF RunOK, RunningIsHeld, Refuse, IdleRec
  <2>3. RecOK'
    BY <1>12, <1>a DEF RecOK, Refuse, IdleRec
  <2>4. PhaseOK'
    BY <1>12, <1>a DEF PhaseOK, Refuse, IdleRec
  <2>5. AheadOK'
    BY <1>12, <1>a DEF AheadOK, Refuse, IdleRec
  <2> QED
    BY <2>1, <2>2, <2>3, <2>4, <2>5 DEF Control
<1> QED
  BY <1>1, <1>2, <1>3, <1>4, <1>5, <1>6, <1>7, <1>8, <1>9, <1>10, <1>11, <1>12

(***************************************************************************)
(* The steps of a publication, whoever takes them, and the start of a      *)
(* recovery.                                                               *)
(***************************************************************************)
LEMMA ControlPublishes ==
    ASSUME Control, NEW j \in Jobs, UNCHANGED <<platform, service, starts>>,
           \/ Materialize(j) /\ run.job = j /\ UNCHANGED rec
           \/ (Settle(j) \/ Unwind(j)) /\ rec.job = j
    PROVE  Control'
<1> USE CreationAssumption DEF Control, rowVars
<1>1. j \in Publishing
  BY DEF Materialize, Settle, Unwind, PhaseOK, RecOK
<1>2. GrantOf[j] \in Grants
  BY <1>1
<1>3. Local(GrantOf[j])
  BY <1>2, StepIsLocal DEF Materialize, Settle, Unwind
<1>4. UNCHANGED <<platform, service, starts, job, ahead, accepted, attempt, files, worker, run, rec>>
  BY DEF Materialize, Settle, Unwind
<1>5. TypeOK'
  BY <1>3, <1>4 DEF TypeOK, Local
<1>6. RunOK' /\ RecOK' /\ PhaseOK' /\ AheadOK' /\ RunningIsHeld'
  BY <1>4 DEF RunOK, RecOK, PhaseOK, AheadOK, RunningIsHeld
<1> QED
  BY <1>5, <1>6

(* A recovery starts. *)
LEMMA ControlRecover ==
    ASSUME Control, NEW j \in Jobs, NEW mode \in {"resume", "rollback", "cleanup"},
           Recover(j, mode), UNCHANGED <<platform, service, starts>>
    PROVE  Control'
<1> USE DEF Control, rowVars
<1>1. UNCHANGED <<platform, service, starts, job, ahead, accepted, attempt, files, worker,
                  grant, out, run>>
  BY DEF Recover
<1>2. /\ rec'.job = j /\ rec'.mode = mode /\ rec'.pc \in {"clean", "commit", "settle", "unwind"}
      /\ rec' \in [pc : RecPcs, job : Jobs \cup {NoJob},
                   mode : {"none", "resume", "rollback", "cleanup"}]
      /\ service = "up"
  BY DEF Recover, Onward, RecPcs, Serving
<1>3. IF mode = "cleanup" THEN job[j].state = "succeeded" /\ rec'.pc = "clean"
                          ELSE job[j].state = "orphaned"
  <2>1. CASE mode = "cleanup"
    <3>1. rec'.pc = "clean" /\ job[j].state = "succeeded"
      BY <2>1 DEF Recover
    <3> QED
      BY <2>1, <3>1
  <2>2. CASE mode # "cleanup"
    BY <2>2 DEF Recover
  <2> QED
    BY <2>1, <2>2
<1>4. /\ rec'.pc = "settle" => j \in Publishing /\ mode = "resume"
      /\ rec'.pc = "unwind" => j \in Publishing /\ mode = "rollback"
  <2>1. rec'.pc = IF mode = "cleanup" THEN "clean"
                  ELSE IF j \notin Publishing THEN Onward(j)
                  ELSE IF mode = "resume" THEN "settle" ELSE "unwind"
    BY DEF Recover
  <2> QED
    BY <2>1 DEF Onward
<1>5. TypeOK'
  BY <1>1, <1>2 DEF TypeOK
<1>6. RecOK'
  BY <1>1, <1>2, <1>3, <1>4 DEF RecOK
<1>7. RunOK' /\ PhaseOK' /\ AheadOK' /\ RunningIsHeld'
  BY <1>1 DEF RunOK, PhaseOK, AheadOK, RunningIsHeld
<1> QED
  BY <1>5, <1>6, <1>7

(***************************************************************************)
(* Revocation, and what happens to the processes.                          *)
(***************************************************************************)
LEMMA ControlProcesses ==
    ASSUME Control,
           \/ \E g \in Grants : Revoke(g)
           \/ \E j \in Jobs : WorkerEndsAlone(j)
           \/ ClaimTimesOut \/ Shutdown \/ SchedulerStops \/ Crash \/ Start
    PROVE  Control'
<1> USE CreationAssumption DEF Control, rowVars
<1>1. CASE \E g \in Grants : Revoke(g)
  <2>1. PICK g \in Grants : Revoke(g)
    BY <1>1
  <2>2. grant' \in GrantRows
    BY <2>1, GrantTyped DEF Revoke
  <2>3. TypeOK'
    BY <2>1, <2>2 DEF TypeOK, Revoke
  <2>4. RunOK' /\ RecOK' /\ PhaseOK' /\ AheadOK' /\ RunningIsHeld'
    BY <2>1 DEF RunOK, RecOK, PhaseOK, AheadOK, RunningIsHeld, Revoke
  <2> QED
    BY <2>3, <2>4
<1>2. CASE \E j \in Jobs : WorkerEndsAlone(j)
  <2>1. TypeOK'
    BY <1>2 DEF TypeOK, WorkerEndsAlone
  <2>2. RunOK' /\ RecOK' /\ PhaseOK' /\ AheadOK' /\ RunningIsHeld'
    BY <1>2 DEF RunOK, RecOK, PhaseOK, AheadOK, RunningIsHeld, WorkerEndsAlone
  <2> QED
    BY <2>1, <2>2
<1>3. CASE Shutdown
  <2>1. TypeOK'
    BY <1>3 DEF TypeOK, Shutdown
  <2>2. RunOK' /\ RecOK' /\ PhaseOK' /\ AheadOK' /\ RunningIsHeld'
    BY <1>3 DEF RunOK, RecOK, PhaseOK, AheadOK, RunningIsHeld, Shutdown, Serving
  <2> QED
    BY <2>1, <2>2
<1>4. CASE SchedulerStops
  <2>1. TypeOK'
    BY <1>4 DEF TypeOK, SchedulerStops, IdleRun, RunPcs
  <2>2. RunOK' /\ RecOK' /\ PhaseOK' /\ AheadOK' /\ RunningIsHeld'
    BY <1>4 DEF RunOK, RecOK, PhaseOK, AheadOK, RunningIsHeld, SchedulerStops, IdleRun,
         Executing, Ending, After
  <2> QED
    BY <2>1, <2>2
<1>5. CASE Crash
  <2>1. TypeOK'
    BY <1>5 DEF TypeOK, Crash, IdleRun, RunPcs, IdleRec, RecPcs
  <2>2. RunOK' /\ RecOK' /\ PhaseOK' /\ AheadOK' /\ RunningIsHeld'
    BY <1>5 DEF RunOK, RecOK, PhaseOK, AheadOK, RunningIsHeld, Crash, IdleRun, IdleRec,
         Executing, Ending, After
  <2> QED
    BY <2>1, <2>2
<1>6. CASE Start
  <2>1. run = IdleRun /\ rec.pc = "idle" /\ UNCHANGED <<run, rec, files, out, platform>>
    BY <1>6 DEF Start, RunOK, RecOK
  <2>2. worker' \in [Jobs -> {"none", "waiting", "fed"}] /\ starts' \in Nat
    <3>1. worker' = [j \in Jobs |-> IF attempt[j].worker THEN "none" ELSE worker[j]]
      BY <1>6 DEF Start
    <3>2. starts' = starts + 1
      BY <1>6 DEF Start
    <3>3. worker \in [Jobs -> {"none", "waiting", "fed"}] /\ starts \in Nat
      BY DEF TypeOK
    <3>4. ASSUME NEW j \in Jobs, NEW b
          PROVE  (IF b THEN "none" ELSE worker[j]) \in {"none", "waiting", "fed"}
      BY <3>3
    <3>5. \A j \in Jobs : worker'[j] \in {"none", "waiting", "fed"}
      BY <3>1, <3>4
    <3> QED
      BY <3>1, <3>2, <3>3, <3>5
  <2>3. attempt' \in AttemptRows
    <3>1. \A j \in Jobs : attempt[j] \in [phase : Phases, worker : BOOLEAN]
      BY DEF TypeOK, AttemptRows
    <3>2. \A j \in Jobs : [attempt[j] EXCEPT !.worker = FALSE] \in [phase : Phases, worker : BOOLEAN]
      <4>1. ASSUME NEW P, NEW W, NEW r \in [phase : P, worker : W], NEW w \in W
            PROVE  [r EXCEPT !.worker = w] \in [phase : P, worker : W]
        OBVIOUS
      <4>2. FALSE \in BOOLEAN
        OBVIOUS
      <4> QED
        BY <3>1, <4>1, <4>2
    <3> QED
      BY <1>6, <3>2 DEF Start, AttemptRows
  <2>4. CASE Unreserved # {}
    <3>1. UNCHANGED <<job, ahead, accepted, grant>> /\ service' = "refused"
      BY <1>6, <2>4 DEF Start
    <3>2. TypeOK'
      BY <2>1, <2>2, <2>3, <3>1 DEF TypeOK
    <3>3. RunOK' /\ RecOK' /\ PhaseOK' /\ AheadOK' /\ RunningIsHeld'
      BY <2>1, <3>1 DEF RunOK, RecOK, PhaseOK, AheadOK, RunningIsHeld, IdleRun, Executing,
           Ending, After
    <3> QED
      BY <3>2, <3>3
  <2>5. CASE Unreserved = {}
    <3>1. /\ service' = "up" /\ accepted' = {}
          /\ job' = [j \in Jobs |-> IF job[j].state = "running"
                                    THEN [job[j] EXCEPT !.state = "orphaned", !.step = "none"]
                                    ELSE job[j]]
          /\ ahead' = [j \in Jobs |-> IF job[j].state = "running" THEN Behind(j) ELSE ahead[j]]
      BY <1>6, <2>5 DEF Start
    <3>2. job' \in JobRows
      <4> DEFINE R == [state : States, step : Steps, cancel : BOOLEAN, seq : Nat]
      <4>1. \A j \in Jobs : job[j] \in R
        BY DEF TypeOK, JobRows
      <4>2. \A j \in Jobs : [job[j] EXCEPT !.state = "orphaned", !.step = "none"] \in R
        <5> DEFINE C == BOOLEAN
        <5>1. R = [state : States, step : Steps, cancel : C, seq : Nat]
          OBVIOUS
        <5>2. "orphaned" \in States /\ "none" \in Steps
          BY DEF States, Steps
        <5> HIDE DEF C, R
        <5> QED
          BY <4>1, <5>1, <5>2
      <4> HIDE DEF R
      <4>3. job' \in [Jobs -> R]
        BY <3>1, <4>1, <4>2
      <4> QED
        BY <4>3 DEF R, JobRows
    <3>3. ahead' \in [Jobs -> 0..4]
      <4>1. ahead \in [Jobs -> 0..4]
        BY DEF TypeOK
      <4>2. \A j \in Jobs : Behind(j) \in 0..4
        BY <4>1 DEF Behind, Bump
      <4> QED
        BY <3>1, <4>1, <4>2
    <3>4. grant' \in GrantRows
      <4> DEFINE S == {"ready", "revoked", "published"} \cup Held
      <4> DEFINE R == [state : S, by : Jobs \cup {NoJob}, auth : Authorities]
      <4>1. \A g \in Grants : grant[g] \in R
        BY DEF TypeOK, GrantRows
      <4>2. \A g \in Grants : [grant[g] EXCEPT !.state = "recovery_required"] \in R
        <5>1. ASSUME NEW U, NEW B, NEW A, NEW r \in [state : U, by : B, auth : A], NEW s \in U
              PROVE  [r EXCEPT !.state = s] \in [state : U, by : B, auth : A]
          OBVIOUS
        <5>2. "recovery_required" \in S
          BY DEF Held
        <5> HIDE DEF S
        <5> QED
          BY <4>1, <5>1, <5>2
      <4> HIDE DEF R
      <4>3. grant' \in [Grants -> R]
        BY <1>6, <2>5, <4>1, <4>2 DEF Start
      <4> QED
        BY <4>3 DEF R, GrantRows
    <3>5. TypeOK'
      BY <2>1, <2>2, <2>3, <3>1, <3>2, <3>3, <3>4 DEF TypeOK
    <3>6. \A j \in Jobs : job'[j].state # "running"
      <4> TAKE j \in Jobs
      <4>1. job[j].state = "running" =>
              job'[j] = [job[j] EXCEPT !.state = "orphaned", !.step = "none"]
        BY <3>1
      <4>2. job[j].state # "running" => job'[j] = job[j]
        BY <3>1
      <4> DEFINE C == BOOLEAN
      <4>3. job[j] \in [state : States, step : Steps, cancel : C, seq : Nat]
        BY DEF TypeOK, JobRows
      <4> HIDE DEF C
      <4> QED
        BY <4>1, <4>2, <4>3
    <3>7. RunOK' /\ RecOK' /\ PhaseOK' /\ AheadOK' /\ RunningIsHeld'
      BY <2>1, <3>1, <3>6 DEF RunOK, RecOK, PhaseOK, AheadOK, RunningIsHeld, IdleRun,
           Executing, Ending, After
    <3> QED
      BY <3>5, <3>7
  <2> QED
    BY <2>4, <2>5
<1>7. CASE ClaimTimesOut
  <2>1. TypeOK'
    BY <1>7 DEF TypeOK, ClaimTimesOut, Goto, RunPcs
  <2>2. RunOK' /\ RecOK' /\ PhaseOK' /\ AheadOK' /\ RunningIsHeld'
    BY <1>7 DEF TypeOK, RunOK, RecOK, PhaseOK, AheadOK, RunningIsHeld, ClaimTimesOut, Goto,
         Executing, Ending, After
  <2> QED
    BY <2>1, <2>2
<1> QED
  BY <1>1, <1>2, <1>3, <1>4, <1>5, <1>6, <1>7

(* Control holds at first. *)
LEMMA ControlInit == Init => Control
<1> SUFFICES ASSUME Init PROVE Control
  OBVIOUS
<1> USE CreationAssumption DEF Init
<1>1. TypeOK
  BY DEF TypeOK, JobRows, AttemptRows, GrantRows, PrivateFiles, Destinations, States, Steps,
       Phases, Journals, Authorities, RunPcs, RecPcs, NoAttempt, NoFiles, IdleRun, IdleRec,
       FreeGrant
<1>2. RunOK /\ RecOK /\ PhaseOK /\ AheadOK /\ RunningIsHeld
  BY DEF RunOK, RecOK, PhaseOK, AheadOK, RunningIsHeld, IdleRun, IdleRec, Executing, Ending,
       After
<1> QED
  BY <1>1, <1>2 DEF Control

(* Every step keeps it. *)
LEMMA ControlNext == Control /\ [Next]_vars => Control'
<1> SUFFICES ASSUME Control, [Next]_vars PROVE Control'
  OBVIOUS
<1>1. CASE UNCHANGED vars
  BY <1>1 DEF vars, rowVars, Control, TypeOK, RunOK, RecOK, PhaseOK, AheadOK, RunningIsHeld
<1>2. ASSUME NEW j \in Jobs, Execute(j) PROVE Control'
  <2>1. /\ run.job = j /\ service \in {"up", "stopping"}
        /\ UNCHANGED <<platform, service, starts, rec>>
    BY <1>2 DEF Execute
  <2>2. CASE Materialize(j)
    BY <2>1, <2>2, ControlPublishes
  <2> QED
    BY <1>2, <2>1, <2>2, ControlPrepares, ControlCommits, ControlFails DEF Execute
<1>3. ASSUME NEW j \in Jobs, Recovery(j) PROVE Control'
  <2>1. service = "up" /\ UNCHANGED <<platform, service, starts>>
    BY <1>3 DEF Recovery
  <2>2. CASE \E mode \in {"resume", "rollback", "cleanup"} : Recover(j, mode)
    BY <2>1, <2>2, ControlRecover
  <2>3. CASE rec.job = j /\ (Settle(j) \/ Unwind(j))
    BY <2>1, <2>3, ControlPublishes
  <2>4. CASE /\ rec.job = j
             /\ \/ Settled(j) \/ Unwound(j) \/ RemoveTarget(j) \/ RecCleanStage(j)
                \/ RecCleanJournal(j) \/ Requeue(j) \/ RollBack(j) \/ CleanupRecord(j)
                \/ CleanupStage(j) \/ CleanupJournal(j) \/ CleanupComplete(j) \/ Refuse(j)
    <3>1. rec.pc # "idle"
      BY <2>4 DEF Settled, Unwound, RemoveTarget, RecCleanStage, RecCleanJournal, Requeue,
           RollBack, CleanupRecord, CleanupStage, CleanupJournal, CleanupComplete, Refuse
    <3> QED
      BY <2>1, <2>4, <3>1, ControlRecovers
  <2> QED
    BY <1>3, <2>2, <2>3, <2>4 DEF Recovery
<1> QED
  BY <1>1, <1>2, <1>3, ControlRequests, ControlProcesses DEF Next

(* The types are kept, and control is where it should be, for ever. *)
LEMMA ControlHolds == Spec => []Control
  BY ControlInit, ControlNext, PTL DEF Spec

(***************************************************************************)
(* Every row, file, grant, destination and thread keeps to its values.     *)
(***************************************************************************)
THEOREM TypeCorrect == Spec => []TypeOK
<1>1. Control => TypeOK
  BY DEF Control
<1> QED
  BY <1>1, ControlHolds, PTL

(***************************************************************************)
(* No path forgets a running job, whatever fails: the scheduler holds it   *)
(* as long as its thread lives.                                            *)
(***************************************************************************)
THEOREM NoJobForgotten == Spec => []RunningIsHeld
<1>1. Control => RunningIsHeld
  BY DEF Control
<1> QED
  BY <1>1, ControlHolds, PTL

-----------------------------------------------------------------------------
(* Second layer: private files, workers and cancellations                   *)

(***************************************************************************)
(* While an attempt is prepared, its files have a row.                     *)
(***************************************************************************)
LEMMA PrivatePrepares ==
    ASSUME Control, Control', Private, NEW j \in Jobs, run.job = j,
           service \in {"up", "stopping"},
           UNCHANGED <<platform, service, starts, rec>>,
           \/ ReserveAttempt(j) \/ CreateStage(j) \/ BindStage(j)
           \/ CreateJournal(j) \/ BindJournal(j) \/ Progress(j)
           \/ AppendJournal(j) \/ AdvanceAttempt(j) \/ Spawn(j)
           \/ RegisterWorker(j) \/ Feed(j) \/ WorkerEnds(j)
    PROVE  Private'
<1> USE CreationAssumption DEF Control, Private, rowVars
<1>1. CASE ReserveAttempt(j)
  <2>1. CancelOK'
    BY <1>1 DEF CancelOK, ReserveAttempt, Goto
  <2>2. WorkerOK'
    BY <1>1 DEF WorkerOK, ReserveAttempt, Goto
  <2>3. DropOK'
    BY <1>1 DEF DropOK, Bare, ReserveAttempt, Goto
  <2>4. OwnedOK'
    BY <1>1 DEF TypeOK, JobRows, AttemptRows, PrivateFiles, OwnedOK, DropOK, RunOK,
         PhaseOK, RecOK, RunPcs, Executing, Ending, After, Bare, NoFiles, NoAttempt,
         Advancing, ReserveAttempt, Goto
  <2> QED
    BY <2>1, <2>2, <2>3, <2>4 DEF Private
<1>2. CASE CreateStage(j)
  <2>1. CancelOK'
    BY <1>2 DEF CancelOK, CreateStage, Goto
  <2>2. WorkerOK'
    BY <1>2 DEF WorkerOK, CreateStage, Goto
  <2>3. DropOK'
    BY <1>2 DEF TypeOK, PrivateFiles, AttemptRows, DropOK, RunOK, RunPcs, Executing,
         Ending, After, PhaseOK, Bare, OwnedOK, NoFiles, IdleRun, RecOK, CreateStage,
         Goto
  <2>4. OwnedOK'
    BY <1>2 DEF TypeOK, JobRows, AttemptRows, PrivateFiles, OwnedOK, DropOK, RunOK,
         PhaseOK, RecOK, RunPcs, Executing, Ending, After, Bare, NoFiles, NoAttempt,
         Advancing, CreateStage, Goto
  <2> QED
    BY <2>1, <2>2, <2>3, <2>4 DEF Private
<1>3. CASE BindStage(j)
  <2>1. CancelOK'
    BY <1>3 DEF CancelOK, BindStage, Goto
  <2>2. WorkerOK'
    BY <1>3 DEF WorkerOK, BindStage, Goto
  <2>3. DropOK'
    BY <1>3 DEF DropOK, Bare, BindStage, Goto
  <2>4. OwnedOK'
    BY <1>3 DEF TypeOK, JobRows, AttemptRows, PrivateFiles, OwnedOK, DropOK, RunOK,
         PhaseOK, RecOK, RunPcs, Executing, Ending, After, Bare, NoFiles, NoAttempt,
         Advancing, BindStage, Goto
  <2> QED
    BY <2>1, <2>2, <2>3, <2>4 DEF Private
<1>4. CASE CreateJournal(j)
  <2>1. CancelOK'
    BY <1>4 DEF CancelOK, CreateJournal, Goto
  <2>2. WorkerOK'
    BY <1>4 DEF WorkerOK, CreateJournal, Goto
  <2>3. DropOK'
    BY <1>4 DEF TypeOK, PrivateFiles, AttemptRows, DropOK, RunOK, RunPcs, Executing,
         Ending, After, PhaseOK, Bare, OwnedOK, NoFiles, IdleRun, RecOK, CreateJournal,
         Goto
  <2>4. OwnedOK'
    BY <1>4 DEF TypeOK, JobRows, AttemptRows, PrivateFiles, OwnedOK, DropOK, RunOK,
         PhaseOK, RecOK, RunPcs, Executing, Ending, After, Bare, NoFiles, NoAttempt,
         Advancing, CreateJournal, Goto
  <2> QED
    BY <2>1, <2>2, <2>3, <2>4 DEF Private
<1>5. CASE BindJournal(j)
  <2>1. CancelOK'
    BY <1>5 DEF CancelOK, BindJournal, Goto
  <2>2. WorkerOK'
    BY <1>5 DEF WorkerOK, BindJournal, Goto
  <2>3. DropOK'
    BY <1>5 DEF DropOK, Bare, BindJournal, Goto
  <2>4. OwnedOK'
    BY <1>5 DEF TypeOK, JobRows, AttemptRows, PrivateFiles, OwnedOK, DropOK, RunOK,
         PhaseOK, RecOK, RunPcs, Executing, Ending, After, Bare, NoFiles, NoAttempt,
         Advancing, BindJournal, Goto
  <2> QED
    BY <2>1, <2>2, <2>3, <2>4 DEF Private
<1>6. CASE Progress(j)
  <2>1. CancelOK'
    BY <1>6 DEF CancelOK, Progress, Goto, Bump, Follows
  <2>2. WorkerOK'
    BY <1>6 DEF WorkerOK, Progress, Goto, Bump, Follows
  <2>3. DropOK'
    BY <1>6 DEF DropOK, Bare, Progress, Goto, Bump, Follows
  <2>4. OwnedOK'
    BY <1>6 DEF TypeOK, JobRows, AttemptRows, PrivateFiles, OwnedOK, DropOK, RunOK,
         PhaseOK, RecOK, RunPcs, Executing, Ending, After, Bare, NoFiles, NoAttempt,
         Advancing, Progress, Goto, Bump, Follows
  <2> QED
    BY <2>1, <2>2, <2>3, <2>4 DEF Private
<1>7. CASE AppendJournal(j)
  <2>1. CancelOK'
    BY <1>7 DEF CancelOK, AppendJournal, Goto
  <2>2. WorkerOK'
    BY <1>7 DEF WorkerOK, AppendJournal, Goto
  <2>3. DropOK'
    BY <1>7 DEF TypeOK, PrivateFiles, AttemptRows, DropOK, RunOK, RunPcs, Executing,
         Ending, After, PhaseOK, Bare, OwnedOK, NoFiles, IdleRun, RecOK, AppendJournal,
         Goto
  <2>4. OwnedOK'
    BY <1>7 DEF TypeOK, JobRows, AttemptRows, PrivateFiles, OwnedOK, DropOK, RunOK,
         PhaseOK, RecOK, RunPcs, Executing, Ending, After, Bare, NoFiles, NoAttempt,
         Advancing, AppendJournal, Goto
  <2> QED
    BY <2>1, <2>2, <2>3, <2>4 DEF Private
<1>8. CASE AdvanceAttempt(j)
  <2>1. CancelOK'
    BY <1>8 DEF CancelOK, AdvanceAttempt, Goto
  <2>2. WorkerOK'
    BY <1>8 DEF WorkerOK, AdvanceAttempt, Goto
  <2>3. DropOK'
    BY <1>8 DEF DropOK, Bare, AdvanceAttempt, Goto
  <2>4. OwnedOK'
    BY <1>8 DEF TypeOK, JobRows, AttemptRows, PrivateFiles, OwnedOK, DropOK, RunOK,
         PhaseOK, RecOK, RunPcs, Executing, Ending, After, Bare, NoFiles, NoAttempt,
         Advancing, AdvanceAttempt, Goto
  <2> QED
    BY <2>1, <2>2, <2>3, <2>4 DEF Private
<1>9. CASE Spawn(j)
  <2>1. CancelOK'
    BY <1>9 DEF CancelOK, Spawn, Goto
  <2>2. WorkerOK'
    BY <1>9 DEF WorkerOK, Spawn, Goto
  <2>3. DropOK'
    BY <1>9 DEF DropOK, Bare, Spawn, Goto
  <2>4. OwnedOK'
    BY <1>9 DEF OwnedOK, Bare, Spawn, Goto
  <2> QED
    BY <2>1, <2>2, <2>3, <2>4 DEF Private
<1>10. CASE RegisterWorker(j)
  <2>1. CancelOK'
    BY <1>10 DEF CancelOK, RegisterWorker, Goto
  <2>2. WorkerOK'
    BY <1>10 DEF TypeOK, AttemptRows, WorkerOK, RegisterWorker, Goto
  <2>3. DropOK'
    BY <1>10 DEF DropOK, Bare, RegisterWorker, Goto
  <2>4. OwnedOK'
    BY <1>10 DEF OwnedOK, Bare, RegisterWorker, Goto
  <2> QED
    BY <2>1, <2>2, <2>3, <2>4 DEF Private
<1>11. CASE Feed(j)
  <2>1. CancelOK'
    BY <1>11 DEF CancelOK, Feed, Goto
  <2>2. WorkerOK'
    BY <1>11 DEF TypeOK, AttemptRows, WorkerOK, Feed, Goto
  <2>3. DropOK'
    BY <1>11 DEF DropOK, Bare, Feed, Goto
  <2>4. OwnedOK'
    BY <1>11 DEF OwnedOK, Bare, Feed, Goto
  <2> QED
    BY <2>1, <2>2, <2>3, <2>4 DEF Private
<1>12. CASE WorkerEnds(j)
  <2>1. CancelOK'
    BY <1>12 DEF CancelOK, WorkerEnds, Goto
  <2>2. WorkerOK'
    BY <1>12 DEF TypeOK, AttemptRows, WorkerOK, WorkerEnds, Goto
  <2>3. DropOK'
    BY <1>12 DEF DropOK, Bare, WorkerEnds, Goto
  <2>4. OwnedOK'
    BY <1>12 DEF OwnedOK, Bare, WorkerEnds, Goto
  <2> QED
    BY <2>1, <2>2, <2>3, <2>4 DEF Private
<1> QED
  BY <1>1, <1>2, <1>3, <1>4, <1>5, <1>6, <1>7, <1>8, <1>9, <1>10, <1>11, <1>12

(***************************************************************************)
(* While it is committed and retired, its row goes last.                   *)
(***************************************************************************)
LEMMA PrivateCommits ==
    ASSUME Control, Control', Private, NEW j \in Jobs, run.job = j,
           service \in {"up", "stopping"},
           UNCHANGED <<platform, service, starts, rec>>,
           \/ Begin(j) \/ MaterializeDone(j) \/ CommitRegistry(j)
           \/ RecordCommitted(j) \/ RecordCleanup(j) \/ RetireStage(j)
           \/ RetireJournal(j) \/ Complete(j) \/ LeaveCleanup(j)
    PROVE  Private'
<1> USE CreationAssumption DEF Control, Private, rowVars
<1>1. CASE Begin(j)
  <2>1. CancelOK'
    BY <1>1 DEF CancelOK, Begin, Goto
  <2>2. WorkerOK'
    BY <1>1 DEF WorkerOK, Begin, Goto
  <2>3. DropOK'
    BY <1>1 DEF DropOK, Bare, Begin, Goto
  <2>4. OwnedOK'
    BY <1>1 DEF OwnedOK, Bare, Begin, Goto
  <2> QED
    BY <2>1, <2>2, <2>3, <2>4 DEF Private
<1>2. CASE MaterializeDone(j)
  <2>1. CancelOK'
    BY <1>2 DEF CancelOK, MaterializeDone, Goto
  <2>2. WorkerOK'
    BY <1>2 DEF WorkerOK, MaterializeDone, Goto
  <2>3. DropOK'
    BY <1>2 DEF DropOK, Bare, MaterializeDone, Goto
  <2>4. OwnedOK'
    BY <1>2 DEF OwnedOK, Bare, MaterializeDone, Goto
  <2> QED
    BY <2>1, <2>2, <2>3, <2>4 DEF Private
<1>3. CASE CommitRegistry(j)
  <2>1. CancelOK'
    BY <1>3 DEF TypeOK, JobRows, CancelOK, CommitRegistry, Goto, Bump
  <2>2. WorkerOK'
    BY <1>3 DEF WorkerOK, CommitRegistry, Goto, Bump
  <2>3. DropOK'
    BY <1>3 DEF DropOK, Bare, CommitRegistry, Goto, Bump
  <2>4. OwnedOK'
    BY <1>3 DEF TypeOK, JobRows, AttemptRows, PrivateFiles, OwnedOK, Bare,
         CommitRegistry, Goto, Bump
  <2> QED
    BY <2>1, <2>2, <2>3, <2>4 DEF Private
<1>4. CASE RecordCommitted(j)
  <2>1. CancelOK'
    BY <1>4 DEF CancelOK, RecordCommitted, Goto
  <2>2. WorkerOK'
    BY <1>4 DEF WorkerOK, RecordCommitted, Goto
  <2>3. DropOK'
    BY <1>4 DEF DropOK, Bare, RecordCommitted, Goto
  <2>4. OwnedOK'
    BY <1>4 DEF OwnedOK, Bare, RecordCommitted, Goto
  <2> QED
    BY <2>1, <2>2, <2>3, <2>4 DEF Private
<1>5. CASE RecordCleanup(j)
  <2>1. CancelOK'
    BY <1>5 DEF CancelOK, RecordCleanup, Goto
  <2>2. WorkerOK'
    BY <1>5 DEF WorkerOK, RecordCleanup, Goto
  <2>3. DropOK'
    BY <1>5 DEF DropOK, Bare, RecordCleanup, Goto
  <2>4. OwnedOK'
    BY <1>5 DEF OwnedOK, Bare, RecordCleanup, Goto
  <2> QED
    BY <2>1, <2>2, <2>3, <2>4 DEF Private
<1>6. CASE RetireStage(j)
  <2>1. CancelOK'
    BY <1>6 DEF CancelOK, RetireStage, Goto
  <2>2. WorkerOK'
    BY <1>6 DEF WorkerOK, RetireStage, Goto
  <2>3. DropOK'
    BY <1>6 DEF TypeOK, PrivateFiles, AttemptRows, DropOK, Bare, RetireStage, Goto
  <2>4. OwnedOK'
    BY <1>6 DEF OwnedOK, Bare, RetireStage, Goto
  <2> QED
    BY <2>1, <2>2, <2>3, <2>4 DEF Private
<1>7. CASE RetireJournal(j)
  <2>1. CancelOK'
    BY <1>7 DEF CancelOK, RetireJournal, Goto
  <2>2. WorkerOK'
    BY <1>7 DEF WorkerOK, RetireJournal, Goto
  <2>3. DropOK'
    BY <1>7 DEF TypeOK, PrivateFiles, AttemptRows, DropOK, Bare, RetireJournal, Goto
  <2>4. OwnedOK'
    BY <1>7 DEF OwnedOK, Bare, RetireJournal, Goto
  <2> QED
    BY <2>1, <2>2, <2>3, <2>4 DEF Private
<1>8. CASE Complete(j)
  <2>1. CancelOK'
    BY <1>8 DEF CancelOK, Complete, CompleteCleanup, IdleRun, NoAttempt
  <2>2. WorkerOK'
    BY <1>8 DEF WorkerOK, Complete, CompleteCleanup, IdleRun, NoAttempt
  <2>3. DropOK'
    BY <1>8 DEF DropOK, Bare, IdleRun, Complete, CompleteCleanup, NoAttempt
  <2>4. OwnedOK'
    BY <1>8 DEF TypeOK, JobRows, AttemptRows, PrivateFiles, OwnedOK, DropOK, RunOK,
         PhaseOK, RecOK, RunPcs, Executing, Ending, After, Bare, NoFiles, NoAttempt,
         Advancing, Complete, CompleteCleanup, IdleRun
  <2> QED
    BY <2>1, <2>2, <2>3, <2>4 DEF Private
<1>9. CASE LeaveCleanup(j)
  <2>1. CancelOK'
    BY <1>9 DEF CancelOK, LeaveCleanup, IdleRun
  <2>2. WorkerOK'
    BY <1>9 DEF WorkerOK, LeaveCleanup, IdleRun
  <2>3. DropOK'
    BY <1>9 DEF DropOK, Bare, IdleRun, LeaveCleanup
  <2>4. OwnedOK'
    BY <1>9 DEF OwnedOK, Bare, LeaveCleanup, IdleRun
  <2> QED
    BY <2>1, <2>2, <2>3, <2>4 DEF Private
<1> QED
  BY <1>1, <1>2, <1>3, <1>4, <1>5, <1>6, <1>7, <1>8, <1>9

(***************************************************************************)
(* An exception drops only what was deleted.                               *)
(***************************************************************************)
LEMMA PrivateFails ==
    ASSUME Control, Control', Private, NEW j \in Jobs, run.job = j,
           service \in {"up", "stopping"},
           UNCHANGED <<platform, service, starts, rec>>,
           \/ Fail(j) \/ RequireRecovery(j) \/ NothingToClean(j)
           \/ StartCleanup(j) \/ Retain(j) \/ CleanStage(j) \/ CleanJournal(j)
           \/ Release(j) \/ ReleaseRefused(j) \/ ReadRow(j) \/ WriteRow(j)
           \/ ErrorEscapes(j)
    PROVE  Private'
<1> USE CreationAssumption DEF Control, Private, rowVars
<1>1. CASE Fail(j)
  <2>1. CancelOK'
    BY <1>1 DEF CancelOK, Fail, IdleRun
  <2>2. WorkerOK'
    BY <1>1 DEF TypeOK, AttemptRows, WorkerOK, Fail, IdleRun
  <2>3. DropOK'
    BY <1>1 DEF TypeOK, PrivateFiles, AttemptRows, DropOK, RunOK, RunPcs, Executing,
         Ending, After, PhaseOK, Bare, OwnedOK, NoFiles, IdleRun, RecOK, Fail
  <2>4. OwnedOK'
    BY <1>1 DEF OwnedOK, Bare, Fail, IdleRun
  <2> QED
    BY <2>1, <2>2, <2>3, <2>4 DEF Private
<1>2. CASE RequireRecovery(j)
  <2>1. CancelOK'
    BY <1>2 DEF TypeOK, JobRows, CancelOK, RequireRecovery, Bump, IdleRun, Intended
  <2>2. WorkerOK'
    BY <1>2 DEF WorkerOK, RequireRecovery, Bump, IdleRun, Intended
  <2>3. DropOK'
    BY <1>2 DEF DropOK, Bare, IdleRun, RequireRecovery, Bump, Intended
  <2>4. OwnedOK'
    BY <1>2 DEF TypeOK, JobRows, AttemptRows, PrivateFiles, OwnedOK, Bare,
         RequireRecovery, Bump, IdleRun, Intended
  <2> QED
    BY <2>1, <2>2, <2>3, <2>4 DEF Private
<1>3. CASE NothingToClean(j)
  <2>1. CancelOK'
    BY <1>3 DEF CancelOK, NothingToClean, Last, Verdict
  <2>2. WorkerOK'
    BY <1>3 DEF WorkerOK, NothingToClean, Last, Verdict
  <2>3. DropOK'
    BY <1>3 DEF DropOK, Bare, NothingToClean, Last, Verdict
  <2>4. OwnedOK'
    BY <1>3 DEF OwnedOK, Bare, NothingToClean, Last, Verdict
  <2> QED
    BY <2>1, <2>2, <2>3, <2>4 DEF Private
<1>4. CASE StartCleanup(j)
  <2>1. CancelOK'
    BY <1>4 DEF CancelOK, StartCleanup, Verdict
  <2>2. WorkerOK'
    BY <1>4 DEF WorkerOK, StartCleanup, Verdict
  <2>3. DropOK'
    BY <1>4 DEF DropOK, Bare, StartCleanup, Verdict
  <2>4. OwnedOK'
    BY <1>4 DEF OwnedOK, Bare, StartCleanup, Verdict
  <2> QED
    BY <2>1, <2>2, <2>3, <2>4 DEF Private
<1>5. CASE Retain(j)
  <2>1. CancelOK'
    BY <1>5 DEF CancelOK, Retain
  <2>2. WorkerOK'
    BY <1>5 DEF WorkerOK, Retain
  <2>3. DropOK'
    BY <1>5 DEF DropOK, Bare, Retain
  <2>4. OwnedOK'
    BY <1>5 DEF OwnedOK, Bare, Retain
  <2> QED
    BY <2>1, <2>2, <2>3, <2>4 DEF Private
<1>6. CASE CleanStage(j)
  <2>1. CancelOK'
    BY <1>6 DEF CancelOK, CleanStage, Goto
  <2>2. WorkerOK'
    BY <1>6 DEF WorkerOK, CleanStage, Goto
  <2>3. DropOK'
    BY <1>6 DEF TypeOK, PrivateFiles, AttemptRows, DropOK, Bare, CleanStage, Goto
  <2>4. OwnedOK'
    BY <1>6 DEF OwnedOK, Bare, CleanStage, Goto
  <2> QED
    BY <2>1, <2>2, <2>3, <2>4 DEF Private
<1>7. CASE CleanJournal(j)
  <2>1. CancelOK'
    BY <1>7 DEF CancelOK, CleanJournal, Goto, Last
  <2>2. WorkerOK'
    BY <1>7 DEF WorkerOK, CleanJournal, Goto, Last
  <2>3. DropOK'
    BY <1>7 DEF TypeOK, PrivateFiles, AttemptRows, DropOK, Bare, CleanJournal, Goto,
         Last
  <2>4. OwnedOK'
    BY <1>7 DEF OwnedOK, Bare, CleanJournal, Goto, Last
  <2> QED
    BY <2>1, <2>2, <2>3, <2>4 DEF Private
<1>8. CASE Release(j)
  <2>1. CancelOK'
    BY <1>8 DEF CancelOK, Release, Goto, Free
  <2>2. WorkerOK'
    BY <1>8 DEF WorkerOK, Release, Goto, Free
  <2>3. DropOK'
    BY <1>8 DEF DropOK, Bare, Release, Goto, Free
  <2>4. OwnedOK'
    BY <1>8 DEF OwnedOK, Bare, Release, Goto, Free
  <2> QED
    BY <2>1, <2>2, <2>3, <2>4 DEF Private
<1>9. CASE ReleaseRefused(j)
  <2>1. CancelOK'
    BY <1>9 DEF CancelOK, ReleaseRefused
  <2>2. WorkerOK'
    BY <1>9 DEF WorkerOK, ReleaseRefused
  <2>3. DropOK'
    BY <1>9 DEF DropOK, Bare, ReleaseRefused
  <2>4. OwnedOK'
    BY <1>9 DEF OwnedOK, Bare, ReleaseRefused
  <2> QED
    BY <2>1, <2>2, <2>3, <2>4 DEF Private
<1>10. CASE ReadRow(j)
  <2>1. CancelOK'
    BY <1>10 DEF CancelOK, ReadRow
  <2>2. WorkerOK'
    BY <1>10 DEF WorkerOK, ReadRow
  <2>3. DropOK'
    BY <1>10 DEF DropOK, Bare, ReadRow
  <2>4. OwnedOK'
    BY <1>10 DEF OwnedOK, Bare, ReadRow
  <2> QED
    BY <2>1, <2>2, <2>3, <2>4 DEF Private
<1>11. CASE WriteRow(j)
  <2>1. CancelOK'
    BY <1>11 DEF TypeOK, JobRows, CancelOK, WriteRow, Bump, Behind, NoAttempt, IdleRun
  <2>2. WorkerOK'
    BY <1>11 DEF WorkerOK, WriteRow, Bump, Behind, NoAttempt, IdleRun
  <2>3. DropOK'
    BY <1>11 DEF DropOK, Bare, IdleRun, WriteRow, Bump, Behind, NoAttempt
  <2>4. OwnedOK'
    BY <1>11 DEF TypeOK, JobRows, AttemptRows, PrivateFiles, OwnedOK, DropOK, RunOK,
         PhaseOK, RecOK, RunPcs, Executing, Ending, After, Bare, NoFiles, NoAttempt,
         Advancing, WriteRow, Bump, Behind, IdleRun
  <2> QED
    BY <2>1, <2>2, <2>3, <2>4 DEF Private
<1>12. CASE ErrorEscapes(j)
  <2>1. CancelOK'
    BY <1>12 DEF CancelOK, ErrorEscapes, IdleRun
  <2>2. WorkerOK'
    BY <1>12 DEF WorkerOK, ErrorEscapes, IdleRun
  <2>3. DropOK'
    BY <1>12 DEF DropOK, Bare, IdleRun, ErrorEscapes
  <2>4. OwnedOK'
    BY <1>12 DEF OwnedOK, Bare, ErrorEscapes, IdleRun
  <2> QED
    BY <2>1, <2>2, <2>3, <2>4 DEF Private
<1> QED
  BY <1>1, <1>2, <1>3, <1>4, <1>5, <1>6, <1>7, <1>8, <1>9, <1>10, <1>11, <1>12

(***************************************************************************)
(* Requests and claim_next leave the files alone.                          *)
(***************************************************************************)
LEMMA PrivateRequests ==
    ASSUME Control, Control', Private, NEW j \in Jobs,
           \/ Create(j) \/ CancelQueued(j) \/ CancelRunning(j) \/ Claim(j)
    PROVE  Private'
<1> USE CreationAssumption DEF Control, Private, rowVars
<1>1. CASE Create(j)
  <2>1. CancelOK'
    BY <1>1 DEF TypeOK, JobRows, CancelOK, Create, Serving
  <2>2. WorkerOK'
    BY <1>1 DEF WorkerOK, Create, Serving
  <2>3. DropOK'
    BY <1>1 DEF DropOK, Bare, Create, Serving
  <2>4. OwnedOK'
    BY <1>1 DEF TypeOK, JobRows, AttemptRows, PrivateFiles, OwnedOK, DropOK, RunOK,
         PhaseOK, RecOK, RunPcs, Executing, Ending, After, Bare, NoFiles, NoAttempt,
         Advancing, Create, Serving
  <2> QED
    BY <2>1, <2>2, <2>3, <2>4 DEF Private
<1>2. CASE CancelQueued(j)
  <2>1. CancelOK'
    BY <1>2 DEF TypeOK, JobRows, CancelOK, CancelQueued, Serving, Releasable, Free
  <2>2. WorkerOK'
    BY <1>2 DEF WorkerOK, CancelQueued, Serving, Releasable, Free
  <2>3. DropOK'
    BY <1>2 DEF DropOK, Bare, CancelQueued, Serving, Releasable, Free
  <2>4. OwnedOK'
    BY <1>2 DEF TypeOK, JobRows, AttemptRows, PrivateFiles, OwnedOK, DropOK, RunOK,
         PhaseOK, RecOK, RunPcs, Executing, Ending, After, Bare, NoFiles, NoAttempt,
         Advancing, CancelQueued, Serving, Releasable, Free
  <2> QED
    BY <2>1, <2>2, <2>3, <2>4 DEF Private
<1>3. CASE CancelRunning(j)
  <2>1. CancelOK'
    BY <1>3 DEF TypeOK, JobRows, CancelOK, CancelRunning, Serving, Bump
  <2>2. WorkerOK'
    BY <1>3 DEF WorkerOK, CancelRunning, Serving, Bump
  <2>3. DropOK'
    BY <1>3 DEF DropOK, Bare, CancelRunning, Serving, Bump
  <2>4. OwnedOK'
    BY <1>3 DEF OwnedOK, Bare, CancelRunning, Serving, Bump
  <2> QED
    BY <2>1, <2>2, <2>3, <2>4 DEF Private
<1>4. CASE Claim(j)
  <2>1. CancelOK'
    BY <1>4 DEF TypeOK, JobRows, CancelOK, Claim, IdleRun
  <2>2. WorkerOK'
    BY <1>4 DEF WorkerOK, Claim, IdleRun
  <2>3. DropOK'
    BY <1>4 DEF DropOK, Bare, IdleRun, Claim
  <2>4. OwnedOK'
    BY <1>4 DEF TypeOK, JobRows, AttemptRows, PrivateFiles, OwnedOK, Bare, Claim,
         IdleRun
  <2> QED
    BY <2>1, <2>2, <2>3, <2>4 DEF Private
<1> QED
  BY <1>1, <1>2, <1>3, <1>4

(***************************************************************************)
(* A recovery deletes the files before the row.                            *)
(***************************************************************************)
LEMMA PrivateRecovers ==
    ASSUME Control, Control', Private, NEW j \in Jobs, rec.job = j, rec.pc # "idle",
           service = "up", UNCHANGED <<platform, service, starts>>,
           \/ Settled(j) \/ Unwound(j) \/ RemoveTarget(j) \/ RecCleanStage(j)
           \/ RecCleanJournal(j) \/ Requeue(j) \/ RollBack(j)
           \/ CleanupRecord(j) \/ CleanupStage(j) \/ CleanupJournal(j)
           \/ CleanupComplete(j) \/ Refuse(j)
    PROVE  Private'
<1> USE CreationAssumption DEF Control, Private, rowVars
<1>a. run.job = j => run.pc \in After /\ rec.mode = "cleanup"
  BY Apart
<1>1. CASE Settled(j)
  <2>1. CancelOK'
    BY <1>1, <1>a DEF CancelOK, Settled, RecGoto, Onward
  <2>2. WorkerOK'
    BY <1>1, <1>a DEF WorkerOK, Settled, RecGoto, Onward
  <2>3. DropOK'
    BY <1>1, <1>a DEF TypeOK, PrivateFiles, AttemptRows, DropOK, RunOK, RunPcs,
         Executing, Ending, After, PhaseOK, Bare, OwnedOK, NoFiles, IdleRun, RecOK,
         Settled, RecGoto, Onward
  <2>4. OwnedOK'
    BY <1>1, <1>a DEF OwnedOK, Bare, Settled, RecGoto, Onward
  <2> QED
    BY <2>1, <2>2, <2>3, <2>4 DEF Private
<1>2. CASE Unwound(j)
  <2>1. CancelOK'
    BY <1>2, <1>a DEF CancelOK, Unwound, RecGoto, Onward
  <2>2. WorkerOK'
    BY <1>2, <1>a DEF WorkerOK, Unwound, RecGoto, Onward
  <2>3. DropOK'
    BY <1>2, <1>a DEF TypeOK, PrivateFiles, AttemptRows, DropOK, RunOK, RunPcs,
         Executing, Ending, After, PhaseOK, Bare, OwnedOK, NoFiles, IdleRun, RecOK,
         Unwound, RecGoto, Onward
  <2>4. OwnedOK'
    BY <1>2, <1>a DEF OwnedOK, Bare, Unwound, RecGoto, Onward
  <2> QED
    BY <2>1, <2>2, <2>3, <2>4 DEF Private
<1>3. CASE RemoveTarget(j)
  <2>1. CancelOK'
    BY <1>3, <1>a DEF CancelOK, RemoveTarget, RecGoto, Onward
  <2>2. WorkerOK'
    BY <1>3, <1>a DEF WorkerOK, RemoveTarget, RecGoto, Onward
  <2>3. DropOK'
    BY <1>3, <1>a DEF TypeOK, PrivateFiles, AttemptRows, DropOK, RunOK, RunPcs,
         Executing, Ending, After, PhaseOK, Bare, OwnedOK, NoFiles, IdleRun, RecOK,
         RemoveTarget, RecGoto, Onward
  <2>4. OwnedOK'
    BY <1>3, <1>a DEF OwnedOK, Bare, RemoveTarget, RecGoto, Onward
  <2> QED
    BY <2>1, <2>2, <2>3, <2>4 DEF Private
<1>4. CASE RecCleanStage(j)
  <2>1. CancelOK'
    BY <1>4, <1>a DEF CancelOK, RecCleanStage, RecGoto, Onward
  <2>2. WorkerOK'
    BY <1>4, <1>a DEF WorkerOK, RecCleanStage, RecGoto, Onward
  <2>3. DropOK'
    BY <1>4, <1>a DEF TypeOK, PrivateFiles, AttemptRows, DropOK, Bare, RecCleanStage,
         RecGoto, Onward
  <2>4. OwnedOK'
    BY <1>4, <1>a DEF OwnedOK, Bare, RecCleanStage, RecGoto, Onward
  <2> QED
    BY <2>1, <2>2, <2>3, <2>4 DEF Private
<1>5. CASE RecCleanJournal(j)
  <2>1. CancelOK'
    BY <1>5, <1>a DEF CancelOK, RecCleanJournal, RecGoto, Onward
  <2>2. WorkerOK'
    BY <1>5, <1>a DEF WorkerOK, RecCleanJournal, RecGoto, Onward
  <2>3. DropOK'
    BY <1>5, <1>a DEF TypeOK, PrivateFiles, AttemptRows, DropOK, Bare, RecCleanJournal,
         RecGoto, Onward
  <2>4. OwnedOK'
    BY <1>5, <1>a DEF OwnedOK, Bare, RecCleanJournal, RecGoto, Onward
  <2> QED
    BY <2>1, <2>2, <2>3, <2>4 DEF Private
<1>6. CASE Requeue(j)
  <2>1. CancelOK'
    BY <1>6, <1>a DEF TypeOK, JobRows, CancelOK, Requeue, IdleRec, NoAttempt
  <2>2. WorkerOK'
    BY <1>6, <1>a DEF WorkerOK, Requeue, IdleRec, NoAttempt
  <2>3. DropOK'
    BY <1>6, <1>a DEF DropOK, Bare, Requeue, IdleRec, NoAttempt
  <2>4. OwnedOK'
    BY <1>6, <1>a DEF TypeOK, JobRows, AttemptRows, PrivateFiles, OwnedOK, DropOK,
         RunOK, PhaseOK, RecOK, RunPcs, Executing, Ending, After, Bare, NoFiles,
         NoAttempt, Advancing, Requeue, IdleRec
  <2> QED
    BY <2>1, <2>2, <2>3, <2>4 DEF Private
<1>7. CASE RollBack(j)
  <2>1. CancelOK'
    BY <1>7, <1>a DEF TypeOK, JobRows, CancelOK, RollBack, IdleRec, NoAttempt, Free
  <2>2. WorkerOK'
    BY <1>7, <1>a DEF WorkerOK, RollBack, IdleRec, NoAttempt, Free
  <2>3. DropOK'
    BY <1>7, <1>a DEF DropOK, Bare, RollBack, IdleRec, NoAttempt, Free
  <2>4. OwnedOK'
    BY <1>7, <1>a DEF TypeOK, JobRows, AttemptRows, PrivateFiles, OwnedOK, DropOK,
         RunOK, PhaseOK, RecOK, RunPcs, Executing, Ending, After, Bare, NoFiles,
         NoAttempt, Advancing, RollBack, IdleRec, Free
  <2> QED
    BY <2>1, <2>2, <2>3, <2>4 DEF Private
<1>8. CASE CleanupRecord(j)
  <2>1. CancelOK'
    BY <1>8, <1>a DEF CancelOK, CleanupRecord
  <2>2. WorkerOK'
    BY <1>8, <1>a DEF WorkerOK, CleanupRecord
  <2>3. DropOK'
    BY <1>8, <1>a DEF TypeOK, PrivateFiles, AttemptRows, DropOK, RunOK, RunPcs,
         Executing, Ending, After, PhaseOK, Bare, OwnedOK, NoFiles, IdleRun, RecOK,
         CleanupRecord
  <2>4. OwnedOK'
    <3>1. attempt[j].phase # "none" /\ UNCHANGED <<attempt, job>>
      BY <1>8 DEF CleanupRecord
    <3>2. \A k \in Jobs : k # j => files'[k] = files[k]
      BY <1>8 DEF CleanupRecord, TypeOK, PrivateFiles
    <3> QED
      BY <3>1, <3>2 DEF OwnedOK, Bare
  <2> QED
    BY <2>1, <2>2, <2>3, <2>4 DEF Private
<1>9. CASE CleanupStage(j)
  <2>1. CancelOK'
    BY <1>9, <1>a DEF CancelOK, CleanupStage
  <2>2. WorkerOK'
    BY <1>9, <1>a DEF WorkerOK, CleanupStage
  <2>3. DropOK'
    BY <1>9, <1>a DEF DropOK, Bare, CleanupStage
  <2>4. OwnedOK'
    BY <1>9, <1>a DEF OwnedOK, Bare, CleanupStage
  <2> QED
    BY <2>1, <2>2, <2>3, <2>4 DEF Private
<1>10. CASE CleanupJournal(j)
  <2>1. CancelOK'
    BY <1>10, <1>a DEF CancelOK, CleanupJournal
  <2>2. WorkerOK'
    BY <1>10, <1>a DEF WorkerOK, CleanupJournal
  <2>3. DropOK'
    BY <1>10, <1>a DEF DropOK, Bare, CleanupJournal
  <2>4. OwnedOK'
    BY <1>10, <1>a DEF OwnedOK, Bare, CleanupJournal
  <2> QED
    BY <2>1, <2>2, <2>3, <2>4 DEF Private
<1>11. CASE CleanupComplete(j)
  <2>1. CancelOK'
    BY <1>11, <1>a DEF CancelOK, CleanupComplete, IdleRec, NoAttempt, CompleteCleanup
  <2>2. WorkerOK'
    BY <1>11, <1>a DEF TypeOK, AttemptRows, WorkerOK, RunOK, RunPcs, Executing, Ending,
         After, CleanupComplete, IdleRec, NoAttempt, CompleteCleanup
  <2>3. DropOK'
    BY <1>11, <1>a DEF DropOK, Bare, CleanupComplete, IdleRec, NoAttempt,
         CompleteCleanup
  <2>4. OwnedOK'
    BY <1>11, <1>a DEF TypeOK, JobRows, AttemptRows, PrivateFiles, OwnedOK, DropOK,
         RunOK, PhaseOK, RecOK, RunPcs, Executing, Ending, After, Bare, NoFiles,
         NoAttempt, Advancing, CleanupComplete, IdleRec, CompleteCleanup
  <2> QED
    BY <2>1, <2>2, <2>3, <2>4 DEF Private
<1>12. CASE Refuse(j)
  <2>1. CancelOK'
    BY <1>12, <1>a DEF CancelOK, Refuse, IdleRec
  <2>2. WorkerOK'
    BY <1>12, <1>a DEF WorkerOK, Refuse, IdleRec
  <2>3. DropOK'
    BY <1>12, <1>a DEF DropOK, Bare, Refuse, IdleRec
  <2>4. OwnedOK'
    BY <1>12, <1>a DEF OwnedOK, Bare, Refuse, IdleRec
  <2> QED
    BY <2>1, <2>2, <2>3, <2>4 DEF Private
<1> QED
  BY <1>1, <1>2, <1>3, <1>4, <1>5, <1>6, <1>7, <1>8, <1>9, <1>10, <1>11, <1>12

(***************************************************************************)
(* A step of a publication, the start of a recovery and a revocation       *)
(* change none of it.                                                      *)
(***************************************************************************)
LEMMA PrivatePublishes ==
    ASSUME Private, UNCHANGED <<service, job, accepted, attempt, files, worker, run, rec>>
    PROVE  Private'
BY DEF Private, CancelOK, WorkerOK, DropOK, OwnedOK, Bare

(* The start of a recovery deletes nothing. *)
LEMMA PrivateRecover ==
    ASSUME Control, Private, NEW j \in Jobs, NEW mode \in {"resume", "rollback", "cleanup"},
           Recover(j, mode), UNCHANGED <<platform, service, starts>>
    PROVE  Private'
<1> USE DEF Control, Private, rowVars
<1>1. UNCHANGED <<service, job, accepted, attempt, files, worker, run>>
  BY DEF Recover
<1>2. /\ rec'.job = j /\ rec'.pc # "cleaned"
      /\ rec'.pc = "commit" => attempt[j].phase = "none"
  BY DEF Recover, Onward
<1>3. DropOK'
  BY <1>1, <1>2 DEF DropOK, OwnedOK, Bare
<1> QED
  BY <1>1, <1>3 DEF CancelOK, WorkerOK, OwnedOK, Bare

(***************************************************************************)
(* A crash takes the workers without a request; a start ends the others    *)
(* before the service is up.                                               *)
(***************************************************************************)
LEMMA PrivateProcesses ==
    ASSUME Control, Private,
           \/ \E j \in Jobs : WorkerEndsAlone(j)
           \/ ClaimTimesOut \/ Shutdown \/ SchedulerStops \/ Crash \/ Start
    PROVE  Private'
<1> USE CreationAssumption DEF Control, Private, rowVars
<1>1. CASE \E j \in Jobs : WorkerEndsAlone(j)
  <2>1. CancelOK' /\ DropOK' /\ OwnedOK'
    BY <1>1 DEF CancelOK, DropOK, OwnedOK, Bare, WorkerEndsAlone
  <2>2. WorkerOK'
    BY <1>1 DEF TypeOK, WorkerOK, WorkerEndsAlone
  <2> QED
    BY <2>1, <2>2
<1>2. CASE Shutdown
  BY <1>2 DEF CancelOK, DropOK, OwnedOK, Bare, WorkerOK, Shutdown, Serving
<1>3. CASE SchedulerStops
  <2>1. CancelOK' /\ OwnedOK'
    BY <1>3 DEF CancelOK, OwnedOK, Bare, SchedulerStops
  <2>2. DropOK'
    BY <1>3 DEF DropOK, Bare, SchedulerStops, IdleRun
  <2>3. \A j \in Jobs : run.job # j /\ run'.job # j /\ run'.pc = "idle" /\ service' = "down"
    BY <1>3 DEF RunOK, SchedulerStops, IdleRun
  <2>4. UNCHANGED <<worker, attempt>>
    BY <1>3 DEF SchedulerStops
  <2>5. WorkerOK'
    BY <2>3, <2>4 DEF WorkerOK
  <2> QED
    BY <2>1, <2>2, <2>5
<1>4. CASE Crash
  <2>1. CancelOK' /\ OwnedOK'
    BY <1>4 DEF CancelOK, OwnedOK, Bare, Crash
  <2>2. DropOK'
    BY <1>4 DEF DropOK, Bare, Crash, IdleRun, IdleRec
  <2>3. \A j \in Jobs : run'.job # j /\ service' = "down" /\ attempt' = attempt
    BY <1>4 DEF Crash, IdleRun
  <2>4. \A j \in Jobs : worker'[j] = IF worker[j] = "waiting" THEN "none" ELSE worker[j]
    BY <1>4 DEF Crash
  <2>5. WorkerOK'
    BY <2>3, <2>4 DEF WorkerOK
  <2> QED
    BY <2>1, <2>2, <2>5
<1>5. CASE Start
  <2>1. run = IdleRun /\ rec.pc = "idle" /\ UNCHANGED <<run, rec, files>>
    BY <1>5 DEF Start, RunOK, RecOK
  <2>2. \A j \in Jobs : run.job # j /\ run.pc = "idle"
    BY <2>1 DEF IdleRun
  <2>3. \A j \in Jobs : attempt'[j].phase = attempt[j].phase
    <3> DEFINE W == BOOLEAN
    <3>1. \A j \in Jobs : attempt[j] \in [phase : Phases, worker : W]
      BY DEF TypeOK, AttemptRows
    <3>2. \A j \in Jobs : attempt'[j] = [attempt[j] EXCEPT !.worker = FALSE]
      BY <1>5 DEF Start
    <3> HIDE DEF W
    <3> QED
      BY <3>1, <3>2
  <2>4. \A j \in Jobs : worker'[j] \notin {"fed", "waiting"}
    <3> TAKE j \in Jobs
    <3>1. worker'[j] = IF attempt[j].worker THEN "none" ELSE worker[j]
      BY <1>5 DEF Start
    <3>2. worker[j] = "fed" => attempt[j].worker
      BY DEF WorkerOK
    <3>3. worker[j] # "waiting"
      BY <2>2 DEF WorkerOK
    <3> QED
      BY <3>1, <3>2, <3>3
  <2>5. WorkerOK'
    BY <2>1, <2>2, <2>4 DEF WorkerOK
  <2>6. DropOK'
    BY <2>1, <2>2 DEF DropOK, IdleRun
  <2>7. \A j \in Jobs : \/ job'[j] = job[j] /\ job[j].state # "running"
                        \/ job[j].state = "running" /\ job'[j].state = "orphaned"
                        \/ job' = job
    <3>1. CASE Unreserved # {}
      BY <1>5, <3>1 DEF Start
    <3>2. CASE Unreserved = {}
      <4>1. job' = [j \in Jobs |-> IF job[j].state = "running"
                                   THEN [job[j] EXCEPT !.state = "orphaned", !.step = "none"]
                                   ELSE job[j]]
        BY <1>5, <3>2 DEF Start
      <4> TAKE j \in Jobs
      <4>2. job[j].state = "running" =>
              job'[j] = [job[j] EXCEPT !.state = "orphaned", !.step = "none"]
        BY <4>1
      <4>3. job[j].state # "running" => job'[j] = job[j]
        BY <4>1
      <4> DEFINE C == BOOLEAN
      <4>4. job[j] \in [state : States, step : Steps, cancel : C, seq : Nat]
        BY DEF TypeOK, JobRows
      <4> HIDE DEF C
      <4> QED
        BY <4>2, <4>3, <4>4
    <3> QED
      BY <3>1, <3>2
  <2>8. OwnedOK'
    BY <2>1, <2>3, <2>7 DEF OwnedOK, Bare
  <2>9. CancelOK'
    <3>1. CASE Unreserved # {}
      BY <1>5, <3>1 DEF Start, CancelOK
    <3>2. CASE Unreserved = {}
      BY <1>5, <3>2 DEF Start, CancelOK
    <3> QED
      BY <3>1, <3>2
  <2> QED
    BY <2>5, <2>6, <2>8, <2>9
<1>6. CASE ClaimTimesOut
  <2>1. CancelOK' /\ OwnedOK'
    BY <1>6 DEF CancelOK, OwnedOK, Bare, ClaimTimesOut
  <2>2. DropOK'
    BY <1>6 DEF TypeOK, DropOK, Bare, ClaimTimesOut, Goto
  <2>3. \A j \in Jobs : run.job # j /\ run'.job # j
    BY <1>6 DEF TypeOK, RunOK, ClaimTimesOut, Goto
  <2>4. UNCHANGED <<worker, attempt, service>> /\ service = "up"
    BY <1>6 DEF ClaimTimesOut
  <2>5. WorkerOK'
    BY <2>3, <2>4 DEF WorkerOK
  <2> QED
    BY <2>1, <2>2, <2>5
<1> QED
  BY <1>1, <1>2, <1>3, <1>4, <1>5, <1>6

(* There is nothing private at first. *)
LEMMA PrivateInit == Init => Private
BY CreationAssumption DEF Init, Private, CancelOK, WorkerOK, DropOK, OwnedOK, Bare, IdleRun,
   IdleRec, NoAttempt, NoFiles

(* Every step keeps it so. *)
LEMMA PrivateNext == Control /\ Control' /\ Private /\ [Next]_vars => Private'
<1> SUFFICES ASSUME Control, Control', Private, [Next]_vars PROVE Private'
  OBVIOUS
<1>1. CASE UNCHANGED vars
  BY <1>1, PrivatePublishes DEF vars, rowVars
<1>2. ASSUME NEW j \in Jobs, Execute(j) PROVE Private'
  <2>1. /\ run.job = j /\ service \in {"up", "stopping"}
        /\ UNCHANGED <<platform, service, starts, rec>>
    BY <1>2 DEF Execute
  <2>2. CASE Materialize(j)
    BY <2>1, <2>2, PrivatePublishes DEF Materialize, rowVars
  <2> QED
    BY <1>2, <2>1, <2>2, PrivatePrepares, PrivateCommits, PrivateFails DEF Execute
<1>3. ASSUME NEW j \in Jobs, Recovery(j) PROVE Private'
  <2>1. service = "up" /\ UNCHANGED <<platform, service, starts>>
    BY <1>3 DEF Recovery
  <2>2. CASE \E mode \in {"resume", "rollback", "cleanup"} : Recover(j, mode)
    BY <2>1, <2>2, PrivateRecover
  <2>3. CASE rec.job = j /\ (Settle(j) \/ Unwind(j))
    BY <2>1, <2>3, PrivatePublishes DEF Settle, Unwind
  <2>4. CASE /\ rec.job = j
             /\ \/ Settled(j) \/ Unwound(j) \/ RemoveTarget(j) \/ RecCleanStage(j)
                \/ RecCleanJournal(j) \/ Requeue(j) \/ RollBack(j) \/ CleanupRecord(j)
                \/ CleanupStage(j) \/ CleanupJournal(j) \/ CleanupComplete(j) \/ Refuse(j)
    <3>1. rec.pc # "idle"
      BY <2>4 DEF Settled, Unwound, RemoveTarget, RecCleanStage, RecCleanJournal, Requeue,
           RollBack, CleanupRecord, CleanupStage, CleanupJournal, CleanupComplete, Refuse
    <3> QED
      BY <2>1, <2>4, <3>1, PrivateRecovers
  <2> QED
    BY <1>3, <2>2, <2>3, <2>4 DEF Recovery
<1>4. ASSUME NEW g \in Grants, Revoke(g) PROVE Private'
  BY <1>4, PrivatePublishes DEF Revoke
<1> QED
  BY <1>1, <1>2, <1>3, <1>4, PrivateRequests, PrivateProcesses DEF Next

(* The second layer rests on the first. *)
LEMMA PrivateHolds == Spec => []Private
  BY PrivateInit, PrivateNext, ControlHolds, PTL DEF Spec

(***************************************************************************)
(* An accepted cancellation and the commit exclude each other.             *)
(***************************************************************************)
THEOREM CancelHolds == Spec => []AcceptedCancelHolds
<1>1. Private => AcceptedCancelHolds
  BY DEF Private, CancelOK, AcceptedCancelHolds
<1> QED
  BY <1>1, PrivateHolds, PTL

(***************************************************************************)
(* No worker that got its request is at work in a service that did not     *)
(* start it.                                                               *)
(***************************************************************************)
THEOREM WorkersEnd == Spec => []NoWorkerSurvives
<1>1. Private => NoWorkerSurvives
  BY DEF Private, WorkerOK, NoWorkerSurvives
<1> QED
  BY <1>1, PrivateHolds, PTL

(***************************************************************************)
(* A private stage or journal always has a row, and the row a job somebody *)
(* will finish or recover.                                                 *)
(***************************************************************************)
THEOREM FilesOwned == Spec => []PrivateFilesAreOwned
<1>1. Control /\ Private => PrivateFilesAreOwned
  <2> SUFFICES ASSUME Control, Private PROVE PrivateFilesAreOwned
    OBVIOUS
  <2>1. ASSUME NEW j \in Jobs, Bare(j) PROVE files[j] = NoFiles
    <3> DEFINE B == BOOLEAN
    <3>1. files[j] \in [stage : B, journal : Journals] /\ FALSE \in B
      BY DEF Control, TypeOK, PrivateFiles
    <3>2. files[j].stage = FALSE
      <4>1. files[j].stage \in BOOLEAN
        BY <3>1
      <4> QED
        BY <4>1, <2>1 DEF Bare
    <3>3. files[j].journal = "none"
      BY <2>1 DEF Bare
    <3> HIDE DEF B
    <3> QED
      BY <3>1, <3>2, <3>3 DEF NoFiles
  <2> QED
    BY <2>1 DEF Private, OwnedOK, PrivateFilesAreOwned
<1> QED
  BY <1>1, ControlHolds, PrivateHolds, PTL

-----------------------------------------------------------------------------
(* Third layer: the publication of a destination                            *)

(***************************************************************************)
(* Whatever step a publication takes, the authority of the row still       *)
(* describes what is there.                                                *)
(***************************************************************************)
LEMMA DescribedKept ==
    ASSUME TypeOK, NEW g \in Grants, Described(g), grant[g].by \in Jobs,
           PublishStep(g) \/ SettleStep(g) \/ UnwindStep(g)
    PROVE  Described(g)'
<1> USE CreationAssumption DEF Described, Auth, Absent, TypeOK, GrantRows, Destinations
<1>1. CASE NoteStarted(g)
  BY <1>1 DEF NoteStarted, Note, Authorities
<1>2. CASE NoteAllocated(g)
  BY <1>2 DEF NoteAllocated, Note, Authorities
<1>3. CASE NoteStaged(g)
  BY <1>3 DEF NoteStaged, Note, Authorities
<1>4. CASE NoteVerified(g)
  BY <1>4 DEF NoteVerified, Note, Authorities
<1>5. CASE NoteResetting(g)
  BY <1>5 DEF NoteResetting, Note, Authorities
<1>6. CASE NoteReset(g)
  BY <1>6 DEF NoteReset, Note, Authorities
<1>7. CASE NoteUnwinding(g)
  BY <1>7 DEF NoteUnwinding, Note, Authorities
<1>8. CASE WriteIntent(g)
  BY <1>8 DEF WriteIntent, Write
<1>9. CASE WriteCopying(g)
  BY <1>9 DEF WriteCopying, Write
<1>10. CASE WriteReady(g)
  BY <1>10 DEF WriteReady, Write
<1>11. CASE RemoveJournal(g)
  BY <1>11 DEF RemoveJournal, Write
<1>12. CASE DropIntent(g)
  BY <1>12 DEF DropIntent, Write
<1>13. CASE DropJournal(g)
  BY <1>13 DEF DropJournal, Write
<1>14. CASE AllocateStage(g)
  BY <1>14 DEF AllocateStage
<1>15. CASE FillStage(g)
  BY <1>15 DEF FillStage
<1>16. CASE PublishTarget(g)
  BY <1>16 DEF PublishTarget
<1>17. CASE RemoveStage(g)
  BY <1>17 DEF RemoveStage
<1> QED
  BY <1>1, <1>2, <1>3, <1>4, <1>5, <1>6, <1>7, <1>8, <1>9, <1>10, <1>11, <1>12, <1>13,
       <1>14, <1>15, <1>16, <1>17 DEF PublishStep, SettleStep, UnwindStep

(***************************************************************************)
(* The attempt of a job is prepared.                                       *)
(***************************************************************************)
LEMMA PublishedPrepares ==
    ASSUME Control, Control', Private, Published, NEW j \in Jobs,
           run.job = j, service \in {"up", "stopping"},
           UNCHANGED <<platform, service, starts, rec>>,
           \/ ReserveAttempt(j) \/ CreateStage(j) \/ BindStage(j)
           \/ CreateJournal(j) \/ BindJournal(j) \/ Progress(j)
           \/ AppendJournal(j) \/ AdvanceAttempt(j) \/ Spawn(j)
           \/ RegisterWorker(j) \/ Feed(j) \/ WorkerEnds(j)
    PROVE  Published'
<1> USE CreationAssumption DEF Control, Published, rowVars
<1>1. CASE ReserveAttempt(j)
  <2>1. GrantOK'
    BY <1>1 DEF GrantOK, Auth, ReserveAttempt, Goto
  <2>2. DestinationOK'
    BY <1>1 DEF DestinationOK, Described, Auth, Absent, ReserveAttempt, Goto
  <2>3. HolderOK'
    BY <1>1 DEF HolderOK, Owns, Auth, Absent, Clear, Verified, Decided, ReserveAttempt,
         Goto
  <2>4. RecoveredOK'
    BY <1>1 DEF RecoveredOK, Owns, Auth, Absent, Clear, Verified, Decided,
         ReserveAttempt, Goto
  <2>5. ResumeIsDecided' /\ SucceededIsPublished'
    BY <1>1 DEF ResumeIsDecided, SucceededIsPublished, Auth, Absent, Clear, Verified,
         ReserveAttempt, Goto
  <2> QED
    BY <2>1, <2>2, <2>3, <2>4, <2>5 DEF Published
<1>2. CASE CreateStage(j)
  <2>1. GrantOK'
    BY <1>2 DEF GrantOK, Auth, CreateStage, Goto
  <2>2. DestinationOK'
    BY <1>2 DEF DestinationOK, Described, Auth, Absent, CreateStage, Goto
  <2>3. HolderOK'
    BY <1>2 DEF HolderOK, Owns, Auth, Absent, Clear, Verified, Decided, CreateStage,
         Goto
  <2>4. RecoveredOK'
    BY <1>2 DEF RecoveredOK, Owns, Auth, Absent, Clear, Verified, Decided, CreateStage,
         Goto
  <2>5. ResumeIsDecided' /\ SucceededIsPublished'
    BY <1>2 DEF ResumeIsDecided, SucceededIsPublished, Auth, Absent, Clear, Verified,
         CreateStage, Goto
  <2> QED
    BY <2>1, <2>2, <2>3, <2>4, <2>5 DEF Published
<1>3. CASE BindStage(j)
  <2>1. GrantOK'
    BY <1>3 DEF GrantOK, Auth, BindStage, Goto
  <2>2. DestinationOK'
    BY <1>3 DEF DestinationOK, Described, Auth, Absent, BindStage, Goto
  <2>3. HolderOK'
    BY <1>3 DEF HolderOK, Owns, Auth, Absent, Clear, Verified, Decided, BindStage, Goto
  <2>4. RecoveredOK'
    BY <1>3 DEF RecoveredOK, Owns, Auth, Absent, Clear, Verified, Decided, BindStage,
         Goto
  <2>5. ResumeIsDecided' /\ SucceededIsPublished'
    BY <1>3 DEF ResumeIsDecided, SucceededIsPublished, Auth, Absent, Clear, Verified,
         BindStage, Goto
  <2> QED
    BY <2>1, <2>2, <2>3, <2>4, <2>5 DEF Published
<1>4. CASE CreateJournal(j)
  <2>1. GrantOK'
    BY <1>4 DEF GrantOK, Auth, CreateJournal, Goto
  <2>2. DestinationOK'
    BY <1>4 DEF DestinationOK, Described, Auth, Absent, CreateJournal, Goto
  <2>3. HolderOK'
    BY <1>4 DEF HolderOK, Owns, Auth, Absent, Clear, Verified, Decided, CreateJournal,
         Goto
  <2>4. RecoveredOK'
    BY <1>4 DEF RecoveredOK, Owns, Auth, Absent, Clear, Verified, Decided,
         CreateJournal, Goto
  <2>5. ResumeIsDecided' /\ SucceededIsPublished'
    BY <1>4 DEF ResumeIsDecided, SucceededIsPublished, Auth, Absent, Clear, Verified,
         CreateJournal, Goto
  <2> QED
    BY <2>1, <2>2, <2>3, <2>4, <2>5 DEF Published
<1>5. CASE BindJournal(j)
  <2>1. GrantOK'
    BY <1>5 DEF GrantOK, Auth, BindJournal, Goto
  <2>2. DestinationOK'
    BY <1>5 DEF DestinationOK, Described, Auth, Absent, BindJournal, Goto
  <2>3. HolderOK'
    BY <1>5 DEF HolderOK, Owns, Auth, Absent, Clear, Verified, Decided, BindJournal,
         Goto
  <2>4. RecoveredOK'
    BY <1>5 DEF RecoveredOK, Owns, Auth, Absent, Clear, Verified, Decided, BindJournal,
         Goto
  <2>5. ResumeIsDecided' /\ SucceededIsPublished'
    BY <1>5 DEF ResumeIsDecided, SucceededIsPublished, Auth, Absent, Clear, Verified,
         BindJournal, Goto
  <2> QED
    BY <2>1, <2>2, <2>3, <2>4, <2>5 DEF Published
<1>6. CASE Progress(j)
  <2>1. GrantOK'
    BY <1>6 DEF GrantOK, Auth, Progress, Goto, Bump, Follows
  <2>2. DestinationOK'
    BY <1>6 DEF DestinationOK, Described, Auth, Absent, Progress, Goto, Bump, Follows
  <2>3. HolderOK'
    BY <1>6 DEF HolderOK, Owns, Auth, Absent, Clear, Verified, Decided, Progress, Goto,
         Bump, Follows
  <2>4. RecoveredOK'
    BY <1>6 DEF RecoveredOK, Owns, Auth, Absent, Clear, Verified, Decided, Progress,
         Goto, Bump, Follows
  <2>5. ResumeIsDecided' /\ SucceededIsPublished'
    BY <1>6 DEF ResumeIsDecided, SucceededIsPublished, Auth, Absent, Clear, Verified,
         Progress, Goto, Bump, Follows
  <2> QED
    BY <2>1, <2>2, <2>3, <2>4, <2>5 DEF Published
<1>7. CASE AppendJournal(j)
  <2>1. GrantOK'
    BY <1>7 DEF GrantOK, Auth, AppendJournal, Goto
  <2>2. DestinationOK'
    BY <1>7 DEF DestinationOK, Described, Auth, Absent, AppendJournal, Goto
  <2>3. HolderOK'
    BY <1>7 DEF HolderOK, Owns, Auth, Absent, Clear, Verified, Decided, AppendJournal,
         Goto
  <2>4. RecoveredOK'
    BY <1>7 DEF RecoveredOK, Owns, Auth, Absent, Clear, Verified, Decided,
         AppendJournal, Goto
  <2>5. ResumeIsDecided' /\ SucceededIsPublished'
    BY <1>7 DEF ResumeIsDecided, SucceededIsPublished, Auth, Absent, Clear, Verified,
         AppendJournal, Goto
  <2> QED
    BY <2>1, <2>2, <2>3, <2>4, <2>5 DEF Published
<1>8. CASE AdvanceAttempt(j)
  <2>1. GrantOK'
    BY <1>8 DEF GrantOK, Auth, AdvanceAttempt, Goto
  <2>2. DestinationOK'
    BY <1>8 DEF DestinationOK, Described, Auth, Absent, AdvanceAttempt, Goto
  <2>3. HolderOK'
    BY <1>8 DEF HolderOK, Owns, Auth, Absent, Clear, Verified, Decided, AdvanceAttempt,
         Goto
  <2>4. RecoveredOK'
    BY <1>8 DEF RecoveredOK, Owns, Auth, Absent, Clear, Verified, Decided,
         AdvanceAttempt, Goto
  <2>5. ResumeIsDecided' /\ SucceededIsPublished'
    BY <1>8 DEF ResumeIsDecided, SucceededIsPublished, Auth, Absent, Clear, Verified,
         AdvanceAttempt, Goto
  <2> QED
    BY <2>1, <2>2, <2>3, <2>4, <2>5 DEF Published
<1>9. CASE Spawn(j)
  <2>1. GrantOK'
    BY <1>9 DEF GrantOK, Auth, Spawn, Goto
  <2>2. DestinationOK'
    BY <1>9 DEF DestinationOK, Described, Auth, Absent, Spawn, Goto
  <2>3. HolderOK'
    BY <1>9 DEF HolderOK, Owns, Auth, Absent, Clear, Verified, Decided, Spawn, Goto
  <2>4. RecoveredOK'
    BY <1>9 DEF RecoveredOK, Owns, Auth, Absent, Clear, Verified, Decided, Spawn, Goto
  <2>5. ResumeIsDecided' /\ SucceededIsPublished'
    BY <1>9 DEF ResumeIsDecided, SucceededIsPublished, Auth, Absent, Clear, Verified,
         Spawn, Goto
  <2> QED
    BY <2>1, <2>2, <2>3, <2>4, <2>5 DEF Published
<1>10. CASE RegisterWorker(j)
  <2>1. GrantOK'
    BY <1>10 DEF GrantOK, Auth, RegisterWorker, Goto
  <2>2. DestinationOK'
    BY <1>10 DEF DestinationOK, Described, Auth, Absent, RegisterWorker, Goto
  <2>3. HolderOK'
    BY <1>10 DEF HolderOK, Owns, Auth, Absent, Clear, Verified, Decided, RegisterWorker,
         Goto
  <2>4. RecoveredOK'
    BY <1>10 DEF RecoveredOK, Owns, Auth, Absent, Clear, Verified, Decided,
         RegisterWorker, Goto
  <2>5. ResumeIsDecided' /\ SucceededIsPublished'
    BY <1>10 DEF ResumeIsDecided, SucceededIsPublished, Auth, Absent, Clear, Verified,
         RegisterWorker, Goto
  <2> QED
    BY <2>1, <2>2, <2>3, <2>4, <2>5 DEF Published
<1>11. CASE Feed(j)
  <2>1. GrantOK'
    BY <1>11 DEF GrantOK, Auth, Feed, Goto
  <2>2. DestinationOK'
    BY <1>11 DEF DestinationOK, Described, Auth, Absent, Feed, Goto
  <2>3. HolderOK'
    BY <1>11 DEF HolderOK, Owns, Auth, Absent, Clear, Verified, Decided, Feed, Goto
  <2>4. RecoveredOK'
    BY <1>11 DEF RecoveredOK, Owns, Auth, Absent, Clear, Verified, Decided, Feed, Goto
  <2>5. ResumeIsDecided' /\ SucceededIsPublished'
    BY <1>11 DEF ResumeIsDecided, SucceededIsPublished, Auth, Absent, Clear, Verified,
         Feed, Goto
  <2> QED
    BY <2>1, <2>2, <2>3, <2>4, <2>5 DEF Published
<1>12. CASE WorkerEnds(j)
  <2>1. GrantOK'
    BY <1>12 DEF GrantOK, Auth, WorkerEnds, Goto
  <2>2. DestinationOK'
    BY <1>12 DEF DestinationOK, Described, Auth, Absent, WorkerEnds, Goto
  <2>3. HolderOK'
    BY <1>12 DEF HolderOK, Owns, Auth, Absent, Clear, Verified, Decided, WorkerEnds,
         Goto
  <2>4. RecoveredOK'
    BY <1>12 DEF RecoveredOK, Owns, Auth, Absent, Clear, Verified, Decided, WorkerEnds,
         Goto
  <2>5. ResumeIsDecided' /\ SucceededIsPublished'
    BY <1>12 DEF ResumeIsDecided, SucceededIsPublished, Auth, Absent, Clear, Verified,
         WorkerEnds, Goto
  <2> QED
    BY <2>1, <2>2, <2>3, <2>4, <2>5 DEF Published
<1> QED
  BY <1>1, <1>2, <1>3, <1>4, <1>5, <1>6, <1>7, <1>8, <1>9, <1>10, <1>11, <1>12

(***************************************************************************)
(* The publication begins and is committed with the job.                   *)
(***************************************************************************)
LEMMA PublishedCommits ==
    ASSUME Control, Control', Private, Published, NEW j \in Jobs,
           run.job = j, service \in {"up", "stopping"},
           UNCHANGED <<platform, service, starts, rec>>,
           \/ Begin(j) \/ MaterializeDone(j) \/ CommitRegistry(j)
           \/ RecordCommitted(j) \/ RecordCleanup(j) \/ RetireStage(j)
           \/ RetireJournal(j) \/ Complete(j) \/ LeaveCleanup(j)
    PROVE  Published'
<1> USE CreationAssumption DEF Control, Published, rowVars
<1>1. CASE Begin(j)
  <2>1. GrantOK'
    BY <1>1 DEF GrantOK, Auth, Begin, Goto
  <2>2. DestinationOK'
    BY <1>1 DEF DestinationOK, Described, Auth, Absent, Begin, Goto
  <2>3. HolderOK'
    BY <1>1 DEF HolderOK, Owns, Auth, Absent, Clear, Verified, Decided, Begin, Goto
  <2>4. RecoveredOK'
    BY <1>1 DEF RecoveredOK, Owns, Auth, Absent, Clear, Verified, Decided, Begin, Goto
  <2>5. ResumeIsDecided' /\ SucceededIsPublished'
    BY <1>1 DEF ResumeIsDecided, SucceededIsPublished, Auth, Absent, Clear, Verified,
         Begin, Goto
  <2> QED
    BY <2>1, <2>2, <2>3, <2>4, <2>5 DEF Published
<1>2. CASE MaterializeDone(j)
  <2>1. GrantOK'
    BY <1>2 DEF GrantOK, Auth, MaterializeDone, Goto
  <2>2. DestinationOK'
    BY <1>2 DEF DestinationOK, Described, Auth, Absent, MaterializeDone, Goto
  <2>3. HolderOK'
    BY <1>2 DEF HolderOK, Owns, Auth, Absent, Clear, Verified, Decided, MaterializeDone,
         Goto
  <2>4. RecoveredOK'
    BY <1>2 DEF RecoveredOK, Owns, Auth, Absent, Clear, Verified, Decided,
         MaterializeDone, Goto
  <2>5. ResumeIsDecided' /\ SucceededIsPublished'
    BY <1>2 DEF ResumeIsDecided, SucceededIsPublished, Auth, Absent, Clear, Verified,
         MaterializeDone, Goto
  <2> QED
    BY <2>1, <2>2, <2>3, <2>4, <2>5 DEF Published
<1>3. CASE CommitRegistry(j)
  <2>1. GrantOK'
    BY <1>3 DEF TypeOK, JobRows, GrantRows, GrantOK, Auth, CommitRegistry, Goto, Bump
  <2>2. DestinationOK'
    BY <1>3 DEF TypeOK, GrantRows, Destinations, DestinationOK, Described, Auth, Absent,
         CommitRegistry, Goto, Bump
  <2>3. HolderOK'
    BY <1>3 DEF HolderOK, Owns, Auth, Absent, Clear, Verified, Decided, CommitRegistry,
         Goto, Bump
  <2>4. RecoveredOK'
    BY <1>3 DEF TypeOK, GrantRows, RecoveredOK, Owns, RecOK, IdleRec, Held, RunOK,
         Executing, Ending, After, RunPcs, GrantOK, Auth, Absent, Clear, Verified,
         Decided, CommitRegistry, Goto, Bump
  <2>5. ResumeIsDecided' /\ SucceededIsPublished'
    BY <1>3 DEF TypeOK, JobRows, GrantRows, ResumeIsDecided, SucceededIsPublished, Auth,
         Absent, Clear, Verified, CommitRegistry, Goto, Bump
  <2> QED
    BY <2>1, <2>2, <2>3, <2>4, <2>5 DEF Published
<1>4. CASE RecordCommitted(j)
  <2>1. GrantOK'
    BY <1>4 DEF GrantOK, Auth, RecordCommitted, Goto
  <2>2. DestinationOK'
    BY <1>4 DEF DestinationOK, Described, Auth, Absent, RecordCommitted, Goto
  <2>3. HolderOK'
    BY <1>4 DEF HolderOK, Owns, Auth, Absent, Clear, Verified, Decided, RecordCommitted,
         Goto
  <2>4. RecoveredOK'
    BY <1>4 DEF RecoveredOK, Owns, Auth, Absent, Clear, Verified, Decided,
         RecordCommitted, Goto
  <2>5. ResumeIsDecided' /\ SucceededIsPublished'
    BY <1>4 DEF ResumeIsDecided, SucceededIsPublished, Auth, Absent, Clear, Verified,
         RecordCommitted, Goto
  <2> QED
    BY <2>1, <2>2, <2>3, <2>4, <2>5 DEF Published
<1>5. CASE RecordCleanup(j)
  <2>1. GrantOK'
    BY <1>5 DEF GrantOK, Auth, RecordCleanup, Goto
  <2>2. DestinationOK'
    BY <1>5 DEF DestinationOK, Described, Auth, Absent, RecordCleanup, Goto
  <2>3. HolderOK'
    BY <1>5 DEF HolderOK, Owns, Auth, Absent, Clear, Verified, Decided, RecordCleanup,
         Goto
  <2>4. RecoveredOK'
    BY <1>5 DEF RecoveredOK, Owns, Auth, Absent, Clear, Verified, Decided,
         RecordCleanup, Goto
  <2>5. ResumeIsDecided' /\ SucceededIsPublished'
    BY <1>5 DEF ResumeIsDecided, SucceededIsPublished, Auth, Absent, Clear, Verified,
         RecordCleanup, Goto
  <2> QED
    BY <2>1, <2>2, <2>3, <2>4, <2>5 DEF Published
<1>6. CASE RetireStage(j)
  <2>1. GrantOK'
    BY <1>6 DEF GrantOK, Auth, RetireStage, Goto
  <2>2. DestinationOK'
    BY <1>6 DEF DestinationOK, Described, Auth, Absent, RetireStage, Goto
  <2>3. HolderOK'
    BY <1>6 DEF HolderOK, Owns, Auth, Absent, Clear, Verified, Decided, RetireStage,
         Goto
  <2>4. RecoveredOK'
    BY <1>6 DEF RecoveredOK, Owns, Auth, Absent, Clear, Verified, Decided, RetireStage,
         Goto
  <2>5. ResumeIsDecided' /\ SucceededIsPublished'
    BY <1>6 DEF ResumeIsDecided, SucceededIsPublished, Auth, Absent, Clear, Verified,
         RetireStage, Goto
  <2> QED
    BY <2>1, <2>2, <2>3, <2>4, <2>5 DEF Published
<1>7. CASE RetireJournal(j)
  <2>1. GrantOK'
    BY <1>7 DEF GrantOK, Auth, RetireJournal, Goto
  <2>2. DestinationOK'
    BY <1>7 DEF DestinationOK, Described, Auth, Absent, RetireJournal, Goto
  <2>3. HolderOK'
    BY <1>7 DEF HolderOK, Owns, Auth, Absent, Clear, Verified, Decided, RetireJournal,
         Goto
  <2>4. RecoveredOK'
    BY <1>7 DEF RecoveredOK, Owns, Auth, Absent, Clear, Verified, Decided,
         RetireJournal, Goto
  <2>5. ResumeIsDecided' /\ SucceededIsPublished'
    BY <1>7 DEF ResumeIsDecided, SucceededIsPublished, Auth, Absent, Clear, Verified,
         RetireJournal, Goto
  <2> QED
    BY <2>1, <2>2, <2>3, <2>4, <2>5 DEF Published
<1>8. CASE Complete(j)
  <2>1. GrantOK'
    BY <1>8 DEF GrantOK, Auth, Complete, CompleteCleanup, IdleRun, NoAttempt
  <2>2. DestinationOK'
    BY <1>8 DEF DestinationOK, Described, Auth, Absent, Complete, CompleteCleanup,
         IdleRun, NoAttempt
  <2>3. HolderOK'
    BY <1>8 DEF HolderOK, Owns, IdleRun, Auth, Absent, Clear, Verified, Decided,
         Complete, CompleteCleanup, NoAttempt
  <2>4. RecoveredOK'
    BY <1>8 DEF RecoveredOK, Owns, Auth, Absent, Clear, Verified, Decided, Complete,
         CompleteCleanup, IdleRun, NoAttempt
  <2>5. ResumeIsDecided' /\ SucceededIsPublished'
    BY <1>8 DEF ResumeIsDecided, SucceededIsPublished, Auth, Absent, Clear, Verified,
         Complete, CompleteCleanup, IdleRun, NoAttempt
  <2> QED
    BY <2>1, <2>2, <2>3, <2>4, <2>5 DEF Published
<1>9. CASE LeaveCleanup(j)
  <2>1. GrantOK'
    BY <1>9 DEF GrantOK, Auth, LeaveCleanup, IdleRun
  <2>2. DestinationOK'
    BY <1>9 DEF DestinationOK, Described, Auth, Absent, LeaveCleanup, IdleRun
  <2>3. HolderOK'
    BY <1>9 DEF HolderOK, Owns, IdleRun, Auth, Absent, Clear, Verified, Decided,
         LeaveCleanup
  <2>4. RecoveredOK'
    BY <1>9 DEF RecoveredOK, Owns, Auth, Absent, Clear, Verified, Decided, LeaveCleanup,
         IdleRun
  <2>5. ResumeIsDecided' /\ SucceededIsPublished'
    BY <1>9 DEF ResumeIsDecided, SucceededIsPublished, Auth, Absent, Clear, Verified,
         LeaveCleanup, IdleRun
  <2> QED
    BY <2>1, <2>2, <2>3, <2>4, <2>5 DEF Published
<1> QED
  BY <1>1, <1>2, <1>3, <1>4, <1>5, <1>6, <1>7, <1>8, <1>9

(***************************************************************************)
(* A failed job gives its grant back clean, or leaves it to a recovery.    *)
(***************************************************************************)
LEMMA PublishedFails ==
    ASSUME Control, Control', Private, Published, NEW j \in Jobs,
           run.job = j, service \in {"up", "stopping"},
           UNCHANGED <<platform, service, starts, rec>>,
           \/ Fail(j) \/ RequireRecovery(j) \/ NothingToClean(j)
           \/ StartCleanup(j) \/ Retain(j) \/ CleanStage(j) \/ CleanJournal(j)
           \/ Release(j) \/ ReleaseRefused(j) \/ ReadRow(j) \/ WriteRow(j)
           \/ ErrorEscapes(j)
    PROVE  Published'
<1> USE CreationAssumption DEF Control, Published, rowVars
<1>1. CASE Fail(j)
  <2>1. GrantOK'
    BY <1>1 DEF GrantOK, Auth, Fail, IdleRun
  <2>2. DestinationOK'
    BY <1>1 DEF DestinationOK, Described, Auth, Absent, Fail, IdleRun
  <2>3. HolderOK'
    BY <1>1 DEF TypeOK, GrantRows, AttemptRows, HolderOK, Owns, RunOK, Executing,
         Ending, After, RunPcs, PhaseOK, Advancing, IdleRun, ResumeIsDecided, Held,
         GrantOK, Auth, Absent, Clear, Verified, Decided, Fail
  <2>4. RecoveredOK'
    BY <1>1 DEF RecoveredOK, Owns, Auth, Absent, Clear, Verified, Decided, Fail, IdleRun
  <2>5. ResumeIsDecided' /\ SucceededIsPublished'
    BY <1>1 DEF ResumeIsDecided, SucceededIsPublished, Auth, Absent, Clear, Verified,
         Fail, IdleRun
  <2> QED
    BY <2>1, <2>2, <2>3, <2>4, <2>5 DEF Published
<1>2. CASE RequireRecovery(j)
  <2>1. GrantOK'
    BY <1>2 DEF TypeOK, JobRows, GrantRows, GrantOK, Auth, RequireRecovery, Bump,
         IdleRun, Intended
  <2>2. DestinationOK'
    BY <1>2 DEF TypeOK, GrantRows, Destinations, DestinationOK, Described, GrantOK,
         Held, Auth, Absent, RequireRecovery, Bump, IdleRun, Intended
  <2>3. HolderOK'
    BY <1>2 DEF HolderOK, Owns, IdleRun, Auth, Absent, Clear, Verified, Decided,
         RequireRecovery, Bump, Intended
  <2>4. RecoveredOK'
    BY <1>2 DEF TypeOK, GrantRows, RecoveredOK, Owns, Auth, Absent, Clear, Verified,
         Decided, RequireRecovery, Bump, IdleRun, Intended
  <2>5. ResumeIsDecided' /\ SucceededIsPublished'
    BY <1>2 DEF TypeOK, JobRows, GrantRows, ResumeIsDecided, SucceededIsPublished, Auth,
         Absent, Clear, Verified, RequireRecovery, Bump, IdleRun, Intended
  <2> QED
    BY <2>1, <2>2, <2>3, <2>4, <2>5 DEF Published
<1>3. CASE NothingToClean(j)
  <2>1. GrantOK'
    BY <1>3 DEF GrantOK, Auth, NothingToClean, Last, Verdict
  <2>2. DestinationOK'
    BY <1>3 DEF DestinationOK, Described, Auth, Absent, NothingToClean, Last, Verdict
  <2>3. HolderOK'
    BY <1>3 DEF HolderOK, Owns, Auth, Absent, Clear, Verified, Decided, NothingToClean,
         Last, Verdict
  <2>4. RecoveredOK'
    BY <1>3 DEF RecoveredOK, Owns, Auth, Absent, Clear, Verified, Decided,
         NothingToClean, Last, Verdict
  <2>5. ResumeIsDecided' /\ SucceededIsPublished'
    BY <1>3 DEF ResumeIsDecided, SucceededIsPublished, Auth, Absent, Clear, Verified,
         NothingToClean, Last, Verdict
  <2> QED
    BY <2>1, <2>2, <2>3, <2>4, <2>5 DEF Published
<1>4. CASE StartCleanup(j)
  <2>1. GrantOK'
    BY <1>4 DEF GrantOK, Auth, StartCleanup, Verdict
  <2>2. DestinationOK'
    BY <1>4 DEF DestinationOK, Described, Auth, Absent, StartCleanup, Verdict
  <2>3. HolderOK'
    BY <1>4 DEF TypeOK, GrantRows, AttemptRows, HolderOK, Owns, RunOK, Executing,
         Ending, After, RunPcs, PhaseOK, Advancing, IdleRun, ResumeIsDecided, Held,
         GrantOK, Auth, Absent, Clear, Verified, Decided, StartCleanup, Verdict,
         Intended
  <2>4. RecoveredOK'
    BY <1>4 DEF RecoveredOK, Owns, Auth, Absent, Clear, Verified, Decided, StartCleanup,
         Verdict
  <2>5. ResumeIsDecided' /\ SucceededIsPublished'
    BY <1>4 DEF ResumeIsDecided, SucceededIsPublished, Auth, Absent, Clear, Verified,
         StartCleanup, Verdict
  <2> QED
    BY <2>1, <2>2, <2>3, <2>4, <2>5 DEF Published
<1>5. CASE Retain(j)
  <2>1. GrantOK'
    BY <1>5 DEF GrantOK, Auth, Retain
  <2>2. DestinationOK'
    BY <1>5 DEF DestinationOK, Described, Auth, Absent, Retain
  <2>3. HolderOK'
    BY <1>5 DEF HolderOK, Owns, Auth, Absent, Clear, Verified, Decided, Retain
  <2>4. RecoveredOK'
    BY <1>5 DEF RecoveredOK, Owns, Auth, Absent, Clear, Verified, Decided, Retain
  <2>5. ResumeIsDecided' /\ SucceededIsPublished'
    BY <1>5 DEF ResumeIsDecided, SucceededIsPublished, Auth, Absent, Clear, Verified,
         Retain
  <2> QED
    BY <2>1, <2>2, <2>3, <2>4, <2>5 DEF Published
<1>6. CASE CleanStage(j)
  <2>1. GrantOK'
    BY <1>6 DEF GrantOK, Auth, CleanStage, Goto
  <2>2. DestinationOK'
    BY <1>6 DEF DestinationOK, Described, Auth, Absent, CleanStage, Goto
  <2>3. HolderOK'
    BY <1>6 DEF HolderOK, Owns, Auth, Absent, Clear, Verified, Decided, CleanStage, Goto
  <2>4. RecoveredOK'
    BY <1>6 DEF RecoveredOK, Owns, Auth, Absent, Clear, Verified, Decided, CleanStage,
         Goto
  <2>5. ResumeIsDecided' /\ SucceededIsPublished'
    BY <1>6 DEF ResumeIsDecided, SucceededIsPublished, Auth, Absent, Clear, Verified,
         CleanStage, Goto
  <2> QED
    BY <2>1, <2>2, <2>3, <2>4, <2>5 DEF Published
<1>7. CASE CleanJournal(j)
  <2>1. GrantOK'
    BY <1>7 DEF GrantOK, Auth, CleanJournal, Goto, Last
  <2>2. DestinationOK'
    BY <1>7 DEF DestinationOK, Described, Auth, Absent, CleanJournal, Goto, Last
  <2>3. HolderOK'
    BY <1>7 DEF TypeOK, GrantRows, AttemptRows, HolderOK, Owns, RunOK, Executing,
         Ending, After, RunPcs, PhaseOK, Advancing, IdleRun, ResumeIsDecided, Held,
         GrantOK, Auth, Absent, Clear, Verified, Decided, CleanJournal, Goto, Last,
         DestinationOK, Described
  <2>4. RecoveredOK'
    BY <1>7 DEF RecoveredOK, Owns, Auth, Absent, Clear, Verified, Decided, CleanJournal,
         Goto, Last
  <2>5. ResumeIsDecided' /\ SucceededIsPublished'
    BY <1>7 DEF ResumeIsDecided, SucceededIsPublished, Auth, Absent, Clear, Verified,
         CleanJournal, Goto, Last
  <2> QED
    BY <2>1, <2>2, <2>3, <2>4, <2>5 DEF Published
<1>8. CASE Release(j)
  <2>1. GrantOK'
    BY <1>8 DEF TypeOK, JobRows, GrantRows, GrantOK, Auth, Held, RunOK, Executing,
         Ending, After, RunPcs, HolderOK, Owns, Release, Goto, Free, Releasable,
         FreeGrant, Absent, Clear, Verified, Decided
  <2>2. DestinationOK'
    BY <1>8 DEF TypeOK, GrantRows, Destinations, DestinationOK, Described, GrantOK,
         Held, Auth, Absent, Release, Goto, Free, Releasable, FreeGrant, HolderOK, Owns,
         Clear, Verified, Decided
  <2>3. HolderOK'
    BY <1>8 DEF TypeOK, GrantRows, AttemptRows, HolderOK, Owns, RunOK, Executing,
         Ending, After, RunPcs, PhaseOK, Advancing, IdleRun, ResumeIsDecided, Held,
         GrantOK, Auth, Absent, Clear, Verified, Decided, Release, Goto, Free,
         Releasable, FreeGrant
  <2>4. RecoveredOK'
    BY <1>8 DEF TypeOK, GrantRows, RecoveredOK, Owns, RecOK, IdleRec, Held, RunOK,
         Executing, Ending, After, RunPcs, GrantOK, Auth, Absent, Clear, Verified,
         Decided, Release, Goto, Free, Releasable, FreeGrant, HolderOK
  <2>5. ResumeIsDecided' /\ SucceededIsPublished'
    BY <1>8 DEF TypeOK, JobRows, GrantRows, ResumeIsDecided, SucceededIsPublished,
         GrantOK, Held, Owns, RunOK, Executing, Ending, After, RunPcs, Auth, Absent,
         Clear, Verified, Decided, Release, Goto, Free, Releasable, FreeGrant, HolderOK
  <2> QED
    BY <2>1, <2>2, <2>3, <2>4, <2>5 DEF Published
<1>9. CASE ReleaseRefused(j)
  <2>1. GrantOK'
    BY <1>9 DEF GrantOK, Auth, ReleaseRefused
  <2>2. DestinationOK'
    BY <1>9 DEF DestinationOK, Described, Auth, Absent, ReleaseRefused
  <2>3. HolderOK'
    BY <1>9 DEF HolderOK, Owns, Auth, Absent, Clear, Verified, Decided, ReleaseRefused
  <2>4. RecoveredOK'
    BY <1>9 DEF RecoveredOK, Owns, Auth, Absent, Clear, Verified, Decided,
         ReleaseRefused
  <2>5. ResumeIsDecided' /\ SucceededIsPublished'
    BY <1>9 DEF ResumeIsDecided, SucceededIsPublished, Auth, Absent, Clear, Verified,
         ReleaseRefused
  <2> QED
    BY <2>1, <2>2, <2>3, <2>4, <2>5 DEF Published
<1>10. CASE ReadRow(j)
  <2>1. GrantOK'
    BY <1>10 DEF GrantOK, Auth, ReadRow
  <2>2. DestinationOK'
    BY <1>10 DEF DestinationOK, Described, Auth, Absent, ReadRow
  <2>3. HolderOK'
    BY <1>10 DEF HolderOK, Owns, Auth, Absent, Clear, Verified, Decided, ReadRow
  <2>4. RecoveredOK'
    BY <1>10 DEF RecoveredOK, Owns, Auth, Absent, Clear, Verified, Decided, ReadRow
  <2>5. ResumeIsDecided' /\ SucceededIsPublished'
    BY <1>10 DEF ResumeIsDecided, SucceededIsPublished, Auth, Absent, Clear, Verified,
         ReadRow
  <2> QED
    BY <2>1, <2>2, <2>3, <2>4, <2>5 DEF Published
<1>11. CASE WriteRow(j)
  <2>1. GrantOK'
    BY <1>11 DEF TypeOK, JobRows, GrantRows, GrantOK, Auth, Held, RunOK, Executing,
         Ending, After, RunPcs, HolderOK, Owns, WriteRow, Bump, Behind, NoAttempt,
         IdleRun
  <2>2. DestinationOK'
    BY <1>11 DEF DestinationOK, Described, Auth, Absent, WriteRow, Bump, Behind,
         NoAttempt, IdleRun
  <2>3. HolderOK'
    BY <1>11 DEF HolderOK, Owns, IdleRun, Auth, Absent, Clear, Verified, Decided,
         WriteRow, Bump, Behind, NoAttempt
  <2>4. RecoveredOK'
    BY <1>11 DEF RecoveredOK, Owns, Auth, Absent, Clear, Verified, Decided, WriteRow,
         Bump, Behind, NoAttempt, IdleRun
  <2>5. ResumeIsDecided' /\ SucceededIsPublished'
    BY <1>11 DEF TypeOK, JobRows, GrantRows, ResumeIsDecided, SucceededIsPublished,
         GrantOK, Held, Owns, RunOK, Executing, Ending, After, RunPcs, Auth, Absent,
         Clear, Verified, Decided, WriteRow, Bump, Behind, NoAttempt, IdleRun
  <2> QED
    BY <2>1, <2>2, <2>3, <2>4, <2>5 DEF Published
<1>12. CASE ErrorEscapes(j)
  <2>1. GrantOK'
    BY <1>12 DEF GrantOK, Auth, ErrorEscapes, IdleRun
  <2>2. DestinationOK'
    BY <1>12 DEF DestinationOK, Described, Auth, Absent, ErrorEscapes, IdleRun
  <2>3. HolderOK'
    BY <1>12 DEF HolderOK, Owns, IdleRun, Auth, Absent, Clear, Verified, Decided,
         ErrorEscapes
  <2>4. RecoveredOK'
    BY <1>12 DEF RecoveredOK, Owns, Auth, Absent, Clear, Verified, Decided, ErrorEscapes,
         IdleRun
  <2>5. ResumeIsDecided' /\ SucceededIsPublished'
    BY <1>12 DEF ResumeIsDecided, SucceededIsPublished, Auth, Absent, Clear, Verified,
         ErrorEscapes, IdleRun
  <2> QED
    BY <2>1, <2>2, <2>3, <2>4, <2>5 DEF Published
<1> QED
  BY <1>1, <1>2, <1>3, <1>4, <1>5, <1>6, <1>7, <1>8, <1>9, <1>10, <1>11, <1>12

(***************************************************************************)
(* A queued job owns its grant until it is canceled.                       *)
(***************************************************************************)
LEMMA PublishedRequests ==
    ASSUME Control, Control', Private, Published, NEW j \in Jobs,
           \/ Create(j) \/ CancelQueued(j) \/ CancelRunning(j) \/ Claim(j)
    PROVE  Published'
<1> USE CreationAssumption DEF Control, Published, rowVars
<1>1. CASE Create(j)
  <2>1. GrantOK'
    BY <1>1 DEF TypeOK, JobRows, GrantRows, GrantOK, Auth, Create, Serving
  <2>2. DestinationOK'
    BY <1>1 DEF TypeOK, GrantRows, Destinations, DestinationOK, Described, Auth, Absent,
         Create, Serving
  <2>3. HolderOK'
    BY <1>1 DEF TypeOK, GrantRows, AttemptRows, HolderOK, Owns, Auth, Absent, Clear,
         Verified, Decided, Create, Serving
  <2>4. RecoveredOK'
    BY <1>1 DEF RecoveredOK, Owns, Auth, Absent, Clear, Verified, Decided, Create,
         Serving
  <2>5. ResumeIsDecided' /\ SucceededIsPublished'
    BY <1>1 DEF TypeOK, JobRows, GrantRows, ResumeIsDecided, SucceededIsPublished,
         GrantOK, Held, Owns, RunOK, Executing, Ending, After, RunPcs, Auth, Absent,
         Clear, Verified, Decided, Create, Serving
  <2> QED
    BY <2>1, <2>2, <2>3, <2>4, <2>5 DEF Published
<1>2. CASE CancelQueued(j)
  <2>1. GrantOK'
    BY <1>2 DEF TypeOK, JobRows, GrantRows, GrantOK, Auth, Held, RunOK, Executing,
         Ending, After, RunPcs, HolderOK, Owns, CancelQueued, Serving, Releasable, Free,
         FreeGrant, ResumeIsDecided, Absent, Clear, Verified, Decided
  <2>2. DestinationOK'
    BY <1>2 DEF TypeOK, GrantRows, Destinations, DestinationOK, Described, GrantOK,
         Held, Auth, Absent, CancelQueued, Serving, Releasable, Free, FreeGrant,
         ResumeIsDecided, Clear, Verified, Decided
  <2>3. HolderOK'
    BY <1>2 DEF TypeOK, GrantRows, AttemptRows, HolderOK, Owns, RunOK, Executing,
         Ending, After, RunPcs, PhaseOK, Advancing, IdleRun, ResumeIsDecided, Held,
         GrantOK, Auth, Absent, Clear, Verified, Decided, CancelQueued, Serving,
         Releasable, Free, FreeGrant
  <2>4. RecoveredOK'
    BY <1>2 DEF RecoveredOK, Owns, Auth, Absent, Clear, Verified, Decided, CancelQueued,
         Serving, Releasable, Free
  <2>5. ResumeIsDecided' /\ SucceededIsPublished'
    BY <1>2 DEF TypeOK, JobRows, GrantRows, ResumeIsDecided, SucceededIsPublished,
         GrantOK, Held, Owns, RunOK, Executing, Ending, After, RunPcs, Auth, Absent,
         Clear, Verified, Decided, CancelQueued, Serving, Releasable, Free, FreeGrant
  <2> QED
    BY <2>1, <2>2, <2>3, <2>4, <2>5 DEF Published
<1>3. CASE CancelRunning(j)
  <2>1. GrantOK'
    BY <1>3 DEF GrantOK, Auth, CancelRunning, Serving, Bump
  <2>2. DestinationOK'
    BY <1>3 DEF DestinationOK, Described, Auth, Absent, CancelRunning, Serving, Bump
  <2>3. HolderOK'
    BY <1>3 DEF HolderOK, Owns, Auth, Absent, Clear, Verified, Decided, CancelRunning,
         Serving, Bump
  <2>4. RecoveredOK'
    BY <1>3 DEF RecoveredOK, Owns, Auth, Absent, Clear, Verified, Decided,
         CancelRunning, Serving, Bump
  <2>5. ResumeIsDecided' /\ SucceededIsPublished'
    BY <1>3 DEF ResumeIsDecided, SucceededIsPublished, Auth, Absent, Clear, Verified,
         CancelRunning, Serving, Bump
  <2> QED
    BY <2>1, <2>2, <2>3, <2>4, <2>5 DEF Published
<1>4. CASE Claim(j)
  <2>1. GrantOK'
    BY <1>4 DEF TypeOK, JobRows, GrantRows, GrantOK, Auth, Claim, IdleRun
  <2>2. DestinationOK'
    BY <1>4 DEF DestinationOK, Described, Auth, Absent, Claim, IdleRun
  <2>3. HolderOK'
    BY <1>4 DEF TypeOK, GrantRows, AttemptRows, HolderOK, Owns, RunOK, Executing,
         Ending, After, RunPcs, PhaseOK, Advancing, IdleRun, ResumeIsDecided, Held,
         GrantOK, Auth, Absent, Clear, Verified, Decided, Claim
  <2>4. RecoveredOK'
    BY <1>4 DEF RecoveredOK, Owns, Auth, Absent, Clear, Verified, Decided, Claim,
         IdleRun
  <2>5. ResumeIsDecided' /\ SucceededIsPublished'
    BY <1>4 DEF TypeOK, JobRows, GrantRows, ResumeIsDecided, SucceededIsPublished, Auth,
         Absent, Clear, Verified, Claim, IdleRun
  <2> QED
    BY <2>1, <2>2, <2>3, <2>4, <2>5 DEF Published
<1> QED
  BY <1>1, <1>2, <1>3, <1>4

(***************************************************************************)
(* A recovery ends with a decided destination.                             *)
(***************************************************************************)
LEMMA PublishedRecovers ==
    ASSUME Control, Control', Private, Published, NEW j \in Jobs,
           rec.job = j, rec.pc # "idle", service = "up",
           UNCHANGED <<platform, service, starts>>,
           \/ Settled(j) \/ Unwound(j) \/ RemoveTarget(j) \/ RecCleanStage(j)
           \/ RecCleanJournal(j) \/ Requeue(j) \/ RollBack(j)
           \/ CleanupRecord(j) \/ CleanupStage(j) \/ CleanupJournal(j)
           \/ CleanupComplete(j) \/ Refuse(j)
    PROVE  Published'
<1> USE CreationAssumption DEF Control, Published, rowVars
<1>a. run.job = j => run.pc \in After /\ rec.mode = "cleanup"
  BY Apart
<1>1. CASE Settled(j)
  <2>1. GrantOK'
    BY <1>1, <1>a DEF GrantOK, Auth, Settled, RecGoto, Onward
  <2>2. DestinationOK'
    BY <1>1, <1>a DEF DestinationOK, Described, Auth, Absent, Settled, RecGoto, Onward
  <2>3. HolderOK'
    BY <1>1, <1>a DEF HolderOK, Owns, Auth, Absent, Clear, Verified, Decided, Settled,
         RecGoto, Onward
  <2>4. RecoveredOK'
    <3>1. /\ rec.job = j /\ rec.mode = "resume" /\ j \in Publishing
          /\ Owns(j) /\ grant[GrantOf[j]].state \in Held
      BY <1>1, <1>a DEF Settled, RecOK, RecoveredOK
    <3>2. Auth(GrantOf[j]) = "none" => Clear(GrantOf[j])
      BY <3>1 DEF DestinationOK, Described, Held, Clear, Absent
    <3>3. Decided(GrantOf[j])
      BY <1>1, <3>2 DEF Settled, Decided
    <3>4. /\ UNCHANGED <<grant, out>> /\ rec'.job = j /\ rec'.mode = "resume"
      BY <1>1, <3>1 DEF TypeOK, Settled, RecGoto
    <3>5. Decided(GrantOf[j])' /\ Owns(j)' /\ grant'[GrantOf[j]].state \in Held
      BY <3>1, <3>3, <3>4 DEF Decided, Owns, Auth, Absent, Clear, Verified
    <3> QED
      BY <3>4, <3>5 DEF RecoveredOK
  <2>5. ResumeIsDecided' /\ SucceededIsPublished'
    BY <1>1, <1>a DEF ResumeIsDecided, SucceededIsPublished, Auth, Absent, Clear,
         Verified, Settled, RecGoto, Onward
  <2> QED
    BY <2>1, <2>2, <2>3, <2>4, <2>5 DEF Published
<1>2. CASE Unwound(j)
  <2>1. GrantOK'
    BY <1>2, <1>a DEF GrantOK, Auth, Unwound, RecGoto, Onward
  <2>2. DestinationOK'
    BY <1>2, <1>a DEF DestinationOK, Described, Auth, Absent, Unwound, RecGoto, Onward
  <2>3. HolderOK'
    BY <1>2, <1>a DEF HolderOK, Owns, Auth, Absent, Clear, Verified, Decided, Unwound,
         RecGoto, Onward
  <2>4. RecoveredOK'
    BY <1>2, <1>a DEF RecoveredOK, Owns, Auth, Absent, Clear, Verified, Decided,
         Unwound, RecGoto, Onward
  <2>5. ResumeIsDecided' /\ SucceededIsPublished'
    BY <1>2, <1>a DEF ResumeIsDecided, SucceededIsPublished, Auth, Absent, Clear,
         Verified, Unwound, RecGoto, Onward
  <2> QED
    BY <2>1, <2>2, <2>3, <2>4, <2>5 DEF Published
<1>3. CASE RemoveTarget(j)
  <2>1. GrantOK'
    BY <1>3, <1>a DEF GrantOK, Auth, RemoveTarget, RecGoto, Onward
  <2>2. DestinationOK'
    BY <1>3, <1>a DEF TypeOK, GrantRows, Destinations, DestinationOK, Described,
         GrantOK, Held, Auth, Absent, RemoveTarget, RecGoto, Onward, RecOK, Clear,
         Verified, Decided, RecoveredOK, Owns
  <2>3. HolderOK'
    BY <1>3, <1>a DEF TypeOK, GrantRows, AttemptRows, HolderOK, Owns, RunOK, Executing,
         Ending, After, RunPcs, PhaseOK, Advancing, IdleRun, ResumeIsDecided, Held,
         GrantOK, Auth, Absent, Clear, Verified, Decided, RemoveTarget, RecGoto, Onward,
         RecOK, DestinationOK, Described, RecoveredOK
  <2>4. RecoveredOK'
    <3>1. /\ rec.mode = "rollback" /\ j \in Publishing /\ GrantOf[j] \in Grants
          /\ rec'.job = j /\ rec'.mode = "rollback" /\ grant' = grant
      BY <1>3 DEF RemoveTarget, RecOK, RecGoto, TypeOK
    <3>2. Owns(j) /\ grant[GrantOf[j]].state \in Held
      BY <1>3, <3>1 DEF RecoveredOK
    <3>3. /\ out'[GrantOf[j]].target = NoJob
          /\ out'[GrantOf[j]].journal = "none" /\ out'[GrantOf[j]].stage = "none"
      <4>1. Described(GrantOf[j])
        BY <3>1, <3>2 DEF DestinationOK, Held
      <4> QED
        BY <1>3, <3>1, <4>1 DEF RemoveTarget, Verified, Described, TypeOK, Destinations
    <3>4. Clear(GrantOf[j])'
      BY <3>3 DEF Clear, Absent
    <3> QED
      BY <3>1, <3>2, <3>4 DEF RecoveredOK, Owns
  <2>5. ResumeIsDecided' /\ SucceededIsPublished'
    BY <1>3, <1>a DEF TypeOK, JobRows, GrantRows, ResumeIsDecided, SucceededIsPublished,
         GrantOK, Held, Owns, RunOK, Executing, Ending, After, RunPcs, Auth, Absent,
         Clear, Verified, Decided, RemoveTarget, RecGoto, Onward, RecOK, DestinationOK,
         Described, RecoveredOK
  <2> QED
    BY <2>1, <2>2, <2>3, <2>4, <2>5 DEF Published
<1>4. CASE RecCleanStage(j)
  <2>1. GrantOK'
    BY <1>4, <1>a DEF GrantOK, Auth, RecCleanStage, RecGoto, Onward
  <2>2. DestinationOK'
    BY <1>4, <1>a DEF DestinationOK, Described, Auth, Absent, RecCleanStage, RecGoto,
         Onward
  <2>3. HolderOK'
    BY <1>4, <1>a DEF HolderOK, Owns, Auth, Absent, Clear, Verified, Decided,
         RecCleanStage, RecGoto, Onward
  <2>4. RecoveredOK'
    BY <1>4, <1>a DEF RecoveredOK, Owns, Auth, Absent, Clear, Verified, Decided,
         RecCleanStage, RecGoto, Onward
  <2>5. ResumeIsDecided' /\ SucceededIsPublished'
    BY <1>4, <1>a DEF ResumeIsDecided, SucceededIsPublished, Auth, Absent, Clear,
         Verified, RecCleanStage, RecGoto, Onward
  <2> QED
    BY <2>1, <2>2, <2>3, <2>4, <2>5 DEF Published
<1>5. CASE RecCleanJournal(j)
  <2>1. GrantOK'
    BY <1>5, <1>a DEF GrantOK, Auth, RecCleanJournal, RecGoto, Onward
  <2>2. DestinationOK'
    BY <1>5, <1>a DEF DestinationOK, Described, Auth, Absent, RecCleanJournal, RecGoto,
         Onward
  <2>3. HolderOK'
    BY <1>5, <1>a DEF HolderOK, Owns, Auth, Absent, Clear, Verified, Decided,
         RecCleanJournal, RecGoto, Onward
  <2>4. RecoveredOK'
    BY <1>5, <1>a DEF RecoveredOK, Owns, Auth, Absent, Clear, Verified, Decided,
         RecCleanJournal, RecGoto, Onward
  <2>5. ResumeIsDecided' /\ SucceededIsPublished'
    BY <1>5, <1>a DEF ResumeIsDecided, SucceededIsPublished, Auth, Absent, Clear,
         Verified, RecCleanJournal, RecGoto, Onward
  <2> QED
    BY <2>1, <2>2, <2>3, <2>4, <2>5 DEF Published
<1>6. CASE Requeue(j)
  <2>1. GrantOK'
    <3>1. \A k \in Jobs : k # j => job'[k] = job[k]
      BY <1>6 DEF Requeue, TypeOK, JobRows
    <3>2. job'[j].state = "queued"
      BY <1>6 DEF Requeue, TypeOK, JobRows
    <3>3. CASE j \notin Publishing
      <4>1. grant' = grant
        BY <1>6, <3>3 DEF Requeue
      <4> QED
        BY <3>1, <3>3, <4>1 DEF GrantOK, Auth
    <3>4. CASE j \in Publishing
      <4> DEFINE g == GrantOf[j]
      <4>1. g \in Grants /\ grant[g].by = j /\ grant[g].state \in Held
        BY <1>6, <3>4 DEF Requeue, RecoveredOK, Owns
      <4>2. /\ grant'[g].state = "reserved" /\ grant'[g].by = j
            /\ \A h \in Grants : h # g => grant'[h] = grant[h]
        BY <1>6, <3>4, <4>1 DEF Requeue, TypeOK, GrantRows
      <4> HIDE DEF g
      <4>3. \A h \in Grants : h # g /\ grant[h].state \in Held \cup {"published"} => grant[h].by # j
        BY DEF GrantOK, g
      <4> QED
        BY <3>1, <3>2, <3>4, <4>1, <4>2, <4>3 DEF GrantOK, Auth, Held, g
    <3> QED
      BY <3>3, <3>4
  <2>2. DestinationOK'
    BY <1>6, <1>a DEF TypeOK, GrantRows, Destinations, DestinationOK, Described,
         GrantOK, Held, Auth, Absent, Requeue, IdleRec, NoAttempt, RecOK, RecoveredOK,
         Owns, Clear, Verified, Decided
  <2>3. HolderOK'
    BY <1>6, <1>a DEF HolderOK, Owns, Auth, Absent, Clear, Verified, Decided, Requeue,
         IdleRec, NoAttempt
  <2>4. RecoveredOK'
    BY <1>6, <1>a DEF RecoveredOK, Owns, IdleRec, Auth, Absent, Clear, Verified,
         Decided, Requeue, NoAttempt
  <2>5. ResumeIsDecided' /\ SucceededIsPublished'
    BY <1>6, <1>a DEF TypeOK, JobRows, GrantRows, ResumeIsDecided, SucceededIsPublished,
         GrantOK, Held, Owns, RunOK, Executing, Ending, After, RunPcs, Auth, Absent,
         Clear, Verified, Decided, Requeue, IdleRec, NoAttempt, RecOK, RecoveredOK
  <2> QED
    BY <2>1, <2>2, <2>3, <2>4, <2>5 DEF Published
<1>7. CASE RollBack(j)
  <2>1. GrantOK'
    BY <1>7, <1>a DEF TypeOK, JobRows, GrantRows, GrantOK, Auth, Held, RunOK, Executing,
         Ending, After, RunPcs, HolderOK, Owns, RollBack, IdleRec, NoAttempt, Free,
         RecOK, FreeGrant, RecoveredOK, Absent, Clear, Verified, Decided
  <2>2. DestinationOK'
    BY <1>7, <1>a DEF TypeOK, GrantRows, Destinations, DestinationOK, Described,
         GrantOK, Held, Auth, Absent, RollBack, IdleRec, NoAttempt, Free, RecOK,
         FreeGrant, RecoveredOK, Owns, Clear, Verified, Decided
  <2>3. HolderOK'
    BY <1>7, <1>a DEF TypeOK, GrantRows, AttemptRows, HolderOK, Owns, RunOK, Executing,
         Ending, After, RunPcs, PhaseOK, Advancing, IdleRun, ResumeIsDecided, Held,
         GrantOK, Auth, Absent, Clear, Verified, Decided, RollBack, IdleRec, NoAttempt,
         Free, RecOK, FreeGrant, RecoveredOK
  <2>4. RecoveredOK'
    BY <1>7, <1>a DEF RecoveredOK, Owns, IdleRec, Auth, Absent, Clear, Verified,
         Decided, RollBack, NoAttempt, Free
  <2>5. ResumeIsDecided' /\ SucceededIsPublished'
    BY <1>7, <1>a DEF TypeOK, JobRows, GrantRows, ResumeIsDecided, SucceededIsPublished,
         GrantOK, Held, Owns, RunOK, Executing, Ending, After, RunPcs, Auth, Absent,
         Clear, Verified, Decided, RollBack, IdleRec, NoAttempt, Free, RecOK, FreeGrant,
         RecoveredOK
  <2> QED
    BY <2>1, <2>2, <2>3, <2>4, <2>5 DEF Published
<1>8. CASE CleanupRecord(j)
  <2>1. GrantOK'
    BY <1>8, <1>a DEF GrantOK, Auth, CleanupRecord
  <2>2. DestinationOK'
    BY <1>8, <1>a DEF DestinationOK, Described, Auth, Absent, CleanupRecord
  <2>3. HolderOK'
    BY <1>8, <1>a DEF HolderOK, Owns, Auth, Absent, Clear, Verified, Decided,
         CleanupRecord
  <2>4. RecoveredOK'
    BY <1>8, <1>a DEF RecoveredOK, Owns, Auth, Absent, Clear, Verified, Decided,
         CleanupRecord
  <2>5. ResumeIsDecided' /\ SucceededIsPublished'
    BY <1>8, <1>a DEF ResumeIsDecided, SucceededIsPublished, Auth, Absent, Clear,
         Verified, CleanupRecord
  <2> QED
    BY <2>1, <2>2, <2>3, <2>4, <2>5 DEF Published
<1>9. CASE CleanupStage(j)
  <2>1. GrantOK'
    BY <1>9, <1>a DEF GrantOK, Auth, CleanupStage
  <2>2. DestinationOK'
    BY <1>9, <1>a DEF DestinationOK, Described, Auth, Absent, CleanupStage
  <2>3. HolderOK'
    BY <1>9, <1>a DEF HolderOK, Owns, Auth, Absent, Clear, Verified, Decided,
         CleanupStage
  <2>4. RecoveredOK'
    BY <1>9, <1>a DEF RecoveredOK, Owns, Auth, Absent, Clear, Verified, Decided,
         CleanupStage
  <2>5. ResumeIsDecided' /\ SucceededIsPublished'
    BY <1>9, <1>a DEF ResumeIsDecided, SucceededIsPublished, Auth, Absent, Clear,
         Verified, CleanupStage
  <2> QED
    BY <2>1, <2>2, <2>3, <2>4, <2>5 DEF Published
<1>10. CASE CleanupJournal(j)
  <2>1. GrantOK'
    BY <1>10, <1>a DEF GrantOK, Auth, CleanupJournal
  <2>2. DestinationOK'
    BY <1>10, <1>a DEF DestinationOK, Described, Auth, Absent, CleanupJournal
  <2>3. HolderOK'
    BY <1>10, <1>a DEF HolderOK, Owns, Auth, Absent, Clear, Verified, Decided,
         CleanupJournal
  <2>4. RecoveredOK'
    BY <1>10, <1>a DEF RecoveredOK, Owns, Auth, Absent, Clear, Verified, Decided,
         CleanupJournal
  <2>5. ResumeIsDecided' /\ SucceededIsPublished'
    BY <1>10, <1>a DEF ResumeIsDecided, SucceededIsPublished, Auth, Absent, Clear,
         Verified, CleanupJournal
  <2> QED
    BY <2>1, <2>2, <2>3, <2>4, <2>5 DEF Published
<1>11. CASE CleanupComplete(j)
  <2>1. GrantOK'
    BY <1>11, <1>a DEF GrantOK, Auth, CleanupComplete, IdleRec, NoAttempt,
         CompleteCleanup
  <2>2. DestinationOK'
    BY <1>11, <1>a DEF DestinationOK, Described, Auth, Absent, CleanupComplete, IdleRec,
         NoAttempt, CompleteCleanup
  <2>3. HolderOK'
    BY <1>11, <1>a DEF TypeOK, GrantRows, AttemptRows, HolderOK, Owns, RunOK, Executing,
         Ending, After, RunPcs, PhaseOK, Advancing, IdleRun, ResumeIsDecided, Held,
         GrantOK, Auth, Absent, Clear, Verified, Decided, CleanupComplete, IdleRec,
         NoAttempt, CompleteCleanup, RecOK
  <2>4. RecoveredOK'
    BY <1>11, <1>a DEF RecoveredOK, Owns, IdleRec, Auth, Absent, Clear, Verified,
         Decided, CleanupComplete, NoAttempt, CompleteCleanup
  <2>5. ResumeIsDecided' /\ SucceededIsPublished'
    BY <1>11, <1>a DEF ResumeIsDecided, SucceededIsPublished, Auth, Absent, Clear,
         Verified, CleanupComplete, IdleRec, NoAttempt, CompleteCleanup
  <2> QED
    BY <2>1, <2>2, <2>3, <2>4, <2>5 DEF Published
<1>12. CASE Refuse(j)
  <2>1. GrantOK'
    BY <1>12, <1>a DEF GrantOK, Auth, Refuse, IdleRec
  <2>2. DestinationOK'
    BY <1>12, <1>a DEF DestinationOK, Described, Auth, Absent, Refuse, IdleRec
  <2>3. HolderOK'
    BY <1>12, <1>a DEF HolderOK, Owns, Auth, Absent, Clear, Verified, Decided, Refuse,
         IdleRec
  <2>4. RecoveredOK'
    BY <1>12, <1>a DEF RecoveredOK, Owns, IdleRec, Auth, Absent, Clear, Verified,
         Decided, Refuse
  <2>5. ResumeIsDecided' /\ SucceededIsPublished'
    BY <1>12, <1>a DEF ResumeIsDecided, SucceededIsPublished, Auth, Absent, Clear,
         Verified, Refuse, IdleRec
  <2> QED
    BY <2>1, <2>2, <2>3, <2>4, <2>5 DEF Published
<1> QED
  BY <1>1, <1>2, <1>3, <1>4, <1>5, <1>6, <1>7, <1>8, <1>9, <1>10, <1>11, <1>12

(***************************************************************************)
(* A step of a publication is taken by the job that owns the destination,  *)
(* and concerns no other.                                                  *)
(***************************************************************************)
LEMMA PublishedPublishes ==
    ASSUME Control, Private, Published, NEW j \in Jobs,
           \/ Materialize(j) /\ run.job = j /\ UNCHANGED rec
           \/ (Settle(j) \/ Unwind(j)) /\ rec.job = j
    PROVE  Published'
<1> USE CreationAssumption DEF Control, Published, rowVars
<1> DEFINE g == GrantOf[j]
<1>1. UNCHANGED <<job, attempt, run, rec>>
  BY DEF Materialize, Settle, Unwind
<1>2. /\ j \in Publishing /\ g \in Grants
      /\ grant[g].by = j /\ grant[g].state \in Held
  <2>1. CASE Materialize(j) /\ run.job = j
    BY <2>1 DEF Materialize, PhaseOK, HolderOK, Owns, Held
  <2>2. CASE (Settle(j) \/ Unwind(j)) /\ rec.job = j
    BY <2>2 DEF Settle, Unwind, RecOK, RecoveredOK, Owns
  <2> QED
    BY <2>1, <2>2
<1>3. PublishStep(g) \/ SettleStep(g) \/ UnwindStep(g)
  BY DEF Materialize, Settle, Unwind
<1>4. /\ \A h \in Grants \ {g} : grant'[h] = grant[h] /\ out'[h] = out[h]
      /\ grant'[g].state = grant[g].state /\ grant'[g].by = j
  BY <1>2, <1>3, StepIsLocal DEF Local
<1>5. job[j].state \in {"running", "orphaned"}
  BY DEF Materialize, Settle, Unwind, RunOK, RecOK, Executing, RunPcs
<1> HIDE DEF g
<1>6. Described(g)'
  <2>1. Described(g)
    BY <1>2 DEF DestinationOK, Held
  <2> QED
    BY <1>2, <1>3, <2>1, DescribedKept
<1>7. ASSUME NEW k \in Publishing, Owns(k), k # j
      PROVE  /\ GrantOf[k] \in Grants \ {g}
             /\ grant'[GrantOf[k]] = grant[GrantOf[k]] /\ out'[GrantOf[k]] = out[GrantOf[k]]
  BY <1>2, <1>4, <1>7 DEF Owns
<1>8. ASSUME NEW k \in Publishing PROVE (grant'[GrantOf[k]].by = k) <=> Owns(k)
  BY <1>4, <1>2 DEF Owns
<1>9. GrantOK'
  BY <1>1, <1>2, <1>4 DEF GrantOK, Auth, Held
<1>10. DestinationOK'
  <2>1. ASSUME NEW h \in Grants, h # g
        PROVE  /\ grant'[h].state = grant[h].state /\ grant'[h].by = grant[h].by
               /\ out'[h].target = out[h].target /\ (Described(h)' <=> Described(h))
    BY <1>4, <2>1 DEF Described, Auth
  <2>2. grant'[g].state # "published"
    BY <1>2, <1>4 DEF Held
  <2> QED
    BY <1>6, <2>1, <2>2 DEF DestinationOK
<1>11. HolderOK'
  <2>1. CASE run.job = j
    <3>1. run.pc = "materialize"
      <4>1. ~((Settle(j) \/ Unwind(j)) /\ rec.job = j)
        <5> SUFFICES ASSUME Settle(j) \/ Unwind(j), rec.job = j PROVE FALSE
          OBVIOUS
        <5>1. rec.pc # "idle" /\ rec.mode # "cleanup"
          BY DEF Settle, Unwind, RecOK
        <5> QED
          BY <2>1, <5>1, Apart
      <4> QED
        BY <4>1 DEF Materialize
    <3> QED
      BY <1>1, <1>2, <1>4, <2>1, <3>1 DEF HolderOK, Owns, g
  <2>2. CASE run.job # j /\ run.job \in Publishing
    <3>1. (grant'[GrantOf[run.job]].by = run.job) <=> Owns(run.job)
      BY <1>8, <2>2
    <3>2. CASE ~Owns(run.job)
      BY <1>1, <2>2, <3>1, <3>2 DEF HolderOK, Owns
    <3>3. CASE Owns(run.job)
      <4>1. /\ grant'[GrantOf[run.job]] = grant[GrantOf[run.job]]
            /\ out'[GrantOf[run.job]] = out[GrantOf[run.job]]
        BY <1>7, <2>2, <3>3
      <4> QED
        BY <1>1, <2>2, <3>1, <4>1 DEF HolderOK, Owns, Auth, Decided, Verified, Clear, Absent
    <3> QED
      BY <3>2, <3>3
  <2>3. CASE run.job \notin Publishing
    BY <1>1, <2>3 DEF HolderOK
  <2> QED
    BY <2>1, <2>2, <2>3
<1>12. RecoveredOK'
  <2> SUFFICES ASSUME rec.pc # "idle", rec.mode # "cleanup", rec.job \in Publishing
               PROVE  RecoveredOK'
    BY <1>1 DEF RecoveredOK
  <2>1. CASE rec.job = j
    <3>1. rec.pc \in {"settle", "unwind"}
      <4>1. ~(Materialize(j) /\ run.job = j)
        <5> SUFFICES ASSUME Materialize(j), run.job = j PROVE FALSE
          OBVIOUS
        <5> QED
          BY <2>1, Apart DEF Materialize, After
      <4> QED
        BY <4>1 DEF Settle, Unwind
    <3> QED
      BY <1>1, <1>2, <1>4, <2>1, <3>1 DEF RecoveredOK, Owns, g
  <2>2. CASE rec.job # j
    <3>1. Owns(rec.job)
      BY DEF RecoveredOK
    <3>2. /\ grant'[GrantOf[rec.job]] = grant[GrantOf[rec.job]]
          /\ out'[GrantOf[rec.job]] = out[GrantOf[rec.job]]
      BY <1>7, <2>2, <3>1
    <3> QED
      BY <1>1, <3>1, <3>2
         DEF RecoveredOK, Owns, Auth, Decided, Verified, Clear, Absent
  <2> QED
    BY <2>1, <2>2
<1>13. ResumeIsDecided'
  <2> SUFFICES ASSUME NEW k \in Publishing, job[k].state = "queued"
               PROVE  /\ grant'[GrantOf[k]].by = k /\ grant'[GrantOf[k]].state = "reserved"
                      /\ (Verified(GrantOf[k]) \/ (Auth(GrantOf[k]) \in {"none", "reserved"}
                                                   /\ Clear(GrantOf[k])))'
    BY <1>1 DEF ResumeIsDecided
  <2>1. k # j /\ Owns(k)
    BY <1>5 DEF ResumeIsDecided, Owns
  <2>2. grant'[GrantOf[k]] = grant[GrantOf[k]] /\ out'[GrantOf[k]] = out[GrantOf[k]]
    BY <1>7, <2>1
  <2> QED
    BY <2>2 DEF ResumeIsDecided, Verified, Clear, Auth, Absent
<1>14. SucceededIsPublished'
  <2> SUFFICES ASSUME NEW k \in Publishing
               PROVE  /\ job[k].state = "succeeded" <=>
                            grant'[GrantOf[k]].state = "published" /\ grant'[GrantOf[k]].by = k
                      /\ job[k].state = "succeeded" => out'[GrantOf[k]].target = k
    BY <1>1 DEF SucceededIsPublished
  <2>1. CASE GrantOf[k] = g
    BY <1>2, <1>4, <1>5, <2>1 DEF SucceededIsPublished, Held
  <2>2. CASE GrantOf[k] # g
    <3>1. grant'[GrantOf[k]] = grant[GrantOf[k]] /\ out'[GrantOf[k]] = out[GrantOf[k]]
      BY <1>4, <2>2
    <3> QED
      BY <3>1 DEF SucceededIsPublished
  <2> QED
    BY <2>1, <2>2
<1> QED
  BY <1>9, <1>10, <1>11, <1>12, <1>13, <1>14

(* A recovery starts from a held grant. *)
LEMMA PublishedRecover ==
    ASSUME Control, Private, Published, NEW j \in Jobs,
           NEW mode \in {"resume", "rollback", "cleanup"}, Recover(j, mode)
    PROVE  Published'
<1> USE DEF Control, Published, rowVars
<1>1. UNCHANGED <<job, attempt, grant, out, run>>
  BY DEF Recover
<1>2. RecoveredOK'
  <2>1. rec'.job = j /\ rec'.mode = mode
    BY DEF Recover
  <2>2. CASE mode # "cleanup" /\ j \in Publishing
    <3>1. rec'.pc \in {"settle", "unwind"}
      BY <2>2 DEF Recover
    <3>2. Owns(j) /\ grant[GrantOf[j]].state \in Held
      BY <2>2 DEF Recover, Owns
    <3> QED
      BY <1>1, <2>1, <3>1, <3>2 DEF RecoveredOK, Owns
  <2>3. CASE ~(mode # "cleanup" /\ j \in Publishing)
    BY <2>1, <2>3 DEF RecoveredOK
  <2> QED
    BY <2>2, <2>3
<1>3. GrantOK' /\ DestinationOK' /\ HolderOK' /\ ResumeIsDecided' /\ SucceededIsPublished'
  BY <1>1 DEF GrantOK, DestinationOK, HolderOK, ResumeIsDecided, SucceededIsPublished, Owns,
       Described, Decided, Verified, Clear, Absent, Auth
<1> QED
  BY <1>2, <1>3

(***************************************************************************)
(* Revocation takes a free grant; the processes take none.                 *)
(***************************************************************************)
LEMMA PublishedProcesses ==
    ASSUME Control, Published,
           \/ \E g \in Grants : Revoke(g)
           \/ \E j \in Jobs : WorkerEndsAlone(j)
           \/ ClaimTimesOut \/ Shutdown \/ SchedulerStops \/ Crash
    PROVE  Published'
<1> USE CreationAssumption DEF Control, Published, rowVars
<1>1. CASE \E g \in Grants : Revoke(g)
  <2>1. PICK g \in Grants : Revoke(g)
    BY <1>1
  <2>2. /\ UNCHANGED <<job, attempt, out, run, rec>>
        /\ grant[g].state = "ready"
        /\ grant'[g].state = "revoked" /\ grant'[g].by = grant[g].by
        /\ grant'[g].auth = grant[g].auth
        /\ \A h \in Grants : h # g => grant'[h] = grant[h]
    BY <2>1 DEF Revoke, TypeOK, GrantRows
  <2>3. grant[g].by = NoJob /\ \A j \in Jobs : grant[g].by # j
    BY <2>2 DEF GrantOK
  <2>4. GrantOK'
    BY <2>2, <2>3 DEF GrantOK, Auth, Held
  <2>5. DestinationOK'
    <3>1. \A h \in Grants : Described(h)' <=> Described(h)
      BY <2>2 DEF Described, Auth
    <3> QED
      BY <2>2, <3>1 DEF DestinationOK
  <2>6. \A j \in Publishing : grant[GrantOf[j]].by = j => grant'[GrantOf[j]] = grant[GrantOf[j]]
    BY <2>2, <2>3
  <2>7. \A j \in Publishing : grant'[GrantOf[j]].by = grant[GrantOf[j]].by
    BY <2>2
  <2>8. HolderOK'
    BY <2>2, <2>6, <2>7 DEF HolderOK, Owns, Decided, Verified, Clear, Absent, Auth
  <2>9. RecoveredOK'
    BY <2>2, <2>6, <2>7 DEF RecoveredOK, Owns, Decided, Verified, Clear, Absent, Auth
  <2>10. ResumeIsDecided'
    BY <2>2, <2>6 DEF ResumeIsDecided, Verified, Clear, Absent, Auth
  <2>11. SucceededIsPublished'
    BY <2>2 DEF SucceededIsPublished
  <2> QED
    BY <2>4, <2>5, <2>8, <2>9, <2>10, <2>11
<1>2. CASE (\E j \in Jobs : WorkerEndsAlone(j)) \/ Shutdown
  <2>1. UNCHANGED <<job, attempt, grant, out, run, rec>>
    BY <1>2 DEF WorkerEndsAlone, Shutdown
  <2> QED
    BY <2>1 DEF GrantOK, DestinationOK, HolderOK, RecoveredOK, ResumeIsDecided,
         SucceededIsPublished, Owns, Described, Decided, Verified, Clear, Absent, Auth
<1>3. CASE SchedulerStops \/ Crash
  <2>1. /\ UNCHANGED <<job, attempt, grant, out>> /\ run' = IdleRun
        /\ rec' = rec \/ rec' = IdleRec
    BY <1>3 DEF SchedulerStops, Crash
  <2>2. HolderOK' /\ RecoveredOK'
    BY <2>1 DEF HolderOK, RecoveredOK, IdleRun, IdleRec, Owns, Decided, Verified, Clear,
         Absent, Auth
  <2> QED
    BY <2>1, <2>2 DEF GrantOK, DestinationOK, ResumeIsDecided, SucceededIsPublished,
         Described, Verified, Clear, Absent, Auth
<1>4. CASE ClaimTimesOut
  <2>1. UNCHANGED <<job, attempt, grant, out, rec>>
    BY <1>4 DEF ClaimTimesOut
  <2>2. run.job \notin Publishing /\ run'.job = run.job
    BY <1>4 DEF TypeOK, RunOK, ClaimTimesOut, Goto
  <2>3. HolderOK' /\ RecoveredOK'
    BY <2>1, <2>2 DEF HolderOK, RecoveredOK, Owns, Decided, Verified, Clear, Absent, Auth
  <2> QED
    BY <2>1, <2>3 DEF GrantOK, DestinationOK, ResumeIsDecided, SucceededIsPublished,
         Described, Verified, Clear, Absent, Auth
<1> QED
  BY <1>1, <1>2, <1>3, <1>4

(***************************************************************************)
(* A start makes orphans of the running jobs; their grants ask for         *)
(* recovery and keep their authority.                                      *)
(***************************************************************************)
LEMMA PublishedStart ==
    ASSUME Control, Published, Start
    PROVE  Published'
<1> USE CreationAssumption DEF Control, Published
<1>1. run = IdleRun /\ rec.pc = "idle" /\ UNCHANGED <<run, rec, out>>
  BY DEF Start, RunOK, RecOK
<1>2. HolderOK' /\ RecoveredOK'
  BY <1>1 DEF HolderOK, RecoveredOK, IdleRun
<1>3. CASE Unreserved # {}
  <2>1. UNCHANGED <<job, grant>>
    BY <1>3 DEF Start
  <2> QED
    BY <1>1, <1>2, <2>1 DEF GrantOK, DestinationOK, ResumeIsDecided, SucceededIsPublished,
         Described, Verified, Clear, Absent, Auth
<1>4. CASE Unreserved = {}
  <2>1. ASSUME NEW j \in Jobs
        PROVE  IF job[j].state = "running" THEN job'[j].state = "orphaned"
                                           ELSE job'[j] = job[j]
    <3>1. job' = [k \in Jobs |-> IF job[k].state = "running"
                                 THEN [job[k] EXCEPT !.state = "orphaned", !.step = "none"]
                                 ELSE job[k]]
      BY <1>4 DEF Start
    <3>2. job[j].state = "running" =>
            job'[j] = [job[j] EXCEPT !.state = "orphaned", !.step = "none"]
      BY <3>1
    <3>3. job[j].state # "running" => job'[j] = job[j]
      BY <3>1
    <3> DEFINE C == BOOLEAN
    <3>4. job[j] \in [state : States, step : Steps, cancel : C, seq : Nat]
      BY DEF TypeOK, JobRows
    <3> HIDE DEF C
    <3> QED
      BY <3>2, <3>3, <3>4
  <2>2. ASSUME NEW g \in Grants
        PROVE  /\ grant'[g].by = grant[g].by /\ grant'[g].auth = grant[g].auth
               /\ \/ grant'[g] = grant[g]
                  \/ /\ grant[g].state = "reserved" /\ grant'[g].state = "recovery_required"
                     /\ \E j \in Publishing : job[j].state = "running" /\ grant[g].by = j
    <3>1. grant'[g] = IF /\ grant[g].state = "reserved" /\ Auth(g) # "none"
                         /\ \E j \in Publishing : /\ job[j].state = "running"
                                                  /\ grant[g].by = j
                      THEN [grant[g] EXCEPT !.state = "recovery_required"]
                      ELSE grant[g]
      BY <1>4 DEF Start
    <3>2. grant[g] \in [state : {"ready", "revoked", "published"} \cup Held,
                        by : Jobs \cup {NoJob}, auth : Authorities]
      BY DEF TypeOK, GrantRows
    <3> QED
      BY <3>1, <3>2
  <2>3. GrantOK'
    BY <2>1, <2>2 DEF GrantOK, Auth, Held
  <2>4. DestinationOK'
    <3>1. \A g \in Grants : Described(g)' <=> Described(g)
      BY <1>1, <2>2 DEF Described, Auth
    <3> QED
      BY <1>1, <2>2, <3>1 DEF DestinationOK
  <2>5. ResumeIsDecided'
    <3> SUFFICES ASSUME NEW j \in Publishing, job'[j].state = "queued"
                 PROVE  /\ grant'[GrantOf[j]].by = j /\ grant'[GrantOf[j]].state = "reserved"
                        /\ (Verified(GrantOf[j]) \/ (Auth(GrantOf[j]) \in {"none", "reserved"}
                                                     /\ Clear(GrantOf[j])))'
      BY DEF ResumeIsDecided
    <3>1. job[j].state = "queued"
      BY <2>1
    <3>2. grant'[GrantOf[j]] = grant[GrantOf[j]]
      BY <2>2, <3>1 DEF ResumeIsDecided
    <3> QED
      BY <1>1, <3>1, <3>2 DEF ResumeIsDecided, Verified, Clear, Auth, Absent
  <2>6. SucceededIsPublished'
    BY <1>1, <2>1, <2>2 DEF SucceededIsPublished
  <2> QED
    BY <1>2, <2>3, <2>4, <2>5, <2>6
<1> QED
  BY <1>3, <1>4

(* Every destination is free and empty at first. *)
LEMMA PublishedInit == Init => Published
BY CreationAssumption DEF Init, Published, GrantOK, DestinationOK, HolderOK, RecoveredOK,
   ResumeIsDecided, SucceededIsPublished, Described, Auth, Held, FreeGrant, IdleRun, IdleRec

(* Every step keeps the invariant. *)
LEMMA PublishedNext == Control /\ Control' /\ Private /\ Published /\ [Next]_vars => Published'
<1> SUFFICES ASSUME Control, Control', Private, Published, [Next]_vars PROVE Published'
  OBVIOUS
<1>1. CASE UNCHANGED vars
  BY <1>1 DEF vars, rowVars, Published, GrantOK, DestinationOK, HolderOK, RecoveredOK,
       ResumeIsDecided, SucceededIsPublished, Owns, Described, Decided, Verified, Clear,
       Absent, Auth
<1>2. ASSUME NEW j \in Jobs, Execute(j) PROVE Published'
  <2>1. /\ run.job = j /\ service \in {"up", "stopping"}
        /\ UNCHANGED <<platform, service, starts, rec>>
    BY <1>2 DEF Execute
  <2>2. CASE Materialize(j)
    BY <2>1, <2>2, PublishedPublishes
  <2> QED
    BY <1>2, <2>1, <2>2, PublishedPrepares, PublishedCommits, PublishedFails DEF Execute
<1>3. ASSUME NEW j \in Jobs, Recovery(j) PROVE Published'
  <2>1. service = "up" /\ UNCHANGED <<platform, service, starts>>
    BY <1>3 DEF Recovery
  <2>2. CASE \E mode \in {"resume", "rollback", "cleanup"} : Recover(j, mode)
    BY <2>2, PublishedRecover
  <2>3. CASE rec.job = j /\ (Settle(j) \/ Unwind(j))
    BY <2>3, PublishedPublishes
  <2>4. CASE /\ rec.job = j
             /\ \/ Settled(j) \/ Unwound(j) \/ RemoveTarget(j) \/ RecCleanStage(j)
                \/ RecCleanJournal(j) \/ Requeue(j) \/ RollBack(j) \/ CleanupRecord(j)
                \/ CleanupStage(j) \/ CleanupJournal(j) \/ CleanupComplete(j) \/ Refuse(j)
    <3>1. rec.pc # "idle"
      BY <2>4 DEF Settled, Unwound, RemoveTarget, RecCleanStage, RecCleanJournal, Requeue,
           RollBack, CleanupRecord, CleanupStage, CleanupJournal, CleanupComplete, Refuse
    <3> QED
      BY <2>1, <2>4, <3>1, PublishedRecovers
  <2> QED
    BY <1>3, <2>2, <2>3, <2>4 DEF Recovery
<1> QED
  BY <1>1, <1>2, <1>3, PublishedRequests, PublishedProcesses, PublishedStart DEF Next

(* The third layer rests on the two others. *)
LEMMA PublishedHolds == Spec => []Published
  BY PublishedInit, PublishedNext, ControlHolds, PrivateHolds, PTL DEF Spec

(***************************************************************************)
(* A job has succeeded exactly when it published its destination, whatever *)
(* crashes, fails or is recovered in between.                              *)
(***************************************************************************)
THEOREM SuccessIsPublication == Spec => []SucceededIsPublished
<1>1. Published => SucceededIsPublished
  BY DEF Published
<1> QED
  BY <1>1, PublishedHolds, PTL

(***************************************************************************)
(* A job that is queued again finds nothing, or a whole publication.       *)
(***************************************************************************)
THEOREM ResumesDecided == Spec => []ResumeIsDecided
<1>1. Published => ResumeIsDecided
  BY DEF Published
<1> QED
  BY <1>1, PublishedHolds, PTL

(***************************************************************************)
(* What is visible is known to the row of the job that made it.            *)
(***************************************************************************)
THEOREM VisibleAuthorized == Spec => []VisibleIsAuthorized
<1>1. Control /\ Published => VisibleIsAuthorized
  <2> SUFFICES ASSUME Control, Published, NEW j \in Publishing, out[GrantOf[j]].target = j
               PROVE  /\ grant[GrantOf[j]].by = j
                      /\ grant[GrantOf[j]].state = "published"
                            \/ Auth(GrantOf[j]) \in {"staged", "verified"}
    BY DEF VisibleIsAuthorized
  <2>1. GrantOf[j] \in Grants /\ j # NoJob
    BY CreationAssumption
  <2>2. CASE grant[GrantOf[j]].state = "published"
    BY <2>1, <2>2 DEF Published, DestinationOK
  <2>3. CASE grant[GrantOf[j]].state # "published"
    <3>1. Described(GrantOf[j]) /\ Auth(GrantOf[j]) \in Authorities
      BY <2>1, <2>3 DEF Published, DestinationOK, Control, TypeOK, GrantRows, Auth
    <3> QED
      BY <2>1, <3>1 DEF Described, Authorities
  <2> QED
    BY <2>2, <2>3
<1> QED
  BY <1>1, ControlHolds, PublishedHolds, PTL

(***************************************************************************)
(* A grant nobody has reserved names a clean destination.                  *)
(***************************************************************************)
THEOREM FreeIsClean == Spec => []FreeGrantIsClean
<1>1. Published => FreeGrantIsClean
  <2> SUFFICES ASSUME Published, NEW g \in Grants, grant[g].state \in {"ready", "revoked"}
               PROVE  grant[g].by = NoJob /\ Auth(g) = "none" /\ Clear(g)
    BY DEF FreeGrantIsClean
  <2>1. grant[g].by = NoJob /\ Auth(g) = "none" /\ Described(g)
    BY DEF Published, GrantOK, DestinationOK
  <2> QED
    BY <2>1 DEF Described, Clear, Absent
<1> QED
  BY <1>1, PublishedHolds, PTL

=============================================================================
