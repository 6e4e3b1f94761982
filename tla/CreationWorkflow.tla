-------------------------- MODULE CreationWorkflow --------------------------
(***************************************************************************)
(* The phase workflow of one creation project (creation_workflow.py) and   *)
(* the record the studio service keeps of it (creation_workspaces.py).     *)
(*                                                                         *)
(* The project's files are edited by programs that know nothing of the     *)
(* workflow.  Command-line operators and the service complete, reopen and  *)
(* reconcile phases, one at a time under the world lifecycle lock, each on *)
(* behalf of somebody who names the status it saw.  The service also scans *)
(* files it does not lock and records what it found.                       *)
(*                                                                         *)
(* A content hash is the content: a status is named by itself, a document  *)
(* by the snapshot it belongs to.                                          *)
(***************************************************************************)
EXTENDS Integers, Sequences, FiniteSets

CONSTANTS
    Parts,         \* documents of a project
    Snapshots,     \* coherent states of the project's files
    First,         \* the one the project was created with
    Builds,        \* versions of the one artifact reports may depend on
    BuildsOf,      \* BuildsOf[s]: those built from snapshot s
    NoBuild,       \* no artifact
    LastPhase,     \* phases are 1..LastPhase
    BuildPhases,   \* those whose report is about the artifact
    Operators,     \* command-line processes
    Studio,        \* the service process
    NoProcess,     \* a lock nobody holds
    NoRequest,     \* nothing is asked
    MaxRevision,   \* bound on status revisions
    MaxServed,     \* bound on the revisions at which the service begins anything
    MaxGeneration, \* bound on the changes the service records
    MaxRemoved     \* bound on the reports that get lost

ASSUME WorkflowAssumption ==
    /\ First \in Snapshots
    /\ NoBuild \notin Builds
    /\ BuildsOf \in [Snapshots -> SUBSET Builds]
    /\ LastPhase \in Nat \ {0}
    /\ BuildPhases \subseteq 1..LastPhase
    /\ Studio \notin Operators
    /\ NoProcess \notin Operators \cup {Studio}
    /\ MaxRevision \in Nat
    /\ MaxServed \in Nat
    /\ MaxGeneration \in Nat
    /\ MaxRemoved \in Nat

VARIABLES
    src,        \* the project's files
    status,     \* .worldforge/status.json
    history,    \* .worldforge/artifact_history: archived documents
    published,  \* .worldforge/phase_reports
    removed,    \* reports somebody deleted there
    lock,       \* holder of the lifecycle lock
    pc,         \* pc[p]: where p's call stands
    req,        \* req[p]: the call and the status it is about to publish
    row,        \* the service's record of the workspace
    scan        \* what the service's current scan has read so far

disk == <<src, status, history, published, removed>>
vars == <<disk, lock, pc, req, row, scan>>

Processes == Operators \cup {Studio}

-----------------------------------------------------------------------------
(* Documents, reports, statuses                                             *)

(* _creation_documents: what load_creation_project reads *)
SourceDocs(s) == Parts \X {s}

BuildDocs(s, b) == IF b = NoBuild THEN {} ELSE {<<b, s>>}

Documents == (UNION {SourceDocs(s) : s \in Snapshots})
                 \cup (UNION {BuildDocs(s, b) : s \in Snapshots, b \in Builds})

(* A report names the snapshot it reviewed and, if it used it, the artifact. *)
Reports == [phase : 1..LastPhase, snap : Snapshots, build : Builds \cup {NoBuild}]

(* What a report depends on: the closure of its invalidation_dependencies *)
Closure(r) == SourceDocs(r.snap) \cup BuildDocs(r.snap, r.build)

Status == [snap : Snapshots, reports : Seq(Reports), revision : Nat,
           invalidated : SUBSET [report : Reports, revision : Nat]]

(* initial_creation_workflow_status *)
InitialStatus == [snap |-> First, reports |-> <<>>, revision |-> 0, invalidated |-> {}]

Listed(s) == {s.reports[i] : i \in DOMAIN s.reports}

(* Mutant: the first report that goes is not listed. *)
DiscardedTail(s, kept) ==
    {[report |-> s.reports[i], revision |-> s.revision + 1] : i \in (kept + 2)..Len(s.reports)}

(* _invalidated_entry for each report of a status after the first kept *)
Discarded(s, kept) ==
    {[report |-> s.reports[i], revision |-> s.revision + 1] : i \in (kept + 1)..Len(s.reports)}

(* A status that keeps only the first reports of s, now for a snapshot *)
Cut(s, kept, snap) ==
    [snap        |-> snap,
     reports     |-> SubSeq(s.reports, 1, kept),
     revision    |-> s.revision + 1,
     invalidated |-> s.invalidated \cup Discarded(s, kept)]

(* The next status of complete_creation_phase_inline_locked *)
Completed(s, r) ==
    [snap        |-> s.snap,
     reports     |-> Append(s.reports, r),
     revision    |-> s.revision + 1,
     invalidated |-> s.invalidated]

(* The next status of reopen_creation_phase_locked *)
Reopened(s, phase) == Cut(s, phase - 1, s.snap)

(* _validate_report_reference finds nothing wrong, for a project at snap. *)
InPlace(r, snap) ==
    /\ r \in published
    /\ r.snap = snap
    /\ BuildDocs(r.snap, r.build) \subseteq history

(* Mutant: a report passes for whatever snapshot it was written about. *)
PrefixOfAnySnapshot(s, snap) == \A r \in Listed(s) : InPlace(r, r.snap)

(* _require_valid_report_prefix *)
ValidPrefix(s, snap) == \A r \in Listed(s) : InPlace(r, snap)

(* A dependency of r differs from what reconciliation was handed.  An       *)
(* artifact nobody handed over is not compared.                             *)
Stale(r, snap, build) ==
    \/ r.snap # snap
    \/ build # NoBuild /\ r.build # NoBuild /\ r.build # build

(* The reports _reconcile_creation_workflow objects to.  Dependencies are  *)
(* compared only if every report is in place for the recorded snapshot.    *)
Objectionable(s, snap, build) ==
    LET broken == {i \in DOMAIN s.reports : ~InPlace(s.reports[i], s.snap)}
    IN  IF broken # {} THEN broken
        ELSE {i \in DOMAIN s.reports : Stale(s.reports[i], snap, build)}

(* The first k reports stay: the first one objected to goes, with all that  *)
(* follow.                                                                  *)
Keeps(k, s, snap, build) ==
    /\ k \in 0..Len(s.reports)
    /\ \A i \in 1..k : i \notin Objectionable(s, snap, build)
    /\ k < Len(s.reports) => k + 1 \in Objectionable(s, snap, build)

(* _reconcile_creation_workflow returns the status as it is. *)
NothingToReconcile(s, snap, build) == Objectionable(s, snap, build) = {} /\ s.snap = snap

(* _load_recorded_project: the recorded snapshot is the current one, or all *)
(* of it is archived.                                                       *)
Loadable(s, snap) == s.snap = snap \/ SourceDocs(s.snap) \subseteq history

-----------------------------------------------------------------------------
(* Requests                                                                 *)

Calls == {"complete", "reopen", "reconcile"}

(* A request says which status its caller named (expected), what the report *)
(* or artifact is about, and, once loaded, the status found and the one to  *)
(* publish (base, next).  The report of a completion:                       *)
ReportOf(r) == [phase |-> r.phase, snap |-> r.snap, build |-> r.build]

Requests ==
    [call : Calls, expected : Status, snap : Snapshots, phase : 1..LastPhase,
     build : Builds \cup {NoBuild}, generation : Nat, base : Status, next : Status]

Steps == {"idle", "load", "archive", "write", "scan"}

NoScan == [reads |-> 0, snap |-> First, status |-> InitialStatus,
           before |-> FALSE, together |-> FALSE]

(* What p archives before it publishes anything *)
ToArchive(p) == SourceDocs(req[p].next.snap) \cup BuildDocs(req[p].next.snap, req[p].build)

Unlocked(p) == IF lock = p THEN NoProcess ELSE lock

(* _validate_creation_workflow_status_shape: reports cover a prefix of the   *)
(* phases, invalidations belong to revisions so far.                        *)
WellFormed(s) ==
    /\ s \in Status
    /\ \A i \in DOMAIN s.reports : s.reports[i].phase = i
    /\ \A e \in s.invalidated : e.revision \in 1..s.revision

TypeOK ==
    /\ src \in Snapshots
    /\ WellFormed(status)
    /\ history \subseteq Documents
    /\ published \subseteq Reports
    /\ removed \subseteq Reports
    /\ lock \in Processes \cup {NoProcess}
    /\ pc \in [Processes -> Steps]
    /\ req \in [Processes -> Requests \cup {NoRequest}]
    /\ \A p \in Processes : pc[p] \in {"load", "archive", "write"} => req[p] \in Requests
    /\ row \in [snap : Snapshots, status : Status, generation : Nat]
    /\ scan \in [reads : 0..4, snap : Snapshots, status : Status,
                before : BOOLEAN, together : BOOLEAN]

-----------------------------------------------------------------------------
(* _generic_documents: a scaffold seeds the archive with its documents, and *)
(* the workspace is registered as it was created.                           *)
Init ==
    /\ src = First
    /\ status = InitialStatus
    /\ history = SourceDocs(First)
    /\ published = {}
    /\ removed = {}
    /\ lock = NoProcess
    /\ pc = [p \in Processes |-> "idle"]
    /\ req = [p \in Processes |-> NoRequest]
    /\ row = [snap |-> First, status |-> InitialStatus, generation |-> 0]
    /\ scan = NoScan

-----------------------------------------------------------------------------
(* The files                                                                *)

(* An editor changes the files; nothing stops it.  Files caught halfway do   *)
(* not match each other's hashes, and whoever loads them fails (Abandon).   *)
Edit ==
    \E s \in Snapshots \ {src} :
        /\ src' = s
        /\ UNCHANGED <<status, history, published, removed, lock, pc, req, row, scan>>

(* A report of the status is deleted behind the program's back.             *)
LoseReport ==
    \E r \in published \cap Listed(status) :
        /\ Cardinality(removed) < MaxRemoved
        /\ published' = published \ {r}
        /\ removed' = removed \cup {r}
        /\ UNCHANGED <<src, status, history, lock, pc, req, row, scan>>

-----------------------------------------------------------------------------
(* Calls                                                                    *)

(* The role of a phase fixes what its report is about (_PHASE_ROLE_FORMATS); *)
(* only reconcile may be handed the artifact or not.                        *)
Sensible(call, phase, build) ==
    /\ call = "complete" => (build # NoBuild <=> phase \in BuildPhases)
    /\ call = "reopen" => build = NoBuild
    /\ call = "reconcile" => phase = 1

(* An operator prepares a call: it names the status it sees now, and the    *)
(* report or artifact it brings is for the files as they are now.           *)
Ask(p) ==
    /\ p \in Operators
    /\ pc[p] = "idle"
    /\ req[p] = NoRequest
    /\ status.revision < MaxRevision
    /\ \E call \in Calls, phase \in 1..LastPhase, build \in BuildsOf[src] \cup {NoBuild} :
          /\ Sensible(call, phase, build)
          /\ req' = [req EXCEPT ![p] =
                 [call |-> call, expected |-> status, snap |-> src, phase |-> phase,
                  build |-> build, generation |-> 0, base |-> status, next |-> status]]
    /\ UNCHANGED <<disk, lock, pc, row, scan>>

(* exclusive_world_lifecycle does not wait: a busy lock ends the call       *)
(* (Abandon).                                                               *)
Acquire(p) ==
    /\ p \in Operators
    /\ pc[p] = "idle"
    /\ req[p] # NoRequest
    /\ lock = NoProcess
    /\ lock' = p
    /\ pc' = [pc EXCEPT ![p] = "load"]
    /\ UNCHANGED <<disk, req, row, scan>>

(* A client of the service names what the service last told it.  The        *)
(* service serves one call at a time: it takes the lock and scans the       *)
(* workspace before it acts.                                                *)
AcquireStudio ==
    /\ pc[Studio] = "idle"
    /\ lock = NoProcess
    /\ row.status.revision < MaxRevision
    /\ status.revision < MaxServed
    /\ \E call \in Calls, phase \in 1..LastPhase, build \in BuildsOf[row.snap] \cup {NoBuild} :
          /\ Sensible(call, phase, build)
          /\ req' = [req EXCEPT ![Studio] =
                 [call |-> call, expected |-> row.status, snap |-> row.snap, phase |-> phase,
                  build |-> build, generation |-> row.generation,
                  base |-> row.status, next |-> row.status]]
    /\ lock' = Studio
    /\ pc' = [pc EXCEPT ![Studio] = "scan"]
    /\ scan' = [NoScan EXCEPT !.before = TRUE]
    /\ UNCHANGED <<disk, row>>

(* A call that has nothing (more) to write returns; the service scans the   *)
(* workspace once more first, still under the lock.                         *)
Return(p) ==
    IF p = Studio
    THEN /\ pc' = [pc EXCEPT ![p] = "scan"]
         /\ scan' = NoScan
         /\ UNCHANGED <<lock, req>>
    ELSE /\ pc' = [pc EXCEPT ![p] = "idle"]
         /\ req' = [req EXCEPT ![p] = NoRequest]
         /\ lock' = NoProcess
         /\ UNCHANGED scan

(* The status a call found valid will be followed by another one. *)
Proceed(p, step, next) ==
    /\ pc' = [pc EXCEPT ![p] = step]
    /\ req' = [req EXCEPT ![p].base = status, ![p].next = next]
    /\ UNCHANGED <<lock, scan>>

(* _load_project_and_status, _require_expected_status and                   *)
(* _require_valid_report_prefix all pass.                                   *)
LoadsValid(p) ==
    /\ status = req[p].expected
    /\ status.snap = src
    /\ ValidPrefix(status, src)

(* Mutant: a report for a later phase is taken too. *)
LoadCompleteLater(p) ==
    /\ pc[p] = "load"
    /\ req[p].call = "complete"
    /\ LoadsValid(p)
    /\ req[p].snap = src
    /\ req[p].phase > Len(status.reports)
    /\ Proceed(p, "archive", Completed(status, ReportOf(req[p])))
    /\ UNCHANGED <<disk, row>>

(* complete_creation_phase_inline_locked up to its first write: a report    *)
(* for the loaded project and the current phase, or one already recorded.   *)
LoadComplete(p) ==
    /\ pc[p] = "load"
    /\ req[p].call = "complete"
    /\ LoadsValid(p)
    /\ req[p].snap = src
    /\ \/ /\ req[p].phase = Len(status.reports) + 1
          /\ Proceed(p, "archive", Completed(status, ReportOf(req[p])))
       \/ /\ req[p].phase <= Len(status.reports)
          /\ status.reports[req[p].phase] = ReportOf(req[p])
          /\ Return(p)
    /\ UNCHANGED <<disk, row>>

(* reopen_creation_phase_locked up to its write *)
LoadReopen(p) ==
    /\ pc[p] = "load"
    /\ req[p].call = "reopen"
    /\ LoadsValid(p)
    /\ req[p].phase <= Len(status.reports)
    /\ Proceed(p, "write", Reopened(status, req[p].phase))
    /\ UNCHANGED <<disk, row>>

(* _reconcile_creation_workflow up to its first write.  The artifact must   *)
(* validate against the project that was loaded.                            *)
LoadReconcile(p) ==
    /\ pc[p] = "load"
    /\ req[p].call = "reconcile"
    /\ status = req[p].expected
    /\ Loadable(status, src)
    /\ req[p].build = NoBuild \/ req[p].snap = src
    /\ \/ /\ NothingToReconcile(status, src, req[p].build)
          /\ Return(p)
       \/ /\ ~NothingToReconcile(status, src, req[p].build)
          /\ \E k \in 0..LastPhase :
                /\ Keeps(k, status, src, req[p].build)
                /\ Proceed(p, "archive", Cut(status, k, src))
    /\ UNCHANGED <<disk, row>>

(* _publish_artifact_history: one new file per document, present ones stay. *)
Archive(p) ==
    /\ pc[p] = "archive"
    /\ \E d \in ToArchive(p) \ history : history' = history \cup {d}
    /\ UNCHANGED <<src, status, published, removed, lock, pc, req, row, scan>>

(* Mutant: the report is published before its documents are archived. *)
EndArchiveEarly(p) ==
    /\ pc[p] = "archive"
    /\ published' = published \cup {ReportOf(req[p])}
    /\ pc' = [pc EXCEPT ![p] = "write"]
    /\ UNCHANGED <<src, status, history, removed, lock, req, row, scan>>

(* Everything is archived.  A completion publishes its report               *)
(* (_publish_report; one that is there already is left alone).              *)
EndArchive(p) ==
    /\ pc[p] = "archive"
    /\ ToArchive(p) \subseteq history
    /\ published' = IF req[p].call = "complete"
                    THEN published \cup {ReportOf(req[p])} ELSE published
    /\ pc' = [pc EXCEPT ![p] = "write"]
    /\ UNCHANGED <<src, status, history, removed, lock, req, row, scan>>

(* _write_status: replaces the file only if it still holds the status the   *)
(* call started from.                                                       *)
WriteStatus(p) ==
    /\ pc[p] = "write"
    /\ status = req[p].base
    /\ status' = req[p].next
    /\ Return(p)
    /\ UNCHANGED <<src, history, published, removed, row>>

(* The process is killed, or the call raises: a check above fails, the lock *)
(* is busy, a file cannot be written, or was written but not synced.  The   *)
(* lock is released either way; files already written stay.                 *)
Abandon(p) ==
    /\ pc[p] # "idle" \/ req[p] # NoRequest
    /\ pc' = [pc EXCEPT ![p] = "idle"]
    /\ req' = [req EXCEPT ![p] = NoRequest]
    /\ lock' = Unlocked(p)
    /\ scan' = IF p = Studio THEN NoScan ELSE scan
    /\ UNCHANGED <<disk, row>>

-----------------------------------------------------------------------------
(* The service's record: _refresh_snapshot                                  *)

(* creation.open, creation.workflow: a scan that holds no lock *)
Open ==
    /\ pc[Studio] = "idle"
    /\ row.generation < MaxGeneration
    /\ status.revision < MaxServed
    /\ pc' = [pc EXCEPT ![Studio] = "scan"]
    /\ scan' = NoScan
    /\ UNCHANGED <<disk, lock, req, row>>

Scanning == pc[Studio] = "scan"

(* Mutant: the files are not read a second time. *)
ScanSourceOnce ==
    /\ Scanning
    /\ \/ /\ scan.reads = 0
          /\ scan' = [scan EXCEPT !.reads = 1, !.snap = src]
       \/ /\ scan.reads = 2
          /\ scan' = [scan EXCEPT !.reads = 3,
                                  !.together = (status = scan.status /\ src = scan.snap)]
    /\ UNCHANGED <<disk, lock, pc, req, row>>

(* _source_snapshot: the first and the third read of a scan.  "together"    *)
(* notes that both values were on disk at that moment.                      *)
ScanSource ==
    /\ Scanning
    /\ \/ /\ scan.reads = 0
          /\ scan' = [scan EXCEPT !.reads = 1, !.snap = src]
       \/ /\ scan.reads = 2
          /\ src = scan.snap
          /\ scan' = [scan EXCEPT !.reads = 3, !.together = (status = scan.status)]
    /\ UNCHANGED <<disk, lock, pc, req, row>>

(* _workflow_snapshot: the second and the fourth *)
ScanStatus ==
    /\ Scanning
    /\ \/ /\ scan.reads = 1
          /\ scan' = [scan EXCEPT !.reads = 2, !.status = status]
       \/ /\ scan.reads = 3
          /\ status = scan.status
          /\ scan' = [scan EXCEPT !.reads = 4]
    /\ UNCHANGED <<disk, lock, pc, req, row>>

(* The second read of either differs from the first: the scan starts again. *)
(* The third time it gives up (Abandon).                                    *)
ScanAgain ==
    /\ Scanning
    /\ \/ scan.reads = 2 /\ src # scan.snap
       \/ scan.reads = 3 /\ status # scan.status
    /\ scan' = [NoScan EXCEPT !.before = scan.before]
    /\ UNCHANGED <<disk, lock, pc, req, row>>

(* Two reads of each agree.  The record follows if it differs: the          *)
(* generation moves with every change.  Only then the program reads         *)
(* everything twice more inside its transaction, which this leaves out: it  *)
(* could only refuse more.                                                  *)
ScanEnds ==
    /\ Scanning
    /\ scan.reads = 4
    /\ row' = IF scan.snap = row.snap /\ scan.status = row.status THEN row
              ELSE [snap |-> scan.snap, status |-> scan.status,
                    generation |-> row.generation + 1]
    /\ row'.generation <= MaxGeneration
    /\ scan' = NoScan

(* _authorized_workflow_action: the call goes on if the record is still the *)
(* one its client named.                                                    *)
Authorize ==
    /\ scan.before
    /\ ScanEnds
    /\ row'.generation = req[Studio].generation
    /\ row'.snap = req[Studio].snap
    /\ row'.status = req[Studio].expected
    /\ pc' = [pc EXCEPT ![Studio] = "load"]
    /\ UNCHANGED <<disk, lock, req>>

(* The scan after a call, of a call whose client named another record, or   *)
(* of one that only reads                                                   *)
Refreshed ==
    /\ ScanEnds
    /\ scan.before => \/ row'.generation # req[Studio].generation
                      \/ row'.snap # req[Studio].snap
                      \/ row'.status # req[Studio].expected
    /\ pc' = [pc EXCEPT ![Studio] = "idle"]
    /\ req' = [req EXCEPT ![Studio] = NoRequest]
    /\ lock' = Unlocked(Studio)
    /\ UNCHANGED disk

Call(p) ==
    \/ Ask(p) \/ Acquire(p) \/ Abandon(p)
    \/ LoadComplete(p) \/ LoadReopen(p) \/ LoadReconcile(p)
    \/ Archive(p) \/ EndArchive(p) \/ WriteStatus(p)

Next ==
    \/ Edit \/ LoseReport
    \/ \E p \in Processes : Call(p)
    \/ AcquireStudio \/ Open \/ ScanSource \/ ScanStatus \/ ScanAgain \/ Authorize \/ Refreshed

Spec == Init /\ [][Next]_vars

-----------------------------------------------------------------------------
(* Properties                                                               *)

(* Whatever the status names can be found again: the snapshot it records    *)
(* and everything its reports depend on are archived, and each report was   *)
(* published.  Without the archive _load_recorded_project could not accept  *)
(* the next edit and the project would be stuck; a call may die between any *)
(* two of its files (creation_workflow.py:718-741, 1035-1036).              *)
HistoryIsClosed ==
    /\ SourceDocs(status.snap) \subseteq history
    /\ \A r \in Listed(status) :
          /\ Closure(r) \subseteq history
          /\ r \in published \cup removed

(* What the service records of a workspace, files and status, was on disk   *)
(* at the same time, although _refresh_snapshot reads them one after the    *)
(* other while editors and operators go on (creation_workspaces.py:1937).   *)
RecordedTogether == [][row' # row => scan.together]_vars

(* The status moves one revision at a time, only for the caller that holds  *)
(* the lock and named the status it replaces, and a report that leaves it   *)
(* is listed as invalidated by that very revision; none is forgotten.       *)
StatusAdvances ==
    [][status' # status =>
          /\ lock # NoProcess
          /\ req[lock].expected = status
          /\ status'.revision = status.revision + 1
          /\ status.invalidated \subseteq status'.invalidated
          /\ \A r \in Listed(status) \ Listed(status') :
                [report |-> r, revision |-> status'.revision] \in status'.invalidated]_vars

(* A phase is completed only on top of reports for the same snapshot of the *)
(* project, although a reconciliation that found a report missing leaves    *)
(* earlier ones about other files (_require_valid_report_prefix).           *)
CompletionIsCoherent ==
    [][Len(status'.reports) > Len(status.reports) =>
          \A r \in Listed(status') : r.snap = status'.snap]_vars

(* docs/MULTI_GENRE_ARCHITECTURE.md:390 of reconciliation: it "validates    *)
(* recorded and current identities".  Every report a status keeps was       *)
(* reviewed against the snapshot the status records.                        *)
ReportsMatchSnapshot == \A r \in Listed(status) : r.snap = status.snap
=============================================================================
