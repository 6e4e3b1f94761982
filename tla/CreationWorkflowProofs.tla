----------------------- MODULE CreationWorkflowProofs -----------------------
(***************************************************************************)
(* Proofs about CreationWorkflow, for all projects, operators and bounds.  *)
(*                                                                         *)
(* The invariant says of a call between its checks and its last write that *)
(* the status it will publish follows from the one it loaded (Follows) and *)
(* that everything this status names is on disk before it is written; and  *)
(* of a scan that a status it has read is the present one or an older one. *)
(***************************************************************************)
EXTENDS CreationWorkflow, TLAPS

(* p is between taking the lifecycle lock and its last write. *)
Holding(p) ==
    \/ pc[p] \in {"load", "archive", "write"}
    \/ p = Studio /\ pc[p] = "scan" /\ scan.before

HoldersHoldLock == \A p \in Processes : Holding(p) => lock = p

(* A client's request stays while its call is authorised. *)
AuthorizedHasRequest ==
    pc[Studio] = "scan" /\ scan.before => req[Studio] \in Requests

(* What a status may be followed by, whatever the call *)
Advances(old, new) ==
    /\ new.revision = old.revision + 1
    /\ old.invalidated \subseteq new.invalidated
    /\ \A r \in Listed(old) \ Listed(new) :
          [report |-> r, revision |-> new.revision] \in new.invalidated
    /\ Len(new.reports) > Len(old.reports) => \A r \in Listed(new) : r.snap = new.snap

(* What a request is about to publish *)
Follows(r) ==
    /\ r.base = r.expected
    /\ WellFormed(r.next)
    /\ Advances(r.base, r.next)
    /\ \A x \in Listed(r.next) :
          x \in Listed(r.base) \/ (r.call = "complete" /\ x = ReportOf(r))
    /\ r.call = "reopen" => r.next.snap = r.base.snap
    /\ r.call = "complete" => r.next.snap = r.snap

PlansFollow == \A p \in Processes : pc[p] \in {"archive", "write"} => Follows(req[p])

(* Nothing is written that names something not yet on disk. *)
WritesAreClosed ==
    \A p \in Processes :
        pc[p] = "write" =>
            /\ req[p].call # "reopen" => ToArchive(p) \subseteq history
            /\ req[p].call = "complete" => ReportOf(req[p]) \in published \cup removed

(* The status a scan has read is the present one, or an older one. *)
ScansLookBack ==
    /\ scan.reads >= 2 => \/ scan.status = status
                          \/ scan.status.revision < status.revision
    /\ scan.reads >= 3 /\ ~scan.together => scan.status.revision < status.revision
    /\ scan.reads = 4 => scan.together

Inv ==
    /\ TypeOK
    /\ HoldersHoldLock
    /\ AuthorizedHasRequest
    /\ PlansFollow
    /\ WritesAreClosed
    /\ HistoryIsClosed
    /\ ScansLookBack

-----------------------------------------------------------------------------
(* Statuses                                                                 *)

LEMMA InitialIsWellFormed == WellFormed(InitialStatus) /\ InitialStatus \in Status
BY WorkflowAssumption DEF WellFormed, InitialStatus, Status

(* What is cut off a status is listed in the one that follows. *)
LEMMA CutFollows ==
    ASSUME NEW s, WellFormed(s), NEW k \in 0..Len(s.reports), NEW snap \in Snapshots
    PROVE  /\ WellFormed(Cut(s, k, snap))
           /\ Advances(s, Cut(s, k, snap))
           /\ Listed(Cut(s, k, snap)) \subseteq Listed(s)
           /\ Cut(s, k, snap).snap = snap
<1> DEFINE c == Cut(s, k, snap)
<1>1. /\ s.reports \in Seq(Reports) /\ s.revision \in Nat /\ s.snap \in Snapshots
      /\ s.invalidated \subseteq [report : Reports, revision : Nat]
  BY DEF WellFormed, Status
<1>2. /\ c.reports \in Seq(Reports) /\ Len(c.reports) = k /\ DOMAIN c.reports = 1..k
      /\ \A i \in 1..k : c.reports[i] = s.reports[i]
  BY <1>1 DEF Cut
<1>3. DOMAIN s.reports = 1..Len(s.reports) /\ Len(s.reports) \in Nat
  BY <1>1
<1>4. c.revision = s.revision + 1 /\ c.snap = snap
      /\ c.invalidated = s.invalidated \cup Discarded(s, k)
  BY DEF Cut
<1>5. \A i \in (k + 1)..Len(s.reports) : s.reports[i] \in Reports
  BY <1>1, <1>3
<1>6. Discarded(s, k) \subseteq [report : Reports, revision : Nat]
  BY <1>1, <1>5 DEF Discarded
<1>7. WellFormed(c)
  <2>1. c \in Status
    BY <1>1, <1>2, <1>4, <1>6 DEF Status, Cut
  <2>2. \A i \in DOMAIN c.reports : c.reports[i].phase = i
    BY <1>2, <1>3 DEF WellFormed
  <2>3. \A e \in c.invalidated : e.revision \in 1..c.revision
    <3>1. \A e \in s.invalidated : e.revision \in 1..c.revision
      BY <1>1, <1>4 DEF WellFormed
    <3>2. \A e \in Discarded(s, k) : e.revision = c.revision
      BY <1>4 DEF Discarded
    <3> QED BY <1>1, <1>4, <3>1, <3>2
  <2> QED BY <2>1, <2>2, <2>3 DEF WellFormed
<1>8. Listed(c) \subseteq Listed(s)
  BY <1>2, <1>3 DEF Listed
<1>9. Advances(s, c)
  <2>1. \A r \in Listed(s) \ Listed(c) :
           [report |-> r, revision |-> c.revision] \in c.invalidated
    <3> SUFFICES ASSUME NEW r \in Listed(s) \ Listed(c)
                 PROVE  [report |-> r, revision |-> c.revision] \in c.invalidated
      OBVIOUS
    <3>1. PICK i \in 1..Len(s.reports) : r = s.reports[i]
      BY <1>3 DEF Listed
    <3>2. i \notin 1..k
      BY <1>2, <3>1 DEF Listed
    <3>3. i \in (k + 1)..Len(s.reports)
      BY <1>3, <3>2
    <3> QED BY <1>4, <3>1, <3>3 DEF Discarded
  <2>2. ~(Len(c.reports) > Len(s.reports))
    BY <1>2, <1>3
  <2> QED BY <1>4, <2>1, <2>2 DEF Advances
<1> QED BY <1>4, <1>7, <1>8, <1>9

(* A completed phase adds one report and takes none away. *)
LEMMA CompletedFollows ==
    ASSUME NEW s, WellFormed(s), NEW r \in Reports, r.phase = Len(s.reports) + 1,
           r.snap = s.snap, \A x \in Listed(s) : x.snap = s.snap
    PROVE  /\ WellFormed(Completed(s, r))
           /\ Advances(s, Completed(s, r))
           /\ \A x \in Listed(Completed(s, r)) : x \in Listed(s) \/ x = r
           /\ Completed(s, r).snap = s.snap
<1> DEFINE c == Completed(s, r)
<1>1. /\ s \in Status /\ s.reports \in Seq(Reports) /\ s.revision \in Nat
      /\ s.invalidated \subseteq [report : Reports, revision : Nat]
  BY DEF WellFormed, Status
<1>2. /\ c.reports = Append(s.reports, r) /\ c.revision = s.revision + 1
      /\ c.snap = s.snap /\ c.invalidated = s.invalidated
  BY <1>1 DEF Completed, Status
<1>3. /\ c.reports \in Seq(Reports) /\ Len(c.reports) = Len(s.reports) + 1
      /\ DOMAIN c.reports = 1..(Len(s.reports) + 1)
      /\ DOMAIN s.reports = 1..Len(s.reports) /\ Len(s.reports) \in Nat
      /\ c.reports[Len(s.reports) + 1] = r
      /\ \A i \in 1..Len(s.reports) : c.reports[i] = s.reports[i]
  BY <1>1, <1>2
<1>4. \A x \in Listed(c) : x \in Listed(s) \/ x = r
  BY <1>3 DEF Listed
<1>5. Listed(s) \subseteq Listed(c)
  BY <1>3 DEF Listed
<1>6. WellFormed(c)
  <2>1. c \in Status
    BY <1>1, <1>2, <1>3 DEF Status, Completed
  <2>2. \A i \in DOMAIN c.reports : c.reports[i].phase = i
    BY <1>3 DEF WellFormed
  <2>3. \A e \in c.invalidated : e.revision \in 1..c.revision
    BY <1>1, <1>2 DEF WellFormed
  <2> QED BY <2>1, <2>2, <2>3 DEF WellFormed
<1>7. Advances(s, c)
  BY <1>2, <1>4, <1>5 DEF Advances
<1> QED BY <1>2, <1>4, <1>6, <1>7

-----------------------------------------------------------------------------
(* Requests                                                                 *)

LEMMA ProcessFacts ==
    /\ NoProcess \notin Processes
    /\ Studio \in Processes
    /\ Operators \subseteq Processes
BY WorkflowAssumption DEF Processes

(* What the report of a request is *)
LEMMA ReportOfRequest ==
    ASSUME NEW r \in Requests
    PROVE  /\ ReportOf(r) \in Reports
           /\ ReportOf(r).phase = r.phase
           /\ ReportOf(r).snap = r.snap
           /\ Closure(ReportOf(r)) = SourceDocs(r.snap) \cup BuildDocs(r.snap, r.build)
BY DEF ReportOf, Requests, Reports, Closure

(* The documents of a snapshot are documents. *)
LEMMA DocumentFacts ==
    ASSUME NEW s \in Snapshots, NEW b \in Builds \cup {NoBuild}
    PROVE  /\ SourceDocs(s) \subseteq Documents
           /\ BuildDocs(s, b) \subseteq Documents
<1>1. SourceDocs(s) \subseteq Documents
  BY DEF Documents
<1>2. CASE b = NoBuild
  BY <1>1, <1>2 DEF BuildDocs
<1>3. CASE b # NoBuild
  <2>1. BuildDocs(s, b) \in {BuildDocs(t, c) : t \in Snapshots, c \in Builds}
    BY <1>3
  <2> DEFINE all == {BuildDocs(t, c) : t \in Snapshots, c \in Builds}
  <2>2. BuildDocs(s, b) \subseteq UNION all
    BY <2>1
  <2>3. UNION all \subseteq Documents
    BY DEF Documents
  <2> QED BY <1>1, <2>2, <2>3
<1> QED BY <1>2, <1>3

(* A call whose checks pass notes the status it found and the one to come. *)
LEMMA ProceedFacts ==
    ASSUME TypeOK, NEW p \in Processes, NEW step \in Steps, NEW next \in Status,
           req[p] \in Requests, Proceed(p, step, next)
    PROVE  /\ pc' = [pc EXCEPT ![p] = step]
           /\ pc' \in [Processes -> Steps]
           /\ req' \in [Processes -> Requests \cup {NoRequest}]
           /\ req'[p] \in Requests
           /\ req'[p].base = status
           /\ req'[p].next = next
           /\ req'[p].call = req[p].call
           /\ req'[p].expected = req[p].expected
           /\ req'[p].snap = req[p].snap
           /\ ReportOf(req'[p]) = ReportOf(req[p])
           /\ \A q \in Processes \ {p} : req'[q] = req[q] /\ pc'[q] = pc[q]
           /\ UNCHANGED <<lock, scan>>
<1> DEFINE r == [req[p] EXCEPT !.base = status, !.next = next]
<1>1. status \in Status
  BY DEF TypeOK, WellFormed
<1>2. /\ r \in Requests /\ r.base = status /\ r.next = next
      /\ r.call = req[p].call /\ r.expected = req[p].expected
      /\ r.snap = req[p].snap /\ r.phase = req[p].phase /\ r.build = req[p].build
  BY <1>1 DEF Requests
<1>3. req \in [Processes -> Requests \cup {NoRequest}] /\ pc \in [Processes -> Steps]
  BY DEF TypeOK
<1>4. req' = [req EXCEPT ![p] = r]
  BY <1>3 DEF Proceed
<1>5. ReportOf(r) = ReportOf(req[p])
  BY <1>2 DEF ReportOf
<1>6. req'[p] = r
  BY <1>3, <1>4
<1>7. pc' = [pc EXCEPT ![p] = step] /\ UNCHANGED <<lock, scan>>
  BY DEF Proceed
<1> HIDE DEF r
<1>8. /\ req' \in [Processes -> Requests \cup {NoRequest}]
      /\ \A q \in Processes \ {p} : req'[q] = req[q] /\ pc'[q] = pc[q]
      /\ pc' \in [Processes -> Steps]
  BY <1>2, <1>3, <1>4, <1>7
<1> QED BY <1>2, <1>5, <1>6, <1>7, <1>8

-----------------------------------------------------------------------------
(* The invariant                                                            *)

LEMMA InitInv == Init => Inv
<1> SUFFICES ASSUME Init PROVE Inv
  OBVIOUS
<1> USE WorkflowAssumption
<1>1. InitialStatus \in Status /\ WellFormed(InitialStatus)
  BY InitialIsWellFormed
<1>2. SourceDocs(First) \subseteq Documents
  BY DocumentFacts
<1>3. NoScan \in [reads : 0..4, snap : Snapshots, status : Status,
                before : BOOLEAN, together : BOOLEAN] /\ NoScan.reads = 0 /\ ~NoScan.before
  BY <1>1 DEF NoScan
<1>4. TypeOK
  BY <1>1, <1>2, <1>3 DEF Init, TypeOK, Steps
<1>5. \A p \in Processes : pc[p] = "idle" /\ ~Holding(p)
  BY <1>3, ProcessFacts DEF Init, Holding
<1>6. HoldersHoldLock /\ AuthorizedHasRequest /\ PlansFollow /\ WritesAreClosed
  BY <1>5, ProcessFacts DEF HoldersHoldLock, AuthorizedHasRequest, PlansFollow, WritesAreClosed
<1>7. Listed(InitialStatus) = {} /\ InitialStatus.snap = First
  BY DEF Listed, InitialStatus
<1>8. HistoryIsClosed
  BY <1>7 DEF Init, HistoryIsClosed
<1>9. ScansLookBack
  BY <1>3 DEF Init, ScansLookBack
<1> QED BY <1>4, <1>6, <1>8, <1>9 DEF Inv

(* A call that is left, done or not: its process is idle again and its lock *)
(* free.  The disk may have changed; PlansFollow and the like speak of the  *)
(* other processes only.                                                    *)
LEMMA LeftAlone ==
    ASSUME Inv, NEW p \in Processes,
           pc' = [pc EXCEPT ![p] = "idle"], req' = [req EXCEPT ![p] = NoRequest],
           lock' = Unlocked(p), p # Studio => UNCHANGED scan
    PROVE  /\ pc' \in [Processes -> Steps]
           /\ req' \in [Processes -> Requests \cup {NoRequest}]
           /\ lock' \in Processes \cup {NoProcess}
           /\ HoldersHoldLock'
           /\ AuthorizedHasRequest'
           /\ \A q \in Processes :
                 pc'[q] # "idle" => q # p /\ pc'[q] = pc[q] /\ req'[q] = req[q]
<1>1. /\ pc \in [Processes -> Steps] /\ req \in [Processes -> Requests \cup {NoRequest}]
      /\ lock \in Processes \cup {NoProcess}
  BY DEF Inv, TypeOK
<1>2. /\ pc' \in [Processes -> Steps] /\ req' \in [Processes -> Requests \cup {NoRequest}]
      /\ lock' \in Processes \cup {NoProcess} /\ pc'[p] = "idle"
      /\ \A q \in Processes \ {p} : pc'[q] = pc[q] /\ req'[q] = req[q]
  BY <1>1 DEF Steps, Unlocked
<1>3. \A q \in Processes : Holding(q)' => q # p /\ Holding(q)
  BY <1>2 DEF Holding
<1>4. HoldersHoldLock'
  <2> SUFFICES ASSUME NEW q \in Processes, Holding(q)' PROVE lock' = q
    BY DEF HoldersHoldLock
  <2> QED BY <1>3 DEF Inv, HoldersHoldLock, Unlocked
<1>5. AuthorizedHasRequest'
  BY <1>2, ProcessFacts DEF Inv, AuthorizedHasRequest
<1> QED BY <1>2, <1>4, <1>5

(* What a call returns to: the service scans once more under its lock. *)
LEMMA Returned ==
    ASSUME Inv, NEW p \in Processes, Holding(p), Return(p)
    PROVE  /\ pc' \in [Processes -> Steps]
           /\ req' \in [Processes -> Requests \cup {NoRequest}]
           /\ lock' \in Processes \cup {NoProcess}
           /\ scan' \in {scan, NoScan}
           /\ HoldersHoldLock'
           /\ AuthorizedHasRequest'
           /\ pc'[p] \in {"idle", "scan"}
           /\ \A q \in Processes \ {p} : pc'[q] = pc[q] /\ req'[q] = req[q]
<1>1. /\ pc \in [Processes -> Steps] /\ req \in [Processes -> Requests \cup {NoRequest}]
      /\ lock \in Processes \cup {NoProcess} /\ lock = p
  BY DEF Inv, TypeOK, HoldersHoldLock
<1>2. CASE p = Studio
  <2>1. /\ pc' = [pc EXCEPT ![p] = "scan"] /\ scan' = NoScan /\ lock' = lock /\ req' = req
        /\ ~NoScan.before
    BY <1>2 DEF Return, NoScan
  <2>2. \A q \in Processes : Holding(q)' => Holding(q)
    BY <1>1, <1>2, <2>1 DEF Holding
  <2>3. HoldersHoldLock' /\ AuthorizedHasRequest'
    BY <2>1, <2>2 DEF Inv, HoldersHoldLock, AuthorizedHasRequest
  <2> QED BY <1>1, <2>1, <2>3 DEF Steps
<1>3. CASE p # Studio
  <2>1. /\ pc' = [pc EXCEPT ![p] = "idle"] /\ req' = [req EXCEPT ![p] = NoRequest]
        /\ lock' = Unlocked(p) /\ scan' = scan
    BY <1>1, <1>3 DEF Return, Unlocked
  <2> QED BY <1>1, <2>1, LeftAlone
<1> QED BY <1>2, <1>3

(* A call whose checks pass keeps the invariant if what it will publish     *)
(* follows from what it found.                                              *)
LEMMA ProceedInv ==
    ASSUME Inv, NEW p \in Processes, NEW step \in {"archive", "write"}, NEW next \in Status,
           pc[p] = "load", Proceed(p, step, next), UNCHANGED <<disk, row>>,
           Follows(req'[p]), step = "write" => req[p].call = "reopen"
    PROVE  Inv'
<1>1. step \in Steps /\ req[p] \in Requests /\ TypeOK
  BY DEF Inv, TypeOK, Steps
<1>2. /\ pc' \in [Processes -> Steps] /\ pc'[p] = step
      /\ req' \in [Processes -> Requests \cup {NoRequest}] /\ req'[p] \in Requests
      /\ req'[p].call = req[p].call
      /\ \A q \in Processes \ {p} : req'[q] = req[q] /\ pc'[q] = pc[q]
      /\ UNCHANGED <<lock, scan>>
  <2>1. pc \in [Processes -> Steps]
    BY <1>1 DEF TypeOK
  <2> QED BY <1>1, <2>1, ProceedFacts
<1>3. UNCHANGED <<src, status, history, published, removed, row, lock, scan>>
  BY <1>2 DEF disk
<1>4. TypeOK'
  <2>1. \A q \in Processes : pc'[q] \in {"load", "archive", "write"} => req'[q] \in Requests
    BY <1>1, <1>2 DEF TypeOK
  <2>2. WellFormed(status)'
    BY <1>1, <1>3 DEF TypeOK, WellFormed
  <2> QED BY <1>1, <1>2, <1>3, <2>1, <2>2 DEF TypeOK
<1>5. HoldersHoldLock'
  <2>1. \A q \in Processes : Holding(q)' => Holding(q)
    BY <1>2, <1>3 DEF Holding
  <2> QED BY <1>3, <2>1 DEF Inv, HoldersHoldLock
<1>6. AuthorizedHasRequest'
  BY <1>1, <1>2, <1>3, ProcessFacts DEF Inv, AuthorizedHasRequest
<1>7. PlansFollow'
  <2> SUFFICES ASSUME NEW q \in Processes, pc'[q] \in {"archive", "write"}
               PROVE  Follows(req'[q])
    BY DEF PlansFollow, Follows, Advances, ReportOf, WellFormed, Listed
  <2>1. CASE q = p
    BY <2>1
  <2>2. CASE q # p
    BY <1>2, <2>2 DEF Inv, PlansFollow
  <2> QED BY <2>1, <2>2
<1>8. WritesAreClosed'
  <2> SUFFICES ASSUME NEW q \in Processes, pc'[q] = "write"
               PROVE  /\ req'[q].call # "reopen" => ToArchive(q)' \subseteq history
                      /\ req'[q].call = "complete" =>
                             ReportOf(req'[q]) \in published \cup removed
    BY <1>3 DEF WritesAreClosed, ReportOf
  <2>1. CASE q = p
    BY <1>2, <2>1
  <2>2. CASE q # p
    BY <1>2, <2>2 DEF Inv, WritesAreClosed, ToArchive
  <2> QED BY <2>1, <2>2
<1>9. HistoryIsClosed' /\ ScansLookBack'
  BY <1>3 DEF Inv, HistoryIsClosed, ScansLookBack, Listed, Closure
<1> QED BY <1>4, <1>5, <1>6, <1>7, <1>8, <1>9 DEF Inv

(* An action that leaves processes, requests and the status alone, or only  *)
(* ends a call, needs no more than this of the disk.                        *)
LEMMA OthersPlans ==
    ASSUME Inv, history \subseteq history',
           published \cup removed \subseteq published' \cup removed',
           \A q \in Processes :
               pc'[q] \in {"archive", "write"} => pc'[q] = pc[q] /\ req'[q] = req[q]
    PROVE  PlansFollow' /\ WritesAreClosed'
<1>1. PlansFollow'
  <2> SUFFICES ASSUME NEW q \in Processes, pc'[q] \in {"archive", "write"}
               PROVE  Follows(req'[q])
    BY DEF PlansFollow, Follows, Advances, ReportOf, WellFormed, Listed
  <2> QED BY DEF Inv, PlansFollow
<1>2. WritesAreClosed'
  <2> SUFFICES ASSUME NEW q \in Processes, pc'[q] = "write"
               PROVE  /\ req'[q].call # "reopen" => ToArchive(q)' \subseteq history'
                      /\ req'[q].call = "complete" =>
                             ReportOf(req'[q]) \in published' \cup removed'
    BY DEF WritesAreClosed, ReportOf
  <2>1. pc[q] = "write" /\ req'[q] = req[q]
    OBVIOUS
  <2>2. ToArchive(q)' = ToArchive(q)
    BY <2>1 DEF ToArchive
  <2> QED BY <2>1, <2>2 DEF Inv, WritesAreClosed
<1> QED BY <1>1, <1>2

(* The same for what the status names and for the scan, if the status stays. *)
LEMMA OthersHistory ==
    ASSUME Inv, history \subseteq history', UNCHANGED status,
           published \cup removed \subseteq published' \cup removed'
    PROVE  /\ HistoryIsClosed'
           /\ UNCHANGED scan => ScansLookBack'
           /\ scan'.reads \in {0, 1} => ScansLookBack'
<1>1. HistoryIsClosed'
  <2>1. \A r \in Listed(status) :
           Closure(r) \subseteq history' /\ r \in published' \cup removed'
    BY DEF Inv, HistoryIsClosed
  <2>2. SourceDocs(status.snap) \subseteq history'
    BY DEF Inv, HistoryIsClosed
  <2> QED BY <2>1, <2>2 DEF HistoryIsClosed, Listed, Closure
<1>2. UNCHANGED scan => ScansLookBack'
  BY DEF Inv, ScansLookBack
<1>3. scan'.reads \in {0, 1} => ScansLookBack'
  BY DEF ScansLookBack
<1> QED BY <1>1, <1>2, <1>3

(* Actions that touch neither a process nor a request nor the scan *)
LEMMA FilesInv ==
    ASSUME Inv, UNCHANGED <<status, lock, pc, req, row, scan>>,
           src' \in Snapshots, history \subseteq history', history' \subseteq Documents,
           published' \subseteq Reports, removed' \subseteq Reports,
           published \cup removed \subseteq published' \cup removed'
    PROVE  Inv'
<1>1. TypeOK'
  BY DEF Inv, TypeOK, WellFormed
<1>2. HoldersHoldLock' /\ AuthorizedHasRequest'
  BY DEF Inv, HoldersHoldLock, AuthorizedHasRequest, Holding
<1> QED BY <1>1, <1>2, OthersPlans, OthersHistory DEF Inv

LEMMA EditInv == Inv /\ Edit => Inv'
BY FilesInv DEF Edit, Inv, TypeOK

LEMMA LoseReportInv == Inv /\ LoseReport => Inv'
BY FilesInv DEF LoseReport, Inv, TypeOK

LEMMA ArchiveInv == ASSUME Inv, NEW p \in Processes, Archive(p) PROVE Inv'
<1>1. ToArchive(p) \subseteq Documents
  <2>1. req[p] \in Requests /\ Follows(req[p])
    BY DEF Inv, TypeOK, Archive, PlansFollow
  <2>2. req[p].next.snap \in Snapshots /\ req[p].build \in Builds \cup {NoBuild}
    BY <2>1 DEF Follows, WellFormed, Status, Requests
  <2> QED BY <2>2, DocumentFacts DEF ToArchive
<1> QED BY <1>1, FilesInv DEF Archive, Inv, TypeOK

LEMMA EndArchiveInv == ASSUME Inv, NEW p \in Processes, EndArchive(p) PROVE Inv'
<1>1. /\ pc[p] = "archive" /\ pc' = [pc EXCEPT ![p] = "write"]
      /\ ToArchive(p) \subseteq history
      /\ UNCHANGED <<src, status, history, removed, lock, req, row, scan>>
      /\ published \subseteq published'
      /\ published' \subseteq published \cup {ReportOf(req[p])}
      /\ req[p].call = "complete" => ReportOf(req[p]) \in published'
  BY DEF EndArchive
<1>2. req[p] \in Requests /\ pc \in [Processes -> Steps]
  BY <1>1 DEF Inv, TypeOK
<1>3. ReportOf(req[p]) \in Reports
  BY <1>2, ReportOfRequest
<1>4. /\ pc' \in [Processes -> Steps] /\ pc'[p] = "write"
      /\ \A q \in Processes \ {p} : pc'[q] = pc[q]
  BY <1>1, <1>2 DEF Steps
<1>5. TypeOK'
  <2>1. \A q \in Processes : pc'[q] \in {"load", "archive", "write"} => req'[q] \in Requests
    BY <1>1, <1>2, <1>4 DEF Inv, TypeOK
  <2> QED BY <1>1, <1>3, <1>4, <2>1 DEF Inv, TypeOK, WellFormed
<1>6. \A q \in Processes : Holding(q)' => Holding(q)
  BY <1>1, <1>4 DEF Holding
<1>7. HoldersHoldLock' /\ AuthorizedHasRequest'
  BY <1>1, <1>4, <1>6, ProcessFacts DEF Inv, HoldersHoldLock, AuthorizedHasRequest
<1>8. PlansFollow'
  <2> SUFFICES ASSUME NEW q \in Processes, pc'[q] \in {"archive", "write"}
               PROVE  Follows(req[q])
    BY <1>1 DEF PlansFollow, Follows, Advances, ReportOf, WellFormed, Listed
  <2> QED BY <1>1, <1>4 DEF Inv, PlansFollow
<1>9. WritesAreClosed'
  <2> SUFFICES ASSUME NEW q \in Processes, pc'[q] = "write"
               PROVE  /\ req[q].call # "reopen" => ToArchive(q) \subseteq history
                      /\ req[q].call = "complete" =>
                             ReportOf(req[q]) \in published' \cup removed
    BY <1>1 DEF WritesAreClosed, ReportOf, ToArchive
  <2>1. CASE q = p
    BY <1>1, <2>1
  <2>2. CASE q # p
    BY <1>1, <1>4, <2>2 DEF Inv, WritesAreClosed
  <2> QED BY <2>1, <2>2
<1>10. HistoryIsClosed' /\ ScansLookBack'
  BY <1>1, OthersHistory
<1> QED BY <1>5, <1>7, <1>8, <1>9, <1>10 DEF Inv

LEMMA AbandonInv == ASSUME Inv, NEW p \in Processes, Abandon(p) PROVE Inv'
<1>1. /\ pc' = [pc EXCEPT ![p] = "idle"] /\ req' = [req EXCEPT ![p] = NoRequest]
      /\ lock' = Unlocked(p)
      /\ p # Studio => UNCHANGED scan
      /\ scan' \in {scan, NoScan} /\ UNCHANGED <<disk, row>>
  BY DEF Abandon
<1>2. /\ pc' \in [Processes -> Steps] /\ req' \in [Processes -> Requests \cup {NoRequest}]
      /\ lock' \in Processes \cup {NoProcess} /\ HoldersHoldLock' /\ AuthorizedHasRequest'
      /\ \A q \in Processes :
            pc'[q] # "idle" => q # p /\ pc'[q] = pc[q] /\ req'[q] = req[q]
  BY <1>1, LeftAlone
<1>3. NoScan \in [reads : 0..4, snap : Snapshots, status : Status,
                  before : BOOLEAN, together : BOOLEAN] /\ NoScan.reads = 0
  BY InitialIsWellFormed, WorkflowAssumption DEF NoScan
<1>4. TypeOK'
  <2>1. \A q \in Processes : pc'[q] \in {"load", "archive", "write"} => req'[q] \in Requests
    BY <1>2 DEF Inv, TypeOK
  <2> QED BY <1>1, <1>2, <1>3, <2>1 DEF Inv, TypeOK, WellFormed, disk
<1>5. PlansFollow' /\ WritesAreClosed'
  BY <1>1, <1>2, OthersPlans DEF disk
<1>6. HistoryIsClosed' /\ ScansLookBack'
  BY <1>1, <1>3, OthersHistory DEF disk
<1> QED BY <1>2, <1>4, <1>5, <1>6 DEF Inv

(* A call that asks for something takes nothing from the others. *)
LEMMA AskInv == ASSUME Inv, NEW p \in Processes, Ask(p) PROVE Inv'
<1>1. /\ p \in Operators /\ pc[p] = "idle" /\ UNCHANGED <<disk, lock, pc, row, scan>>
  BY DEF Ask
<1>2. PICK call \in Calls, phase \in 1..LastPhase, build \in BuildsOf[src] \cup {NoBuild} :
          req' = [req EXCEPT ![p] =
              [call |-> call, expected |-> status, snap |-> src, phase |-> phase,
               build |-> build, generation |-> 0, base |-> status, next |-> status]]
  BY DEF Ask
<1>3. status \in Status /\ src \in Snapshots /\ BuildsOf[src] \subseteq Builds
  BY WorkflowAssumption DEF Inv, TypeOK, WellFormed
<1>4. [call |-> call, expected |-> status, snap |-> src, phase |-> phase,
       build |-> build, generation |-> 0, base |-> status, next |-> status] \in Requests
  BY <1>3 DEF Requests
<1>5. /\ req' \in [Processes -> Requests \cup {NoRequest}]
      /\ \A q \in Processes \ {p} : req'[q] = req[q]
  BY <1>2, <1>4 DEF Inv, TypeOK
<1>6. TypeOK'
  <2>1. \A q \in Processes : pc'[q] \in {"load", "archive", "write"} => req'[q] \in Requests
    BY <1>1, <1>5 DEF Inv, TypeOK
  <2> QED BY <1>1, <1>5, <2>1 DEF Inv, TypeOK, WellFormed, disk
<1>7. HoldersHoldLock' /\ AuthorizedHasRequest'
  BY <1>1, <1>5, ProcessFacts, WorkflowAssumption
     DEF Inv, HoldersHoldLock, AuthorizedHasRequest, Holding
<1>8. PlansFollow' /\ WritesAreClosed'
  BY <1>1, <1>5, OthersPlans DEF disk
<1>9. HistoryIsClosed' /\ ScansLookBack'
  BY <1>1, OthersHistory DEF disk
<1> QED BY <1>6, <1>7, <1>8, <1>9 DEF Inv

LEMMA AcquireInv == ASSUME Inv, NEW p \in Processes, Acquire(p) PROVE Inv'
<1>1. /\ pc[p] = "idle" /\ p \in Operators /\ req[p] # NoRequest /\ lock = NoProcess
      /\ lock' = p /\ pc' = [pc EXCEPT ![p] = "load"] /\ UNCHANGED <<disk, req, row, scan>>
  BY DEF Acquire
<1>2. /\ pc' \in [Processes -> Steps] /\ pc'[p] = "load"
      /\ \A q \in Processes \ {p} : pc'[q] = pc[q]
      /\ req[p] \in Requests
  BY <1>1 DEF Inv, TypeOK, Steps
<1>3. TypeOK'
  <2>1. \A q \in Processes : pc'[q] \in {"load", "archive", "write"} => req'[q] \in Requests
    BY <1>1, <1>2 DEF Inv, TypeOK
  <2> QED BY <1>1, <1>2, <2>1 DEF Inv, TypeOK, WellFormed, disk
<1>4. \A q \in Processes : ~Holding(q)
  BY <1>1, ProcessFacts DEF Inv, HoldersHoldLock
<1>5. HoldersHoldLock'
  <2>1. \A q \in Processes : Holding(q)' => q = p
    BY <1>1, <1>2, <1>4 DEF Holding
  <2> QED BY <1>1, <2>1 DEF HoldersHoldLock
<1>6. AuthorizedHasRequest'
  BY <1>1, <1>2, ProcessFacts, WorkflowAssumption DEF Inv, AuthorizedHasRequest
<1>7. PlansFollow' /\ WritesAreClosed'
  BY <1>1, <1>2, OthersPlans DEF disk
<1>8. HistoryIsClosed' /\ ScansLookBack'
  BY <1>1, OthersHistory DEF disk
<1> QED BY <1>3, <1>5, <1>6, <1>7, <1>8 DEF Inv

LEMMA AcquireStudioInv == Inv /\ AcquireStudio => Inv'
<1> SUFFICES ASSUME Inv, AcquireStudio PROVE Inv'
  OBVIOUS
<1>1. /\ pc[Studio] = "idle" /\ lock = NoProcess /\ lock' = Studio
      /\ pc' = [pc EXCEPT ![Studio] = "scan"] /\ scan' = [NoScan EXCEPT !.before = TRUE]
      /\ UNCHANGED <<disk, row>>
  BY DEF AcquireStudio
<1>2. PICK call \in Calls, phase \in 1..LastPhase,
           build \in BuildsOf[row.snap] \cup {NoBuild} :
          req' = [req EXCEPT ![Studio] =
              [call |-> call, expected |-> row.status, snap |-> row.snap, phase |-> phase,
               build |-> build, generation |-> row.generation,
               base |-> row.status, next |-> row.status]]
  BY DEF AcquireStudio
<1>3. /\ row.status \in Status /\ row.snap \in Snapshots /\ row.generation \in Nat
      /\ BuildsOf[row.snap] \subseteq Builds
  BY WorkflowAssumption DEF Inv, TypeOK
<1>4. [call |-> call, expected |-> row.status, snap |-> row.snap, phase |-> phase,
       build |-> build, generation |-> row.generation,
       base |-> row.status, next |-> row.status] \in Requests
  BY <1>3 DEF Requests
<1>5. /\ req' \in [Processes -> Requests \cup {NoRequest}] /\ req'[Studio] \in Requests
      /\ \A q \in Processes \ {Studio} : req'[q] = req[q]
  BY <1>2, <1>4, ProcessFacts DEF Inv, TypeOK
<1>6. /\ pc' \in [Processes -> Steps] /\ pc'[Studio] = "scan"
      /\ \A q \in Processes \ {Studio} : pc'[q] = pc[q]
  BY <1>1, ProcessFacts DEF Inv, TypeOK, Steps
<1>7. /\ scan' \in [reads : 0..4, snap : Snapshots, status : Status,
                    before : BOOLEAN, together : BOOLEAN]
      /\ scan'.reads = 0
  <2>1. scan' = [reads |-> 0, snap |-> First, status |-> InitialStatus,
                 before |-> TRUE, together |-> FALSE]
    BY <1>1 DEF NoScan
  <2> QED BY <2>1, InitialIsWellFormed, WorkflowAssumption
<1>8. TypeOK'
  <2>1. \A q \in Processes : pc'[q] \in {"load", "archive", "write"} => req'[q] \in Requests
    BY <1>5, <1>6 DEF Inv, TypeOK
  <2> QED BY <1>1, <1>5, <1>6, <1>7, <2>1, ProcessFacts DEF Inv, TypeOK, WellFormed, disk
<1>9. HoldersHoldLock'
  <2>1. \A q \in Processes : ~Holding(q)
    BY <1>1, ProcessFacts DEF Inv, HoldersHoldLock
  <2>2. \A q \in Processes : Holding(q)' => q = Studio
    BY <1>6, <2>1 DEF Holding
  <2> QED BY <1>1, <2>2 DEF HoldersHoldLock
<1>10. AuthorizedHasRequest'
  BY <1>5 DEF AuthorizedHasRequest
<1>11. PlansFollow' /\ WritesAreClosed'
  BY <1>1, <1>5, <1>6, OthersPlans DEF disk
<1>12. HistoryIsClosed' /\ ScansLookBack'
  BY <1>1, <1>7, OthersHistory DEF disk
<1> QED BY <1>8, <1>9, <1>10, <1>11, <1>12 DEF Inv

(* A call that finds nothing to write *)
LEMMA ReturnInv ==
    ASSUME Inv, NEW p \in Processes, pc[p] = "load", Return(p), UNCHANGED <<disk, row>>
    PROVE  Inv'
<1>1. /\ pc' \in [Processes -> Steps] /\ req' \in [Processes -> Requests \cup {NoRequest}]
      /\ lock' \in Processes \cup {NoProcess} /\ scan' \in {scan, NoScan}
      /\ HoldersHoldLock' /\ AuthorizedHasRequest' /\ pc'[p] \in {"idle", "scan"}
      /\ \A q \in Processes \ {p} : pc'[q] = pc[q] /\ req'[q] = req[q]
  BY Returned DEF Holding
<1>2. NoScan \in [reads : 0..4, snap : Snapshots, status : Status,
                  before : BOOLEAN, together : BOOLEAN] /\ NoScan.reads = 0
  BY InitialIsWellFormed, WorkflowAssumption DEF NoScan
<1>3. TypeOK'
  <2>1. \A q \in Processes : pc'[q] \in {"load", "archive", "write"} => req'[q] \in Requests
    BY <1>1 DEF Inv, TypeOK
  <2> QED BY <1>1, <1>2, <2>1 DEF Inv, TypeOK, WellFormed, disk
<1>4. PlansFollow' /\ WritesAreClosed'
  BY <1>1, OthersPlans DEF disk
<1>5. HistoryIsClosed' /\ ScansLookBack'
  BY <1>1, <1>2, OthersHistory DEF disk
<1> QED BY <1>1, <1>3, <1>4, <1>5 DEF Inv

(* What a checked call may publish *)
LEMMA LoadCompleteInv == ASSUME Inv, NEW p \in Processes, LoadComplete(p) PROVE Inv'
<1>1. /\ pc[p] = "load" /\ req[p].call = "complete" /\ LoadsValid(p) /\ req[p].snap = src
      /\ UNCHANGED <<disk, row>>
  BY DEF LoadComplete
<1>2. req[p] \in Requests /\ WellFormed(status) /\ src \in Snapshots
  BY <1>1 DEF Inv, TypeOK
<1> DEFINE next == Completed(status, ReportOf(req[p]))
<1>3. ASSUME req[p].phase = Len(status.reports) + 1, Proceed(p, "archive", next)
      PROVE  Inv'
  <2>1. /\ ReportOf(req[p]) \in Reports /\ ReportOf(req[p]).phase = Len(status.reports) + 1
        /\ ReportOf(req[p]).snap = status.snap
    BY <1>1, <1>2, <1>3, ReportOfRequest DEF LoadsValid
  <2>2. \A x \in Listed(status) : x.snap = status.snap
    BY <1>1 DEF LoadsValid, ValidPrefix, InPlace
  <2>3. /\ WellFormed(next) /\ Advances(status, next) /\ next.snap = status.snap
        /\ \A x \in Listed(next) : x \in Listed(status) \/ x = ReportOf(req[p])
    BY <1>2, <2>1, <2>2, CompletedFollows
  <2>4. next \in Status
    BY <2>3 DEF WellFormed
  <2> HIDE DEF next
  <2>5. "archive" \in Steps /\ TypeOK
    BY DEF Steps, Inv
  <2>6. /\ req'[p].base = status /\ req'[p].next = next /\ req'[p].call = req[p].call
        /\ req'[p].expected = req[p].expected /\ req'[p].snap = req[p].snap
        /\ ReportOf(req'[p]) = ReportOf(req[p])
    BY <1>2, <1>3, <2>4, <2>5, ProceedFacts
  <2>7. Follows(req'[p])
    BY <1>1, <2>3, <2>6 DEF Follows, LoadsValid
  <2> QED BY <1>1, <1>3, <2>4, <2>7, ProceedInv
<1>4. ASSUME Return(p) PROVE Inv'
  BY <1>1, <1>4, ReturnInv
<1> QED BY <1>3, <1>4 DEF LoadComplete

LEMMA LoadReopenInv == ASSUME Inv, NEW p \in Processes, LoadReopen(p) PROVE Inv'
<1> DEFINE next == Reopened(status, req[p].phase)
<1>1. /\ pc[p] = "load" /\ req[p].call = "reopen" /\ LoadsValid(p)
      /\ req[p].phase <= Len(status.reports) /\ Proceed(p, "write", next)
      /\ UNCHANGED <<disk, row>>
  BY DEF LoadReopen
<1>2. /\ req[p] \in Requests /\ WellFormed(status) /\ req[p].phase \in 1..LastPhase
      /\ status.snap \in Snapshots /\ status.reports \in Seq(Reports)
  BY <1>1 DEF Inv, TypeOK, Requests, WellFormed, Status
<1>3. req[p].phase - 1 \in 0..Len(status.reports)
  BY <1>1, <1>2, WorkflowAssumption
<1>4. /\ WellFormed(next) /\ Advances(status, next) /\ next.snap = status.snap
      /\ Listed(next) \subseteq Listed(status)
  BY <1>2, <1>3, CutFollows DEF Reopened
<1>5. next \in Status
  BY <1>4 DEF WellFormed
<1> HIDE DEF next
<1>6. "write" \in Steps /\ TypeOK
  BY DEF Steps, Inv
<1>7. /\ req'[p].base = status /\ req'[p].next = next /\ req'[p].call = req[p].call
      /\ req'[p].expected = req[p].expected
  BY <1>1, <1>2, <1>5, <1>6, ProceedFacts
<1>8. Follows(req'[p])
  BY <1>1, <1>4, <1>7 DEF Follows, LoadsValid
<1> QED BY <1>1, <1>5, <1>8, ProceedInv

LEMMA LoadReconcileInv == ASSUME Inv, NEW p \in Processes, LoadReconcile(p) PROVE Inv'
<1>1. /\ pc[p] = "load" /\ req[p].call = "reconcile" /\ status = req[p].expected
      /\ UNCHANGED <<disk, row>>
  BY DEF LoadReconcile
<1>2. req[p] \in Requests /\ WellFormed(status) /\ src \in Snapshots
  BY <1>1 DEF Inv, TypeOK
<1>3. ASSUME NEW k \in 0..Len(status.reports), Proceed(p, "archive", Cut(status, k, src))
      PROVE  Inv'
  <2> DEFINE next == Cut(status, k, src)
  <2>1. /\ WellFormed(next) /\ Advances(status, next) /\ next.snap = src
        /\ Listed(next) \subseteq Listed(status)
    BY <1>2, CutFollows
  <2>2. next \in Status /\ Proceed(p, "archive", next)
    BY <1>3, <2>1 DEF WellFormed
  <2> HIDE DEF next
  <2>3. "archive" \in Steps /\ TypeOK
    BY DEF Steps, Inv
  <2>4. /\ req'[p].base = status /\ req'[p].next = next /\ req'[p].call = req[p].call
        /\ req'[p].expected = req[p].expected
    BY <1>2, <2>2, <2>3, ProceedFacts
  <2>5. Follows(req'[p])
    BY <1>1, <2>1, <2>4 DEF Follows
  <2> QED BY <1>1, <2>2, <2>5, ProceedInv
<1>4. ASSUME Return(p) PROVE Inv'
  BY <1>1, <1>4, ReturnInv
<1> QED BY <1>3, <1>4 DEF LoadReconcile, Keeps

-----------------------------------------------------------------------------
(* The write of the status                                                  *)

(* What a call about to write has in hand *)
LEMMA WriteFacts ==
    ASSUME Inv, NEW p \in Processes, WriteStatus(p)
    PROVE  /\ pc[p] = "write" /\ lock = p /\ req[p] \in Requests
           /\ req[p].expected = status
           /\ status' = req[p].next /\ WellFormed(status') /\ WellFormed(status)
           /\ Advances(status, status')
           /\ Return(p) /\ UNCHANGED <<src, history, published, removed, row>>
<1>1. /\ pc[p] = "write" /\ status = req[p].base /\ status' = req[p].next
      /\ Return(p) /\ UNCHANGED <<src, history, published, removed, row>>
  BY DEF WriteStatus
<1>2. Follows(req[p]) /\ req[p] \in Requests /\ WellFormed(status)
  BY <1>1 DEF Inv, PlansFollow, TypeOK
<1>3. lock = p
  BY <1>1 DEF Inv, HoldersHoldLock, Holding
<1>4. WellFormed(req[p].next) /\ Advances(status, req[p].next) /\ req[p].expected = status
  BY <1>1, <1>2 DEF Follows
<1> QED BY <1>1, <1>2, <1>3, <1>4

LEMMA WriteStatusInv == ASSUME Inv, NEW p \in Processes, WriteStatus(p) PROVE Inv'
<1>1. /\ pc[p] = "write" /\ req[p] \in Requests
      /\ status' = req[p].next /\ WellFormed(status') /\ WellFormed(status)
      /\ Advances(status, status')
      /\ Return(p) /\ UNCHANGED <<src, history, published, removed, row>>
  BY WriteFacts
<1>2. Follows(req[p]) /\ req[p].base = status
  BY <1>1 DEF Inv, PlansFollow, WriteStatus
<1>3. /\ pc' \in [Processes -> Steps] /\ req' \in [Processes -> Requests \cup {NoRequest}]
      /\ lock' \in Processes \cup {NoProcess} /\ scan' \in {scan, NoScan}
      /\ HoldersHoldLock' /\ AuthorizedHasRequest' /\ pc'[p] \in {"idle", "scan"}
      /\ \A q \in Processes \ {p} : pc'[q] = pc[q] /\ req'[q] = req[q]
  BY <1>1, Returned DEF Holding
<1>4. NoScan \in [reads : 0..4, snap : Snapshots, status : Status,
                  before : BOOLEAN, together : BOOLEAN] /\ NoScan.reads = 0
  BY InitialIsWellFormed, WorkflowAssumption DEF NoScan
<1>5. TypeOK'
  <2>1. \A q \in Processes : pc'[q] \in {"load", "archive", "write"} => req'[q] \in Requests
    BY <1>3 DEF Inv, TypeOK
  <2>2. WellFormed(status)'
    BY <1>1 DEF WellFormed
  <2> QED BY <1>1, <1>3, <1>4, <2>1, <2>2 DEF Inv, TypeOK
<1>6. PlansFollow' /\ WritesAreClosed'
  BY <1>1, <1>3, OthersPlans
<1>7. HistoryIsClosed'
  <2>1. /\ SourceDocs(status.snap) \subseteq history
        /\ \A r \in Listed(status) :
              Closure(r) \subseteq history /\ r \in published \cup removed
    BY DEF Inv, HistoryIsClosed
  <2>2. /\ req[p].call # "reopen" => ToArchive(p) \subseteq history
        /\ req[p].call = "complete" => ReportOf(req[p]) \in published \cup removed
    BY <1>1 DEF Inv, WritesAreClosed
  <2>3. SourceDocs(status'.snap) \subseteq history
    BY <1>1, <1>2, <2>1, <2>2 DEF ToArchive, Follows
  <2>4. ASSUME NEW r \in Listed(status')
        PROVE  Closure(r) \subseteq history /\ r \in published \cup removed
    <3>1. CASE r \in Listed(status)
      BY <2>1, <3>1
    <3>2. CASE req[p].call = "complete" /\ r = ReportOf(req[p])
      <4>1. status'.snap = req[p].snap
        BY <1>1, <1>2, <3>2 DEF Follows
      <4>2. Closure(r) = ToArchive(p)
        BY <1>1, <3>2, <4>1, ReportOfRequest DEF ToArchive
      <4> QED BY <2>2, <3>2, <4>2
    <3> QED BY <1>1, <1>2, <3>1, <3>2 DEF Follows
  <2> QED BY <1>1, <2>3, <2>4 DEF HistoryIsClosed, Listed, Closure
<1>8. ScansLookBack'
  <2>1. CASE scan' = NoScan
    BY <1>4, <2>1 DEF ScansLookBack
  <2>2. CASE scan' = scan
    <3>1. scan.status.revision \in Nat /\ status.revision \in Nat
          /\ status'.revision = status.revision + 1
      BY <1>1 DEF Inv, TypeOK, Status, WellFormed, Advances
    <3> QED BY <2>2, <3>1 DEF Inv, ScansLookBack
  <2> QED BY <1>3, <2>1, <2>2
<1> QED BY <1>3, <1>5, <1>6, <1>7, <1>8 DEF Inv

-----------------------------------------------------------------------------
(* The service's scans                                                      *)

(* A scan reads and touches nothing else. *)
LEMMA ReadInv ==
    ASSUME Inv, UNCHANGED <<disk, lock, pc, req, row>>, scan'.before = scan.before,
           scan' \in [reads : 0..4, snap : Snapshots, status : Status,
                     before : BOOLEAN, together : BOOLEAN],
           ScansLookBack'
    PROVE  Inv'
<1>1. TypeOK'
  BY DEF Inv, TypeOK, WellFormed, disk
<1>2. HoldersHoldLock' /\ AuthorizedHasRequest'
  BY DEF Inv, HoldersHoldLock, AuthorizedHasRequest, Holding
<1>3. PlansFollow' /\ WritesAreClosed'
  BY OthersPlans DEF disk
<1>4. HistoryIsClosed'
  BY OthersHistory DEF disk
<1> QED BY <1>1, <1>2, <1>3, <1>4 DEF Inv

LEMMA ScanSourceInv == Inv /\ ScanSource => Inv'
<1> SUFFICES ASSUME Inv, ScanSource PROVE Inv'
  OBVIOUS
<1> DEFINE ScanRecords == [reads : 0..4, snap : Snapshots, status : Status,
                           before : BOOLEAN, together : BOOLEAN]
<1>1. scan \in ScanRecords /\ src \in Snapshots
  BY DEF Inv, TypeOK
<1>2. UNCHANGED <<disk, lock, pc, req, row>> /\ UNCHANGED status
  BY DEF ScanSource, disk
<1>3. CASE scan.reads = 0 /\ scan' = [scan EXCEPT !.reads = 1, !.snap = src]
  <2> scan' = [reads |-> 1, snap |-> src, status |-> scan.status,
               before |-> scan.before, together |-> scan.together]
    BY <1>1, <1>3
  <2>1. scan' \in ScanRecords /\ scan'.before = scan.before /\ scan'.reads = 1
    BY <1>1
  <2>2. ScansLookBack'
    BY <2>1 DEF ScansLookBack
  <2> QED BY <1>2, <2>1, <2>2, ReadInv
<1>4. CASE /\ scan.reads = 2
           /\ scan' = [scan EXCEPT !.reads = 3, !.together = (status = scan.status)]
  <2>a. PICK same \in BOOLEAN : same = (status = scan.status)
    OBVIOUS
  <2>b. scan' = [reads |-> 3, snap |-> scan.snap, status |-> scan.status,
                 before |-> scan.before, together |-> same]
    <3>1. scan' = [reads |-> 3, snap |-> scan.snap, status |-> scan.status,
                   before |-> scan.before, together |-> (status = scan.status)]
      BY <1>1, <1>4
    <3> QED BY Zenon, <2>a, <3>1
  <2>1. scan' \in ScanRecords /\ scan'.before = scan.before /\ scan'.reads = 3
        /\ scan'.status = scan.status /\ scan'.together = same
    <3>1. CASE same = TRUE
      BY <1>1, <2>b, <3>1
    <3>2. CASE same = FALSE
      BY <1>1, <2>b, <3>2
    <3> QED BY Zenon, <3>1, <3>2
  <2>2. scan.status = status \/ scan.status.revision < status.revision
    BY <1>4 DEF Inv, ScansLookBack
  <2>3. ScansLookBack'
    BY <1>2, <2>1, <2>2, <2>a DEF ScansLookBack
  <2> QED BY <1>2, <2>1, <2>3, ReadInv
<1> QED BY <1>3, <1>4 DEF ScanSource

LEMMA ScanStatusInv == Inv /\ ScanStatus => Inv'
<1> SUFFICES ASSUME Inv, ScanStatus PROVE Inv'
  OBVIOUS
<1> DEFINE ScanRecords == [reads : 0..4, snap : Snapshots, status : Status,
                           before : BOOLEAN, together : BOOLEAN]
<1>1. scan \in ScanRecords /\ status \in Status /\ status.revision \in Nat
  BY DEF Inv, TypeOK, WellFormed, Status
<1>2. UNCHANGED <<disk, lock, pc, req, row>> /\ UNCHANGED status
  BY DEF ScanStatus, disk
<1>3. CASE scan.reads = 1 /\ scan' = [scan EXCEPT !.reads = 2, !.status = status]
  <2> scan' = [reads |-> 2, snap |-> scan.snap, status |-> status,
               before |-> scan.before, together |-> scan.together]
    BY <1>1, <1>3
  <2>1. scan' \in ScanRecords /\ scan'.before = scan.before /\ scan'.reads = 2
        /\ scan'.status = status
    BY <1>1
  <2>2. ScansLookBack'
    BY <1>2, <2>1 DEF ScansLookBack
  <2> QED BY <1>2, <2>1, <2>2, ReadInv
<1>4. CASE /\ scan.reads = 3 /\ status = scan.status
           /\ scan' = [scan EXCEPT !.reads = 4]
  <2>1. scan' \in ScanRecords /\ scan'.before = scan.before /\ scan'.reads = 4
        /\ scan'.status = scan.status /\ scan'.together = scan.together
    BY <1>1, <1>4
  <2>2. scan.together
    BY <1>1, <1>4 DEF Inv, ScansLookBack
  <2>3. ScansLookBack'
    BY <1>2, <1>4, <2>1, <2>2 DEF ScansLookBack
  <2> QED BY <1>2, <2>1, <2>3, ReadInv
<1> QED BY <1>3, <1>4 DEF ScanStatus

LEMMA ScanAgainInv == Inv /\ ScanAgain => Inv'
<1> SUFFICES ASSUME Inv, ScanAgain PROVE Inv'
  OBVIOUS
<1>1. UNCHANGED <<disk, lock, pc, req, row>> /\ scan' = [NoScan EXCEPT !.before = scan.before]
  BY DEF ScanAgain
<1>2. scan.before \in BOOLEAN
  BY DEF Inv, TypeOK
<1>3. scan' = [reads |-> 0, snap |-> First, status |-> InitialStatus,
               before |-> scan.before, together |-> FALSE]
  BY <1>1 DEF NoScan
<1>4. scan' \in [reads : 0..4, snap : Snapshots, status : Status,
                before : BOOLEAN, together : BOOLEAN]
  BY <1>2, <1>3, InitialIsWellFormed, WorkflowAssumption
<1>5. ScansLookBack'
  BY <1>3 DEF ScansLookBack
<1> QED BY <1>1, <1>3, <1>4, <1>5, ReadInv

(* What the end of a scan records *)
LEMMA EndFacts ==
    ASSUME Inv, ScanEnds
    PROVE  /\ pc[Studio] = "scan"
           /\ row' \in [snap : Snapshots, status : Status, generation : Nat]
           /\ scan' \in [reads : 0..4, snap : Snapshots, status : Status,
                         before : BOOLEAN, together : BOOLEAN]
           /\ scan'.reads = 0 /\ ~scan'.before
           /\ scan.together
<1>1. /\ scan \in [reads : 0..4, snap : Snapshots, status : Status,
                   before : BOOLEAN, together : BOOLEAN]
      /\ row \in [snap : Snapshots, status : Status, generation : Nat]
  BY DEF Inv, TypeOK
<1>2. row' \in [snap : Snapshots, status : Status, generation : Nat]
  BY <1>1 DEF ScanEnds
<1>3. scan' = [reads |-> 0, snap |-> First, status |-> InitialStatus,
               before |-> FALSE, together |-> FALSE]
  BY DEF ScanEnds, NoScan
<1>4. scan.together /\ pc[Studio] = "scan"
  BY DEF ScanEnds, Scanning, Inv, ScansLookBack
<1> QED BY <1>2, <1>3, <1>4, InitialIsWellFormed, WorkflowAssumption

LEMMA AuthorizeInv == Inv /\ Authorize => Inv'
<1> SUFFICES ASSUME Inv, Authorize PROVE Inv'
  OBVIOUS
<1>1. /\ scan.before /\ ScanEnds /\ pc' = [pc EXCEPT ![Studio] = "load"]
      /\ UNCHANGED <<disk, lock, req>>
  BY DEF Authorize
<1>2. /\ pc[Studio] = "scan"
      /\ row' \in [snap : Snapshots, status : Status, generation : Nat]
      /\ scan' \in [reads : 0..4, snap : Snapshots, status : Status,
                    before : BOOLEAN, together : BOOLEAN]
      /\ scan'.reads = 0 /\ ~scan'.before
  BY <1>1, EndFacts
<1>3. /\ pc' \in [Processes -> Steps] /\ pc'[Studio] = "load"
      /\ \A q \in Processes \ {Studio} : pc'[q] = pc[q]
  BY <1>1, ProcessFacts DEF Inv, TypeOK, Steps
<1>4. req[Studio] \in Requests /\ lock = Studio
  BY <1>1, <1>2, ProcessFacts DEF Inv, AuthorizedHasRequest, HoldersHoldLock, Holding
<1>5. TypeOK'
  <2>1. \A q \in Processes : pc'[q] \in {"load", "archive", "write"} => req'[q] \in Requests
    BY <1>1, <1>3, <1>4 DEF Inv, TypeOK
  <2> QED BY <1>1, <1>2, <1>3, <2>1 DEF Inv, TypeOK, WellFormed, disk
<1>6. HoldersHoldLock'
  <2>1. \A q \in Processes : Holding(q)' => q = Studio \/ Holding(q)
    BY <1>3 DEF Holding
  <2> QED BY <1>1, <1>4, <2>1 DEF Inv, HoldersHoldLock
<1>7. AuthorizedHasRequest'
  BY <1>2 DEF AuthorizedHasRequest
<1>8. PlansFollow' /\ WritesAreClosed'
  BY <1>1, <1>3, OthersPlans DEF disk
<1>9. HistoryIsClosed' /\ ScansLookBack'
  BY <1>1, <1>2, OthersHistory DEF disk
<1> QED BY <1>5, <1>6, <1>7, <1>8, <1>9 DEF Inv

LEMMA RefreshedInv == Inv /\ Refreshed => Inv'
<1> SUFFICES ASSUME Inv, Refreshed PROVE Inv'
  OBVIOUS
<1>1. /\ ScanEnds /\ pc' = [pc EXCEPT ![Studio] = "idle"]
      /\ req' = [req EXCEPT ![Studio] = NoRequest] /\ lock' = Unlocked(Studio)
      /\ UNCHANGED disk
  BY DEF Refreshed
<1>2. /\ row' \in [snap : Snapshots, status : Status, generation : Nat]
      /\ scan' \in [reads : 0..4, snap : Snapshots, status : Status,
                    before : BOOLEAN, together : BOOLEAN]
      /\ scan'.reads = 0 /\ ~scan'.before
  BY <1>1, EndFacts
<1>3. /\ pc' \in [Processes -> Steps] /\ req' \in [Processes -> Requests \cup {NoRequest}]
      /\ lock' \in Processes \cup {NoProcess} /\ HoldersHoldLock' /\ AuthorizedHasRequest'
      /\ \A q \in Processes :
            pc'[q] # "idle" => q # Studio /\ pc'[q] = pc[q] /\ req'[q] = req[q]
  BY <1>1, LeftAlone, ProcessFacts
<1>4. TypeOK'
  <2>1. \A q \in Processes : pc'[q] \in {"load", "archive", "write"} => req'[q] \in Requests
    BY <1>3 DEF Inv, TypeOK
  <2> QED BY <1>1, <1>2, <1>3, <2>1 DEF Inv, TypeOK, WellFormed, disk
<1>5. PlansFollow' /\ WritesAreClosed'
  BY <1>1, <1>3, OthersPlans DEF disk
<1>6. HistoryIsClosed' /\ ScansLookBack'
  BY <1>1, <1>2, OthersHistory DEF disk
<1> QED BY <1>3, <1>4, <1>5, <1>6 DEF Inv

LEMMA OpenInv == Inv /\ Open => Inv'
<1> SUFFICES ASSUME Inv, Open PROVE Inv'
  OBVIOUS
<1>1. /\ pc[Studio] = "idle" /\ pc' = [pc EXCEPT ![Studio] = "scan"] /\ scan' = NoScan
      /\ UNCHANGED <<disk, lock, req, row>>
  BY DEF Open
<1>2. /\ NoScan \in [reads : 0..4, snap : Snapshots, status : Status,
                     before : BOOLEAN, together : BOOLEAN]
      /\ NoScan.reads = 0 /\ ~NoScan.before
  BY InitialIsWellFormed, WorkflowAssumption DEF NoScan
<1>3. /\ pc' \in [Processes -> Steps] /\ pc'[Studio] = "scan"
      /\ \A q \in Processes \ {Studio} : pc'[q] = pc[q]
  BY <1>1, ProcessFacts DEF Inv, TypeOK, Steps
<1>4. TypeOK'
  <2>1. \A q \in Processes : pc'[q] \in {"load", "archive", "write"} => req'[q] \in Requests
    BY <1>1, <1>3 DEF Inv, TypeOK
  <2> QED BY <1>1, <1>2, <1>3, <2>1 DEF Inv, TypeOK, WellFormed, disk
<1>5. HoldersHoldLock' /\ AuthorizedHasRequest'
  <2>1. \A q \in Processes : Holding(q)' => Holding(q)
    BY <1>1, <1>2, <1>3 DEF Holding
  <2> QED BY <1>1, <1>2, <2>1 DEF Inv, HoldersHoldLock, AuthorizedHasRequest
<1>6. PlansFollow' /\ WritesAreClosed'
  BY <1>1, <1>3, OthersPlans DEF disk
<1>7. HistoryIsClosed' /\ ScansLookBack'
  BY <1>1, <1>2, OthersHistory DEF disk
<1> QED BY <1>4, <1>5, <1>6, <1>7 DEF Inv

LEMMA StutterInv == Inv /\ UNCHANGED vars => Inv'
<1> SUFFICES ASSUME Inv, UNCHANGED vars PROVE Inv'
  OBVIOUS
<1>1. UNCHANGED <<src, status, history, published, removed, lock, pc, req, row, scan>>
  BY DEF vars, disk
<1> QED BY <1>1, FilesInv DEF Inv, TypeOK

LEMMA NextInv == Inv /\ [Next]_vars => Inv'
<1> SUFFICES ASSUME Inv, [Next]_vars PROVE Inv'
  OBVIOUS
<1>1. ASSUME NEW p \in Processes, Call(p) PROVE Inv'
  BY <1>1, AskInv, AcquireInv, AbandonInv, LoadCompleteInv, LoadReopenInv, LoadReconcileInv,
     ArchiveInv, EndArchiveInv, WriteStatusInv DEF Call
<1> QED BY <1>1, EditInv, LoseReportInv, AcquireStudioInv, OpenInv, ScanSourceInv,
           ScanStatusInv, ScanAgainInv, AuthorizeInv, RefreshedInv, StutterInv DEF Next

(* The invariant holds throughout. *)
LEMMA Invariance == Spec => []Inv
BY InitInv, NextInv, PTL DEF Spec

-----------------------------------------------------------------------------
(* What changes the status, and what the record                             *)

(* Only the write of a call changes the status. *)
LEMMA StatusChanges ==
    ASSUME Inv, [Next]_vars, status' # status
    PROVE  /\ lock # NoProcess
           /\ req[lock].expected = status
           /\ Advances(status, status')
<1>1. PICK p \in Processes : WriteStatus(p)
  <2>1. ASSUME NEW p \in Processes, Call(p), ~WriteStatus(p) PROVE UNCHANGED status
    BY <2>1 DEF Call, Ask, Acquire, Abandon, LoadComplete, LoadReopen, LoadReconcile,
                Archive, EndArchive, disk
  <2>2. ASSUME Edit \/ LoseReport PROVE UNCHANGED status
    BY <2>2 DEF Edit, LoseReport
  <2>3. ASSUME \/ AcquireStudio \/ Open \/ ScanSource \/ ScanStatus \/ ScanAgain
               \/ Authorize \/ Refreshed
        PROVE  UNCHANGED status
    BY <2>3 DEF AcquireStudio, Open, ScanSource, ScanStatus, ScanAgain, Authorize,
                Refreshed, disk
  <2>4. ASSUME UNCHANGED vars PROVE UNCHANGED status
    BY <2>4 DEF vars, disk
  <2> QED BY <2>1, <2>2, <2>3, <2>4 DEF Next
<1>2. lock = p /\ req[p].expected = status /\ Advances(status, status')
  BY <1>1, WriteFacts
<1> QED BY <1>2, ProcessFacts

(* The record is only written by the end of a scan. *)
LEMMA RowChanges == ASSUME Inv, [Next]_vars, row' # row PROVE ScanEnds
<1>1. ASSUME NEW p \in Processes, Call(p) PROVE UNCHANGED row
  BY <1>1 DEF Call, Ask, Acquire, Abandon, LoadComplete, LoadReopen, LoadReconcile,
              Archive, EndArchive, WriteStatus
<1>2. ASSUME Edit \/ LoseReport PROVE UNCHANGED row
  BY <1>2 DEF Edit, LoseReport
<1>3. ASSUME AcquireStudio \/ Open \/ ScanSource \/ ScanStatus \/ ScanAgain
      PROVE  UNCHANGED row
  BY <1>3 DEF AcquireStudio, Open, ScanSource, ScanStatus, ScanAgain
<1>4. ASSUME UNCHANGED vars PROVE UNCHANGED row
  BY <1>4 DEF vars
<1> QED BY <1>1, <1>2, <1>3, <1>4 DEF Next, Authorize, Refreshed

-----------------------------------------------------------------------------
(* Theorems                                                                 *)

(* Every variable keeps its type; the reports of a status cover the first   *)
(* phases in order (_validate_creation_workflow_status_shape).              *)
THEOREM TypeCorrect == Spec => []TypeOK
<1>1. Inv => TypeOK
  BY DEF Inv
<1> QED BY <1>1, Invariance, PTL

(* Whatever the status names, snapshot, reports and their dependencies, was *)
(* put on disk before it, whenever calls stop and whoever deletes reports.  *)
THEOREM HistoryAlwaysClosed == Spec => []HistoryIsClosed
<1>1. Inv => HistoryIsClosed
  BY DEF Inv
<1> QED BY <1>1, Invariance, PTL

(* The status advances by one revision, for the lock's holder and from the  *)
(* status its caller named, and lists every report it drops.                *)
THEOREM StatusAlwaysAdvances == Spec => StatusAdvances
<1>1. Inv /\ [Next]_vars =>
          [status' # status =>
              /\ lock # NoProcess
              /\ req[lock].expected = status
              /\ status'.revision = status.revision + 1
              /\ status.invalidated \subseteq status'.invalidated
              /\ \A r \in Listed(status) \ Listed(status') :
                    [report |-> r, revision |-> status'.revision] \in status'.invalidated]_vars
  <2> SUFFICES ASSUME Inv, [Next]_vars, status' # status
               PROVE  /\ lock # NoProcess
                      /\ req[lock].expected = status
                      /\ status'.revision = status.revision + 1
                      /\ status.invalidated \subseteq status'.invalidated
                      /\ \A r \in Listed(status) \ Listed(status') :
                            [report |-> r, revision |-> status'.revision]
                                \in status'.invalidated
    OBVIOUS
  <2> QED BY StatusChanges DEF Advances, Listed
<1> QED BY <1>1, Invariance, PTL DEF Spec, StatusAdvances

(* A phase is only completed on reports for the snapshot it is about.       *)
THEOREM CompletionAlwaysCoherent == Spec => CompletionIsCoherent
<1>1. Inv /\ [Next]_vars =>
          [Len(status'.reports) > Len(status.reports) =>
              \A r \in Listed(status') : r.snap = status'.snap]_vars
  <2> SUFFICES ASSUME Inv, [Next]_vars, Len(status'.reports) > Len(status.reports)
               PROVE  \A r \in Listed(status') : r.snap = status'.snap
    OBVIOUS
  <2>1. Len(status.reports) \in Nat
    BY DEF Inv, TypeOK, WellFormed, Status
  <2>2. status' # status
    BY <2>1
  <2> QED BY <2>2, StatusChanges DEF Advances, Listed
<1> QED BY <1>1, Invariance, PTL DEF Spec, CompletionIsCoherent

(* What the service records was on disk together.                           *)
THEOREM AlwaysRecordedTogether == Spec => RecordedTogether
<1>1. Inv /\ [Next]_vars => [row' # row => scan.together]_vars
  BY RowChanges, EndFacts
<1> QED BY <1>1, Invariance, PTL DEF Spec, RecordedTogether
=============================================================================
