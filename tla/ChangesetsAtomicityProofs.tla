--------------------- MODULE ChangesetsAtomicityProofs ---------------------
(***************************************************************************)
(* Proofs that apply() is all or nothing: Changesets implements            *)
(* AtomicChangesets, for any changesets, paths, edits, crashes and starts. *)
(***************************************************************************)
EXTENDS ChangesetsProofs

USE DEF Absent, Orig, Foreign

(* What the all-or-nothing promise takes for granted of I/O errors: the     *)
(* journal write that commits is not hit, and no second error hits the      *)
(* roll-back after a first one (README, section 4).                         *)
SingleFault ==
    /\ "committing" \notin FaultSteps
    /\ MaxFaults <= 1 \/ FaultSteps \cap RollbackSteps = {}

-----------------------------------------------------------------------------
(* The shape of the files and journals                                      *)

Staging == {"writing", "staging", "filling"}

HasPartial(c) == \E p \in Paths : stage[c][p] = "partial"

(* Nothing of c is at a path or under a rollback name. *)
Clean(c) == \A p \in Paths : target[p] # c /\ keep[c][p] = Absent

NonDeletes(c) == {p \in OpPaths(c) : KindOf[c][p] # "delete"}

(* The rows say as much as the journals.                                    *)
RowOK ==
    /\ \A c \in Changesets :
        /\ Uncommitted(c) => status[c] = "applying"
        /\ journal[c].state = "files_committed" => status[c] \in {"applying", "applied"}
    /\ pc \in {"claimed", "release"} \cup ApplySteps \cup RollbackSteps =>
        status[cur] = "applying"
    /\ pc = "cleaning" => status[cur] = "applied"
    /\ pc \in {"claimed"} \cup ApplySteps => svc = "serving"
    /\ pc = "scan" => svc = "recovering"

(* A base is what the kinds of the operations call for, and never the       *)
(* changeset's own bytes.                                                   *)
BaseOK ==
    \A c \in Changesets : status[c] # "none" =>
        \A p \in OpPaths(c) : /\ base[c][p] # c
                              /\ KindOf[c][p] = "create" <=> base[c][p] = Absent

(* A changeset's bytes are at a path, or under another one's rollback name, *)
(* because it is applied, or at its own paths while it is pending.          *)
TargetOK ==
    \A c \in Changesets, p \in Paths : target[p] = c =>
        /\ p \in NonDeletes(c)
        /\ \/ Verdict[c] = "applied"
           \/ Uncommitted(c) /\ (KindOf[c][p] # "create" => keep[c][p] # Absent)

KeepOK ==
    \A c \in Changesets, p \in Paths : keep[c][p] # Absent =>
        /\ status[c] # "none"
        /\ keep[c][p] = base[c][p]
        /\ \A d \in Changesets : keep[c][p] = d =>
              Verdict[d] = "applied" /\ p \in NonDeletes(d)

(* What is pending besides the changeset at hand has a stage cut off in the *)
(* middle, and so has all but one of the pending.                           *)
LeftoverOK ==
    /\ svc = "serving" =>
        \A c \in Changesets \ {cur} : Uncommitted(c) => HasPartial(c)
    /\ \A c, d \in Changesets : c # d /\ Uncommitted(c) /\ Uncommitted(d) =>
        HasPartial(c) \/ HasPartial(d)

(* No path changes before every stage is complete and recorded.             *)
PhaseOK ==
    /\ \A c \in Changesets :
        /\ journal[c].state = "preparing" => Clean(c)
        /\ journal[c].state \in {"prepared", "applying"} =>
              ~HasPartial(c) /\ NonDeletes(c) \subseteq journal[c].staged
    /\ pc \in {"writing", "staging"} => ~HasPartial(cur)
    /\ pc = "filling" =>
        \A p, q \in Paths : stage[cur][p] = "partial" /\ stage[cur][q] = "partial" => p = q
    /\ pc \in {"staging", "filling"} =>
        mem.state = "preparing" /\ journal[cur].state = "preparing"
    /\ pc = "writing" =>
        /\ mem.state = "preparing" => journal[cur].state \in {"none", "preparing"}
        /\ mem.state = "prepared" => journal[cur].state = "preparing" /\ at = 0
        /\ mem.state = "applying" => journal[cur].state \in {"prepared", "applying"}
    /\ pc \in Forward => journal[cur].state \in {"prepared", "applying"}
    /\ pc \in Forward \/ (pc = "writing" /\ mem.state # "preparing") =>
        NonDeletes(cur) \subseteq mem.staged
    /\ pc \in RollbackSteps =>
        /\ journal[cur].state # "files_committed"
        /\ \A p \in Paths : target[p] = cur => p \in mem.staged
    /\ pc = "release" => journal[cur].state = "none"

(* The operations behind apply() and before it.                             *)
ForwardOK ==
    /\ pc \in {"writing"} \cup Forward =>
        \A i \in 1..at : /\ target[Order[cur][i]] = Proposed(cur, Order[cur][i])
                         /\ Kind(Order[cur][i]) # "create" => keep[cur][Order[cur][i]] # Absent
    /\ pc \in {"writing", "operating", "moving", "vacant"} =>
        \A i \in (at + 1)..Last : target[Order[cur][i]] # cur
    /\ pc = "linked" =>
        /\ \A i \in (at + 2)..Last : target[Order[cur][i]] # cur
        /\ target[NextOp] = cur
    /\ pc = "moving" => target[NextOp] # Absent /\ Kind(NextOp) # "create"
    /\ pc = "vacant" => /\ target[NextOp] = Absent /\ keep[cur][NextOp] # Absent
                        /\ Kind(NextOp) # "create"
    /\ pc = "committing" => at = Last

(* The operations undone by a roll-back.                                    *)
BackwardOK ==
    /\ pc \in RollbackSteps => \A i \in (at + 1)..Last : target[Order[cur][i]] # cur
    /\ pc \in {"rb_keep", "rb_unlink", "rb_stage"} => target[ThisOp] # cur

(* While apply() works, its paths hold their bases but for its own doing;   *)
(* it rolls back only after an error.                                       *)
InPlaceOK ==
    svc = "serving" =>
        /\ pc \in Staging \cup Forward \cup RollbackSteps =>
            \A p \in OpPaths(cur) : Provisional(cur, p) \/ target[p] = base[cur][p]
        /\ pc \in RollbackSteps => faults >= 1

ShapeOK ==
    /\ RowOK /\ BaseOK /\ TargetOK /\ KeepOK /\ LeftoverOK
    /\ PhaseOK /\ ForwardOK /\ BackwardOK /\ InPlaceOK

(* Another changeset on the same path is applied.                           *)
Overruled(c, p) ==
    \E d \in Changesets \ {c} : p \in OpPaths(d) /\ Verdict[d] = "applied"

(* What a pending changeset's paths hold once everything is settled.        *)
SettledOK ==
    \A c \in Changesets : \A p \in OpPaths(c) \ edited :
        /\ Uncommitted(c) => Settled[p] = base[c][p] \/ Overruled(c, p)
        /\ journal[c].state = "files_committed" =>
              Settled[p] = Proposed(c, p) \/ Overruled(c, p)


ShapeInv == KeptInv /\ ShapeOK

-----------------------------------------------------------------------------
(* What steps have in common                                                *)

(* Nothing that is applied is ever taken back. *)
AppliedStays == \A d \in Changesets : Verdict[d] = "applied" => Verdict'[d] = "applied"

(* The operations of a record and their order. *)
RecordOK(c) ==
    /\ Len(Order[c]) \in Nat \ {0}
    /\ OpPaths(c) \subseteq Paths
    /\ \A i \in 1..Len(Order[c]) : Order[c][i] \in OpPaths(c)
    /\ \A p \in OpPaths(c) : \E i \in 1..Len(Order[c]) : p = Order[c][i]
    /\ \A i, j \in 1..Len(Order[c]) : Order[c][i] = Order[c][j] => i = j
    /\ \A p \in OpPaths(c) : KindOf[c][p] \in Kinds

(***************************************************************************)
(* A record lists each of its paths once.                                  *)
(***************************************************************************)
LEMMA RecordOrder == \A c \in Changesets : RecordOK(c)
BY RecordFacts, ChangesetsAssumption DEF OpPaths, RecordOK

(***************************************************************************)
(* Rollback files that at most disappear keep what is known of them.       *)
(***************************************************************************)
LEMMA KeepFrame ==
    ASSUME KeepOK, AppliedStays,
           \A c \in Changesets : status[c] # "none" =>
              status'[c] # "none" /\ base'[c] = base[c],
           \A c \in Changesets, p \in Paths : keep'[c][p] \in {Absent, keep[c][p]}
    PROVE  KeepOK'
<1> SUFFICES ASSUME NEW c \in Changesets, NEW p \in Paths, keep'[c][p] # Absent
             PROVE  /\ status'[c] # "none"
                    /\ keep'[c][p] = base'[c][p]
                    /\ \A d \in Changesets : keep'[c][p] = d =>
                          Verdict'[d] = "applied" /\ p \in NonDeletes(d)
  BY DEF KeepOK, NonDeletes
<1>1. keep'[c][p] = keep[c][p]
  OBVIOUS
<1>2. status[c] # "none" /\ keep[c][p] = base[c][p]
  BY <1>1 DEF KeepOK
<1>3. \A d \in Changesets : keep[c][p] = d => Verdict[d] = "applied" /\ p \in NonDeletes(d)
  BY <1>1 DEF KeepOK
<1> QED
  BY <1>1, <1>2, <1>3 DEF AppliedStays

(***************************************************************************)
(* So do the bytes of a changeset at a path, while it is still pending or  *)
(* once it is applied.                                                     *)
(***************************************************************************)
LEMMA TargetFrame ==
    ASSUME TargetOK, AppliedStays,
           \A c \in Changesets, p \in Paths : target'[p] = c =>
              /\ target[p] = c
              /\ Uncommitted(c) =>
                   \/ Verdict'[c] = "applied"
                   \/ Uncommitted(c)' /\ (keep[c][p] # Absent => keep'[c][p] # Absent)
    PROVE  TargetOK'
<1> SUFFICES ASSUME NEW c \in Changesets, NEW p \in Paths, target'[p] = c
             PROVE  /\ p \in NonDeletes(c)
                    /\ \/ Verdict'[c] = "applied"
                       \/ Uncommitted(c)' /\ (KindOf[c][p] # "create" => keep'[c][p] # Absent)
  BY DEF TargetOK, NonDeletes
<1>1. p \in NonDeletes(c)
  BY DEF TargetOK
<1>2. CASE Verdict[c] = "applied"
  BY <1>1, <1>2 DEF AppliedStays
<1>3. CASE Uncommitted(c) /\ (KindOf[c][p] # "create" => keep[c][p] # Absent)
  BY <1>1, <1>3
<1> QED
  BY <1>2, <1>3 DEF TargetOK

(***************************************************************************)
(* No new journal, no stage completed, and what the service leaves behind  *)
(* has a stage cut off.                                                    *)
(***************************************************************************)
LEMMA LeftoverFrame ==
    ASSUME LeftoverOK,
           \A c \in Changesets : Uncommitted(c)' =>
              Uncommitted(c) /\ (HasPartial(c) => HasPartial(c)'),
           svc' = "serving" =>
              /\ svc = "serving"
              /\ \A c \in Changesets : c = cur /\ c # cur' /\ Uncommitted(c)' => HasPartial(c)'
    PROVE  LeftoverOK'
<1>1. ASSUME svc' = "serving", NEW c \in Changesets \ {cur'}, Uncommitted(c)'
      PROVE  HasPartial(c)'
  BY <1>1 DEF LeftoverOK
<1>2. ASSUME NEW c \in Changesets, NEW d \in Changesets, c # d, Uncommitted(c)',
             Uncommitted(d)'
      PROVE  HasPartial(c)' \/ HasPartial(d)'
  BY <1>2 DEF LeftoverOK
<1> QED
  BY <1>1, <1>2 DEF LeftoverOK, HasPartial, Uncommitted

(***************************************************************************)
(* Before and after the work on its files nothing is claimed of them.      *)
(***************************************************************************)
LEMMA AtRest ==
    ASSUME pc' \in {"idle", "scan", "claimed", "release"} \cup FinalSteps
    PROVE  ForwardOK' /\ BackwardOK' /\ InPlaceOK'
BY DEF ForwardOK, BackwardOK, InPlaceOK, Staging, Forward, RollbackSteps, FinalSteps

(***************************************************************************)
(* The same for the journals, which steps that change no file leave alone. *)
(***************************************************************************)
LEMMA PhaseAtRest ==
    ASSUME PhaseOK, UNCHANGED <<target, stage, keep, journal>>,
           pc' \in {"idle", "scan", "claimed"} \cup FinalSteps
    PROVE  PhaseOK'
BY DEF PhaseOK, HasPartial, Clean, NonDeletes, Forward, RollbackSteps, FinalSteps

(***************************************************************************)
(* While the service serves, nobody else's bytes are provisional.          *)
(***************************************************************************)
LEMMA OthersClean ==
    ASSUME LeftoverOK, PhaseOK, TypeOK, svc = "serving",
           NEW c \in Changesets, c # cur, Uncommitted(c)
    PROVE  Clean(c)
<1>1. HasPartial(c)
  BY DEF LeftoverOK
<1>2. journal[c].state \in JournalStates \ {"none", "files_committed"}
  BY DEF TypeOK, Journal, Uncommitted
<1> QED
  BY <1>1, <1>2 DEF PhaseOK, JournalStates

(***************************************************************************)
(* At most one changeset's bytes or rollback files are provisional.        *)
(***************************************************************************)
LEMMA OneDirty ==
    ASSUME LeftoverOK, PhaseOK, TypeOK, NEW c \in Changesets, NEW d \in Changesets, c # d,
           Uncommitted(c), Uncommitted(d)
    PROVE  Clean(c) \/ Clean(d)
<1>1. HasPartial(c) \/ HasPartial(d)
  BY DEF LeftoverOK
<1>2. \A e \in {c, d} : journal[e].state \in JournalStates \ {"none", "files_committed"}
  BY DEF TypeOK, Journal, Uncommitted
<1> QED
  BY <1>1, <1>2 DEF PhaseOK, JournalStates

(***************************************************************************)
(* A commit is never taken back: no step undoes an applied verdict.        *)
(***************************************************************************)
LEMMA NextApplied == ShapeInv /\ [Next]_vars => AppliedStays
<1> SUFFICES ASSUME ShapeInv, [Next]_vars PROVE AppliedStays
  OBVIOUS
<1> USE DEF ShapeInv, ShapeOK, KeptInv, ResidueInv, PlaceInv, AppliedStays, Verdict
<1>1. ASSUME NEW c \in Changesets, Create(c) \/ Approve(c) \/ Reject(c) \/ Apply(c)
      PROVE  AppliedStays
  BY <1>1 DEF TypeOK, Create, Approve, Reject, Apply
<1>2. ASSUME NEW c \in Changesets, ReleaseOrphan(c)
      PROVE  AppliedStays
  BY <1>2 DEF TypeOK, ReleaseOrphan, NoJournal
<1>3. CASE WriteJournal \/ WriteCommit
  <2>1. /\ cur \in Changesets /\ status[cur] = "applying"
        /\ journal[cur].state # "files_committed"
    BY <1>3 DEF PlaceOK, RowOK, JournalOK, WriteJournal, WriteCommit, ApplySteps, Forward
  <2> QED
    BY <1>3, <2>1 DEF TypeOK, WriteJournal, WriteCommit, rows
<1>4. CASE Fault
  <2>1. UNCHANGED status
    BY <1>4 DEF Fault, rows
  <2>2. UNCHANGED journal \/ \E v : journal' = [journal EXCEPT ![cur] = v]
                                    /\ cur \in Changesets /\ pc \in {"writing", "committing"}
    BY <1>4 DEF Fault, PlaceOK
  <2>3. cur \in Changesets /\ pc \in {"writing", "committing"} =>
           journal[cur].state # "files_committed" /\ status[cur] = "applying"
    BY DEF RowOK, JournalOK, ApplySteps, Forward
  <2> QED
    BY <2>1, <2>2, <2>3 DEF TypeOK
<1>5. CASE Finalize
  <2>1. cur \in Changesets
    BY <1>5 DEF Finalize, PlaceOK
  <2> QED
    BY <1>5, <2>1 DEF TypeOK, Finalize
<1>6. CASE RetireJournal
  <2>1. cur \in Changesets /\ status[cur] = "applied"
    BY <1>6 DEF RetireJournal, PlaceOK, RowOK
  <2> QED
    BY <1>6, <2>1 DEF TypeOK, RetireJournal, rows
<1>7. CASE RollbackJournal
  <2>1. /\ cur \in Changesets /\ status[cur] = "applying"
        /\ journal[cur].state # "files_committed"
    BY <1>7 DEF RollbackJournal, PlaceOK, RowOK, PhaseOK, RollbackSteps
  <2> QED
    BY <1>7, <2>1 DEF TypeOK, RollbackJournal, rows
<1>8. CASE Release
  <2>1. /\ cur \in Changesets /\ status[cur] = "applying"
        /\ journal[cur].state # "files_committed"
    BY <1>8 DEF Release, PlaceOK, RowOK, PhaseOK
  <2> QED
    BY <1>8, <2>1 DEF TypeOK, Release
<1>9. CASE UNCHANGED <<status, journal>>
  BY <1>9
<1>10. CASE \/ \E c \in Changesets : Recover(c)
            \/ Prepare \/ CreateStage \/ FillStage \/ AllStaged
            \/ LinkRollback \/ UnlinkBase \/ DeleteDone \/ LinkTarget \/ UnlinkStage
            \/ AllOperationsDone \/ CleanRollback \/ RollbackTarget \/ RollbackKeep
            \/ RollbackUnlink \/ RollbackStage \/ Serve \/ Crash \/ Start
            \/ (\E p \in Paths : Edit(p)) \/ UNCHANGED vars
  BY <1>9, <1>10 DEF Recover, Prepare, CreateStage, FillStage, AllStaged, LinkRollback,
     UnlinkBase, DeleteDone, LinkTarget, UnlinkStage, AllOperationsDone, CleanRollback,
     RollbackTarget, RollbackKeep, RollbackUnlink, RollbackStage, Serve, Crash, Start,
     Edit, vars, rows
<1> QED
  BY <1>1, <1>2, <1>3, <1>4, <1>5, <1>6, <1>7, <1>8, <1>10 DEF Next, ServiceStep

-----------------------------------------------------------------------------
(* Requests and what takes a changeset up                                   *)

(***************************************************************************)
(* A request, and the release of an orphaned claim, change rows only.      *)
(***************************************************************************)
LEMMA RowsShape ==
    ASSUME ShapeInv, KeptInv', AppliedStays, NEW c \in Changesets,
           Create(c) \/ Approve(c) \/ Reject(c) \/ ReleaseOrphan(c)
    PROVE  ShapeOK'
<1> USE DEF ShapeInv, ShapeOK, KeptInv, ResidueInv, PlaceInv, Forward, FinalSteps,
          RollbackSteps, ApplySteps
<1>1. UNCHANGED <<journal, target, stage, keep, svc, pc, cur, mem, at>>
      /\ pc \in {"idle", "scan"}
  BY DEF Create, Approve, Reject, ReleaseOrphan, Serving, LockFree, files, control
<1>2. RowOK'
  <2>1. ~Uncommitted(c) /\ journal[c].state # "files_committed"
    BY DEF RowOK, Uncommitted, NoJournal, Create, Approve, Reject, ReleaseOrphan
  <2>2. \A d \in Changesets : d # c => status'[d] = status[d]
    BY DEF TypeOK, Create, Approve, Reject, ReleaseOrphan
  <2> QED
    BY <1>1, <2>1, <2>2 DEF RowOK, Uncommitted
<1>3. BaseOK'
  <2>1. CASE Create(c)
    <3>1. \A p \in Paths : target[p] # c
      BY <2>1 DEF TargetOK, RowOK, Verdict, Create
    <3>2. \A d \in Changesets : d # c => status'[d] = status[d] /\ base'[d] = base[d]
      BY <2>1 DEF Create, TypeOK
    <3>3. base'[c] = target /\ BaseFits(c) /\ RecordOK(c)
      BY <2>1, RecordOrder DEF Create, TypeOK
    <3> QED
      BY <3>1, <3>2, <3>3 DEF BaseOK, BaseFits, RecordOK
  <2>2. CASE Approve(c) \/ Reject(c) \/ ReleaseOrphan(c)
    <3>1. \A d \in Changesets : status'[d] # "none" => status[d] # "none"
      BY <2>2 DEF TypeOK, Approve, Reject, ReleaseOrphan
    <3>2. UNCHANGED base
      BY <2>2 DEF Approve, Reject, ReleaseOrphan
    <3> QED
      BY <3>1, <3>2 DEF BaseOK
  <2> QED
    BY <2>1, <2>2
<1>4. TargetOK'
  BY <1>1, TargetFrame DEF Uncommitted
<1>5. KeepOK'
  <2>1. \A d \in Changesets : status[d] # "none" => status'[d] # "none" /\ base'[d] = base[d]
    BY DEF TypeOK, Create, Approve, Reject, ReleaseOrphan
  <2> QED
    BY <1>1, <2>1, KeepFrame
<1>6. LeftoverOK'
  BY <1>1, LeftoverFrame DEF Uncommitted, HasPartial
<1>7. PhaseOK' /\ ForwardOK' /\ BackwardOK' /\ InPlaceOK'
  BY <1>1, PhaseAtRest, AtRest
<1> QED
  BY <1>2, <1>3, <1>4, <1>5, <1>6, <1>7

(***************************************************************************)
(* apply() claims a changeset that has no journal.                         *)
(***************************************************************************)
LEMMA ApplyShape ==
    ASSUME ShapeInv, KeptInv', AppliedStays, NEW c \in Changesets, Apply(c)
    PROVE  ShapeOK'
<1> USE DEF ShapeInv, ShapeOK, KeptInv, ResidueInv, PlaceInv, Forward, FinalSteps,
          RollbackSteps, ApplySteps
<1>1. /\ UNCHANGED <<journal, target, stage, keep, base, svc>> /\ pc' = "claimed"
      /\ cur \notin Changesets /\ status' = [status EXCEPT ![c] = "applying"]
      /\ status[c] = "approved"
  BY ChangesetsAssumption DEF Apply, Serving, files, PlaceOK
<1>2. RowOK'
  BY DEF RowOK, Apply, Serving, NoJournal, Uncommitted, TypeOK, files
<1>3. BaseOK'
  BY <1>1 DEF BaseOK, TypeOK
<1>4. TargetOK'
  BY <1>1, TargetFrame DEF Uncommitted
<1>5. KeepOK'
  <2>1. \A d \in Changesets : status[d] # "none" => status'[d] # "none"
    BY <1>1 DEF TypeOK
  <2> QED
    BY <1>1, <2>1, KeepFrame
<1>6. LeftoverOK'
  BY <1>1, LeftoverFrame DEF Uncommitted, HasPartial
<1>7. PhaseOK' /\ ForwardOK' /\ BackwardOK' /\ InPlaceOK'
  BY <1>1, PhaseAtRest, AtRest
<1> QED
  BY <1>2, <1>3, <1>4, <1>5, <1>6, <1>7

(***************************************************************************)
(* Recovery takes up a journal, whose record of stages is complete once    *)
(* any of its bytes are at a path.                                         *)
(***************************************************************************)
LEMMA RecoverShape ==
    ASSUME ShapeInv, KeptInv', AppliedStays, NEW c \in Changesets, Recover(c)
    PROVE  ShapeOK'
<1> USE DEF ShapeInv, ShapeOK, KeptInv, ResidueInv, PlaceInv, Forward, FinalSteps,
          RollbackSteps, ApplySteps
<1>1. /\ UNCHANGED <<journal, target, stage, keep, base, status, svc>> /\ svc = "recovering"
      /\ cur' = c /\ mem' = journal[c]
      /\ journal[c].state # "none"
      /\ \/ pc' = "finalizing" /\ journal[c].state = "files_committed"
         \/ /\ pc' = "rb_target" /\ journal[c].state # "files_committed"
            /\ at' = Len(Order[c]) /\ status[c] = "applying"
  BY DEF Recover, rows, files, RowOK, KeptOK
<1>2. RowOK'
  BY <1>1 DEF RowOK, Uncommitted
<1>3. BaseOK'
  BY <1>1 DEF BaseOK
<1>4. TargetOK'
  BY <1>1, TargetFrame DEF Uncommitted
<1>5. KeepOK'
  BY <1>1, KeepFrame
<1>6. LeftoverOK'
  BY <1>1, LeftoverFrame DEF Uncommitted, HasPartial
<1>7. PhaseOK' /\ ForwardOK' /\ BackwardOK' /\ InPlaceOK'
  <2>1. CASE pc' = "finalizing"
    BY <1>1, <2>1, PhaseAtRest, AtRest
  <2>2. CASE pc' = "rb_target"
    <3>1. journal[c].state \in {"preparing", "prepared", "applying"}
      BY <1>1, <2>2 DEF TypeOK, Journal, JournalStates
    <3>2. \A p \in Paths : target[p] = c => p \in journal[c].staged
      BY <3>1, <1>1, <2>2 DEF PhaseOK, Clean, TargetOK
    <3>3. PhaseOK'
      BY <1>1, <2>2, <3>2 DEF PhaseOK, HasPartial, Clean, NonDeletes
    <3>4. ForwardOK' /\ BackwardOK' /\ InPlaceOK'
      BY <1>1, <2>2, RecordFacts DEF ForwardOK, BackwardOK, InPlaceOK, Last
    <3> QED
      BY <3>3, <3>4
  <2> QED
    BY <1>1, <2>1, <2>2
<1> QED
  BY <1>2, <1>3, <1>4, <1>5, <1>6, <1>7

-----------------------------------------------------------------------------
(* apply() forward                                                          *)

(***************************************************************************)
(* The comparison of the bases finds every path as it was reviewed.        *)
(***************************************************************************)
LEMMA PrepareShape ==
    ASSUME ShapeInv, KeptInv', AppliedStays, Prepare
    PROVE  ShapeOK'
<1> USE DEF ShapeInv, ShapeOK, KeptInv, ResidueInv, PlaceInv, Forward, FinalSteps,
          RollbackSteps, ApplySteps
<1>1. /\ UNCHANGED <<journal, target, stage, keep, base, status, svc, cur, at>>
      /\ pc = "claimed" /\ cur \in Changesets /\ at = 0 /\ svc = "serving"
      /\ journal[cur] = NoJournal /\ status[cur] = "applying"
  BY DEF Prepare, Goto, rows, files, PlaceOK, JournalOK, RowOK
<1>2. \/ pc' = "release"
      \/ /\ pc' = "writing" /\ mem' = [state |-> "preparing", staged |-> {}]
         /\ \A p \in OpPaths(cur) : target[p] = base[cur][p]
  BY DEF Prepare, Goto
<1>3. Clean(cur) /\ ~HasPartial(cur)
  BY <1>1 DEF NoResidue, Clean, HasPartial, TargetOK, Verdict, Uncommitted, NoJournal
<1>4. RowOK' /\ BaseOK'
  BY <1>1, <1>2 DEF RowOK, BaseOK, Uncommitted
<1>5. TargetOK'
  BY <1>1, TargetFrame DEF Uncommitted
<1>6. KeepOK'
  BY <1>1, KeepFrame
<1>7. LeftoverOK'
  BY <1>1, LeftoverFrame DEF Uncommitted, HasPartial
<1>8. PhaseOK'
  BY <1>1, <1>2, <1>3 DEF PhaseOK, HasPartial, Clean, NonDeletes, NoJournal
<1>9. ForwardOK' /\ BackwardOK' /\ InPlaceOK'
  <2>1. CASE pc' = "release"
    BY <2>1, AtRest
  <2>2. CASE pc' = "writing"
    <3>1. \A i \in 1..Last : Order[cur][i] \in Paths
      BY <1>1, RecordOrder DEF RecordOK, Last
    <3>2. ForwardOK' /\ BackwardOK'
      BY <1>1, <1>3, <2>2, <3>1 DEF ForwardOK, BackwardOK, Clean, Last
    <3>3. InPlaceOK'
      BY <1>1, <1>2, <2>2 DEF InPlaceOK
    <3> QED
      BY <3>2, <3>3
  <2> QED
    BY <1>2, <2>1, <2>2
<1> QED
  BY <1>4, <1>5, <1>6, <1>7, <1>8, <1>9

(***************************************************************************)
(* A journal is written or replaced.                                       *)
(***************************************************************************)
LEMMA WriteJournalShape ==
    ASSUME ShapeInv, KeptInv', AppliedStays, WriteJournal
    PROVE  ShapeOK'
<1> USE DEF ShapeInv, ShapeOK, KeptInv, ResidueInv, PlaceInv, Forward, FinalSteps,
          RollbackSteps, ApplySteps
<1>1. /\ UNCHANGED <<target, stage, keep, base, status, svc, cur, mem, at, faults>>
      /\ pc = "writing" /\ cur \in Changesets /\ svc = "serving" /\ status[cur] = "applying"
      /\ mem.state \in {"preparing", "prepared", "applying"}
      /\ pc' = IF mem.state = "preparing" THEN "staging" ELSE "operating"
      /\ journal'[cur] = mem
      /\ \A d \in Changesets : d # cur => journal'[d] = journal[d]
  BY DEF WriteJournal, Goto, rows, files, world, TypeOK, PlaceOK, JournalOK, RowOK
<1>2. Uncommitted(cur)' /\ \A d \in Changesets : Uncommitted(d) => Uncommitted(d)'
  BY <1>1 DEF Uncommitted
<1>3. journal[cur].state \in {"none", "preparing"} => Clean(cur)
  <2>1. journal[cur].state = "none" => Clean(cur)
    BY <1>1 DEF NoResidue, KeptOK, Clean, TargetOK, Verdict, Uncommitted
  <2> QED
    BY <1>1, <2>1 DEF PhaseOK
<1>4. RowOK' /\ BaseOK'
  BY <1>1 DEF RowOK, BaseOK, Uncommitted
<1>5. TargetOK'
  BY <1>1, <1>2, TargetFrame
<1>6. KeepOK'
  BY <1>1, KeepFrame
<1>7. LeftoverOK'
  <2>1. \A c \in Changesets \ {cur} : Uncommitted(c)' => HasPartial(c)'
    BY <1>1 DEF LeftoverOK, Uncommitted, HasPartial
  <2> QED
    BY <1>1, <2>1 DEF LeftoverOK, HasPartial, Uncommitted
<1>8. PhaseOK'
  <2>1. \A c \in Changesets : (HasPartial(c)' <=> HasPartial(c)) /\ (Clean(c)' <=> Clean(c))
    BY <1>1 DEF HasPartial, Clean
  <2>2. mem.state = "preparing" => Clean(cur)
    BY <1>1, <1>3 DEF PhaseOK
  <2>3. mem.state # "preparing" => NonDeletes(cur) \subseteq mem.staged
    BY <1>1 DEF PhaseOK
  <2>4. ~HasPartial(cur)
    BY <1>1 DEF PhaseOK
  <2>5. \A c \in Changesets :
          /\ journal'[c].state = "preparing" => Clean(c)'
          /\ journal'[c].state \in {"prepared", "applying"} =>
                ~HasPartial(c)' /\ NonDeletes(c) \subseteq journal'[c].staged
    BY <1>1, <2>1, <2>2, <2>3, <2>4 DEF PhaseOK
  <2> QED
    BY <1>1, <2>1, <2>3, <2>4, <2>5 DEF PhaseOK, NonDeletes
<1>9. ForwardOK' /\ BackwardOK'
  BY <1>1 DEF ForwardOK, BackwardOK, Proposed, Last, Kind
<1>10. InPlaceOK'
  BY <1>1, <1>2 DEF InPlaceOK, Provisional, Staging
<1> QED
  BY <1>4, <1>5, <1>6, <1>7, <1>8, <1>9, <1>10

(***************************************************************************)
(* A stage is created, filled and synced.                                  *)
(***************************************************************************)
LEMMA StageShape ==
    ASSUME ShapeInv, KeptInv', AppliedStays, CreateStage \/ FillStage
    PROVE  ShapeOK'
<1> USE DEF ShapeInv, ShapeOK, KeptInv, ResidueInv, PlaceInv, Forward, FinalSteps,
          RollbackSteps, ApplySteps
<1>1. /\ UNCHANGED <<target, journal, keep, base, status, svc, cur, at, faults>>
      /\ pc \in {"staging", "filling"} /\ cur \in Changesets /\ svc = "serving"
      /\ status[cur] = "applying" /\ at = 0
      /\ mem.state = "preparing" /\ journal[cur].state = "preparing"
      /\ RecordOK(cur)
  BY RecordOrder DEF CreateStage, FillStage, Goto, rows, world, TypeOK, PlaceOK, PhaseOK,
     RowOK
<1>2. PICK p \in OpPaths(cur) :
        \/ /\ pc = "staging" /\ pc' = "filling" /\ UNCHANGED mem
           /\ stage' = [stage EXCEPT ![cur][p] = "partial"]
        \/ /\ pc = "filling" /\ pc' = "writing" /\ stage[cur][p] = "partial"
           /\ stage' = [stage EXCEPT ![cur][p] = "full"]
           /\ mem' = [mem EXCEPT !.staged = @ \cup {p}]
  BY <1>1 DEF CreateStage, FillStage, Goto, RecordOK, Last
<1>3. /\ p \in Paths
      /\ \A d \in Changesets, q \in Paths : d # cur \/ q # p => stage'[d][q] = stage[d][q]
      /\ stage'[cur][p] = IF pc = "staging" THEN "partial" ELSE "full"
  BY <1>1, <1>2 DEF TypeOK, RecordOK
<1>4. mem'.state = "preparing"
  BY <1>1, <1>2 DEF TypeOK, Journal
<1>5. Clean(cur)
  BY <1>1 DEF PhaseOK
<1>6. RowOK' /\ BaseOK'
  BY <1>1, <1>2 DEF RowOK, BaseOK, Uncommitted
<1>7. TargetOK'
  BY <1>1, TargetFrame DEF Uncommitted
<1>8. KeepOK'
  BY <1>1, KeepFrame
<1>9. LeftoverOK'
  <2>1. \A c \in Changesets \ {cur} : HasPartial(c)' <=> HasPartial(c)
    BY <1>1, <1>3 DEF HasPartial
  <2>2. \A c \in Changesets : Uncommitted(c)' <=> Uncommitted(c)
    BY <1>1 DEF Uncommitted
  <2>3. \A c \in Changesets \ {cur'} : Uncommitted(c)' => HasPartial(c)'
    BY <1>1, <2>1, <2>2 DEF LeftoverOK
  <2> QED
    BY <1>1, <2>3 DEF LeftoverOK, HasPartial, Uncommitted
<1>10. PhaseOK'
  <2>1. \A c \in Changesets \ {cur} : HasPartial(c)' <=> HasPartial(c)
    BY <1>1, <1>3 DEF HasPartial
  <2>2. \A c \in Changesets : Clean(c)' <=> Clean(c)
    BY <1>1 DEF Clean
  <2>3. \A c \in Changesets :
          /\ journal'[c].state = "preparing" => Clean(c)'
          /\ journal'[c].state \in {"prepared", "applying"} =>
                ~HasPartial(c)' /\ NonDeletes(c) \subseteq journal'[c].staged
    BY <1>1, <2>1, <2>2 DEF PhaseOK
  <2>4. CASE pc = "staging"
    <3>1. \A q \in Paths : stage'[cur][q] = "partial" => q = p
      BY <1>1, <1>3, <2>4 DEF PhaseOK, HasPartial
    <3> QED
      BY <1>1, <1>2, <1>4, <2>3, <2>4, <3>1 DEF PhaseOK, NonDeletes
  <2>5. CASE pc = "filling"
    <3>1. \A q \in Paths : stage'[cur][q] # "partial"
      BY <1>1, <1>2, <1>3, <2>5 DEF PhaseOK
    <3> QED
      BY <1>1, <1>2, <1>4, <2>3, <2>5, <3>1 DEF PhaseOK, HasPartial, NonDeletes
  <2> QED
    BY <1>1, <2>4, <2>5
<1>11. ForwardOK' /\ BackwardOK'
  <2>1. \A i \in 1..Last : target[Order[cur][i]] # cur
    BY <1>1, <1>5 DEF Clean, RecordOK, Last
  <2> QED
    BY <1>1, <1>2, <2>1 DEF ForwardOK, BackwardOK, Last
<1>12. InPlaceOK'
  BY <1>1, <1>2 DEF InPlaceOK, Provisional, Uncommitted, Staging
<1> QED
  BY <1>6, <1>7, <1>8, <1>9, <1>10, <1>11, <1>12

(***************************************************************************)
(* All stages are complete, or all operations are done.                    *)
(***************************************************************************)
LEMMA AllDoneShape ==
    ASSUME ShapeInv, KeptInv', AppliedStays, AllStaged \/ AllOperationsDone
    PROVE  ShapeOK'
<1> USE DEF ShapeInv, ShapeOK, KeptInv, ResidueInv, PlaceInv, Forward, FinalSteps,
          RollbackSteps, ApplySteps
<1>1. /\ UNCHANGED <<target, stage, keep, journal, base, status, svc, cur, at, faults>>
      /\ cur \in Changesets /\ RecordOK(cur) /\ status[cur] = "applying"
      /\ mem \in Journal /\ mem'.staged = mem.staged /\ svc = "serving"
      /\ \/ /\ pc = "staging" /\ pc' = "writing" /\ ToStage = {} /\ at = 0
            /\ mem'.state = "prepared" /\ journal[cur].state = "preparing"
         \/ /\ pc = "operating" /\ pc' = "committing" /\ at = Last
            /\ mem'.state = "files_committed"
  BY RecordOrder DEF AllStaged, AllOperationsDone, Goto, rows, files, world, TypeOK, PlaceOK,
     Journal, RowOK, PhaseOK
<1>2. RowOK' /\ BaseOK'
  BY <1>1 DEF RowOK, BaseOK, Uncommitted
<1>3. TargetOK'
  BY <1>1, TargetFrame DEF Uncommitted
<1>4. KeepOK'
  BY <1>1, KeepFrame
<1>5. LeftoverOK'
  BY <1>1, LeftoverFrame DEF Uncommitted, HasPartial
<1>6. PhaseOK'
  <2>1. pc = "staging" => NonDeletes(cur) \subseteq mem.staged
    BY <1>1 DEF ToStage, NonDeletes, Kind
  <2> QED
    BY <1>1, <2>1 DEF PhaseOK, HasPartial, Clean, NonDeletes
<1>7. ForwardOK' /\ BackwardOK'
  <2>1. pc = "staging" => \A i \in 1..Last : target[Order[cur][i]] # cur
    BY <1>1 DEF PhaseOK, Clean, RecordOK, Last
  <2> QED
    BY <1>1, <2>1 DEF ForwardOK, BackwardOK, Proposed, Last, Kind
<1>8. InPlaceOK'
  BY <1>1 DEF InPlaceOK, Provisional, Uncommitted, Staging
<1> QED
  BY <1>2, <1>3, <1>4, <1>5, <1>6, <1>7, <1>8

(***************************************************************************)
(* The operation at hand: its path is no other operation's.                *)
(***************************************************************************)
LEMMA NextOpFacts ==
    ASSUME TypeOK, cur \in Changesets, at < Last
    PROVE  /\ NextOp \in OpPaths(cur) /\ NextOp \in Paths
           /\ at \in Nat /\ Last \in Nat /\ at + 1 \in 1..Last
           /\ \A i \in 1..Last : Order[cur][i] \in Paths
           /\ \A i \in 1..Last : i # at + 1 => Order[cur][i] # NextOp
<1>1. RecordOK(cur) /\ at \in Nat
  BY RecordOrder DEF TypeOK
<1> QED
  BY <1>1 DEF RecordOK, Last, NextOp

(***************************************************************************)
(* A rollback name is linked to the base.                                  *)
(***************************************************************************)
LEMMA LinkRollbackShape ==
    ASSUME ShapeInv, KeptInv', AppliedStays, LinkRollback
    PROVE  ShapeOK'
<1> USE DEF ShapeInv, ShapeOK, KeptInv, ResidueInv, PlaceInv, Forward, FinalSteps,
          RollbackSteps, ApplySteps
<1> DEFINE p == NextOp
<1>1. /\ UNCHANGED <<target, stage, journal, base, status, svc, cur, mem, at, faults>>
      /\ pc = "operating" /\ pc' = "moving" /\ at < Last /\ Kind(p) # "create"
      /\ cur \in Changesets /\ svc = "serving" /\ status[cur] = "applying"
      /\ journal[cur].state \in {"prepared", "applying"}
  BY DEF LinkRollback, Goto, rows, world, PlaceOK, RowOK, PhaseOK
<1>2. /\ p \in OpPaths(cur) /\ p \in Paths /\ at \in Nat /\ Last \in Nat /\ at + 1 \in 1..Last
      /\ \A i \in 1..Last : i # at + 1 => Order[cur][i] # p
      /\ \A i \in 1..Last : Order[cur][i] \in Paths
      /\ Order[cur][at + 1] = p
  BY <1>1, NextOpFacts DEF NextOp
<1>3. /\ keep'[cur][p] = target[p]
      /\ \A c \in Changesets, q \in Paths : c # cur \/ q # p => keep'[c][q] = keep[c][q]
  BY <1>1, <1>2 DEF LinkRollback, TypeOK
<1>4. keep[cur][p] = Absent /\ target[p] # cur
  BY <1>1, <1>2 DEF KeptOK, Untouched, ForwardOK
<1>5. target[p] = base[cur][p] /\ target[p] # Absent
  <2>1. target[p] = base[cur][p]
    BY <1>1, <1>2, <1>4 DEF InPlaceOK, Provisional
  <2> QED
    BY <1>1, <1>2, <2>1 DEF BaseOK, Kind
<1> HIDE DEF p
<1>6. RowOK' /\ BaseOK'
  BY <1>1 DEF RowOK, BaseOK, Uncommitted
<1>7. TargetOK'
  BY <1>1, <1>2, <1>3, <1>5, TargetFrame DEF Uncommitted
<1>8. KeepOK'
  <2>1. ASSUME NEW c \in Changesets, NEW q \in Paths, keep'[c][q] # Absent
        PROVE  /\ status'[c] # "none" /\ keep'[c][q] = base'[c][q]
               /\ \A d \in Changesets : keep'[c][q] = d =>
                     Verdict[d] = "applied" /\ q \in NonDeletes(d)
    <3>1. CASE c = cur /\ q = p
      <4>1. ASSUME NEW d \in Changesets, target[p] = d
            PROVE  Verdict[d] = "applied" /\ p \in NonDeletes(d)
        <5>1. p \in NonDeletes(d) /\ (Verdict[d] = "applied" \/ Uncommitted(d))
          BY <1>2, <4>1 DEF TargetOK
        <5>2. ~Uncommitted(d)
          BY <1>1, <1>2, <1>4, <4>1, OthersClean DEF Clean
        <5> QED
          BY <5>1, <5>2
      <4> QED
        BY <1>1, <1>3, <1>5, <3>1, <4>1
    <3>2. CASE c # cur \/ q # p
      BY <1>1, <1>3, <2>1, <3>2 DEF KeepOK
    <3> QED
      BY <3>1, <3>2
  <2> QED
    BY <2>1 DEF KeepOK, AppliedStays, NonDeletes
<1>9. LeftoverOK'
  BY <1>1, LeftoverFrame DEF Uncommitted, HasPartial
<1>10. PhaseOK'
  <2>1. \A c \in Changesets \ {cur} : Clean(c)' <=> Clean(c)
    BY <1>1, <1>3 DEF Clean
  <2> QED
    BY <1>1, <2>1 DEF PhaseOK, HasPartial, NonDeletes
<1>11. ForwardOK' /\ BackwardOK'
  <2>1. \A i \in 1..at : keep'[cur][Order[cur][i]] = keep[cur][Order[cur][i]]
    BY <1>1, <1>2, <1>3
  <2>2. target[NextOp] # Absent /\ Kind(NextOp) # "create"
    BY <1>1, <1>5 DEF p
  <2> QED
    BY <1>1, <2>1, <2>2 DEF ForwardOK, BackwardOK, Proposed, Last, Kind, NextOp
<1>12. InPlaceOK'
  <2>1. ASSUME NEW q \in OpPaths(cur)
        PROVE  Provisional(cur, q)' \/ target[q] = base[cur][q]
    <3>1. q \in Paths
      BY <1>1, RecordFacts
    <3>2. CASE q = p
      BY <1>5, <3>2
    <3>3. CASE q # p
      BY <1>1, <1>3, <3>1, <3>3 DEF InPlaceOK, Provisional, Uncommitted
    <3> QED
      BY <3>2, <3>3
  <2> QED
    BY <1>1, <2>1 DEF InPlaceOK
<1> QED
  BY <1>6, <1>7, <1>8, <1>9, <1>10, <1>11, <1>12

(***************************************************************************)
(* The base loses its own name.                                            *)
(***************************************************************************)
LEMMA UnlinkBaseShape ==
    ASSUME ShapeInv, KeptInv', AppliedStays, UnlinkBase
    PROVE  ShapeOK'
<1> USE DEF ShapeInv, ShapeOK, KeptInv, ResidueInv, PlaceInv, Forward, FinalSteps,
          RollbackSteps, ApplySteps
<1> DEFINE p == NextOp
<1>1. /\ UNCHANGED <<keep, stage, journal, base, status, svc, cur, mem, at, faults>>
      /\ pc = "moving" /\ pc' = "vacant" /\ at < Last /\ Kind(p) # "create"
      /\ cur \in Changesets /\ svc = "serving" /\ status[cur] = "applying"
      /\ journal[cur].state \in {"prepared", "applying"}
      /\ keep[cur][p] = target[p] /\ target[p] # Absent
  BY DEF UnlinkBase, Goto, rows, world, PlaceOK, RowOK, PhaseOK, ForwardOK, KeptOK
<1>2. /\ p \in OpPaths(cur) /\ p \in Paths /\ at \in Nat /\ Last \in Nat /\ at + 1 \in 1..Last
      /\ \A i \in 1..Last : i # at + 1 => Order[cur][i] # p
      /\ \A i \in 1..Last : Order[cur][i] \in Paths
      /\ Order[cur][at + 1] = p
  BY <1>1, NextOpFacts DEF NextOp
<1>3. target'[p] = Absent /\ \A q \in Paths : q # p => target'[q] = target[q]
  BY <1>2 DEF UnlinkBase, TypeOK
<1> HIDE DEF p
<1>4. Absent \notin Changesets
  BY ChangesetsAssumption
<1>5. RowOK' /\ BaseOK'
  BY <1>1 DEF RowOK, BaseOK, Uncommitted
<1>6. TargetOK'
  BY <1>1, <1>2, <1>3, <1>4, TargetFrame DEF Uncommitted
<1>7. KeepOK'
  BY <1>1, KeepFrame
<1>8. LeftoverOK'
  BY <1>1, LeftoverFrame DEF Uncommitted, HasPartial
<1>9. PhaseOK'
  <2>1. \A c \in Changesets : Clean(c) => Clean(c)'
    BY <1>1, <1>3, <1>4 DEF Clean
  <2> QED
    BY <1>1, <2>1 DEF PhaseOK, HasPartial, NonDeletes
<1>10. ForwardOK' /\ BackwardOK'
  <2>1. \A i \in 1..Last : i # at + 1 => target'[Order[cur][i]] = target[Order[cur][i]]
    BY <1>1, <1>2, <1>3
  <2>2. target'[NextOp] = Absent /\ keep[cur][NextOp] # Absent /\ Kind(NextOp) # "create"
    BY <1>1, <1>3 DEF p
  <2>3. \A i \in 1..at : i \in 1..Last /\ i # at + 1
    BY <1>2
  <2>4. \A i \in (at + 1)..Last : target'[Order[cur][i]] # cur
    BY <1>1, <1>2, <1>3, <1>4, <2>1 DEF ForwardOK
  <2>5. \A i \in 1..at : /\ target'[Order[cur][i]] = Proposed(cur, Order[cur][i])
                         /\ Kind(Order[cur][i]) # "create" => keep[cur][Order[cur][i]] # Absent
    BY <1>1, <2>1, <2>3 DEF ForwardOK
  <2> QED
    BY <1>1, <2>2, <2>4, <2>5 DEF ForwardOK, BackwardOK, Proposed, Last, Kind, NextOp
<1>11. InPlaceOK'
  <2>1. ASSUME NEW q \in OpPaths(cur)
        PROVE  Provisional(cur, q)' \/ target'[q] = base[cur][q]
    <3>1. q \in Paths
      BY <1>1, RecordFacts
    <3>2. CASE q = p
      BY <1>1, <1>3, <3>2 DEF Provisional, Uncommitted
    <3>3. CASE q # p
      BY <1>1, <1>3, <3>1, <3>3 DEF InPlaceOK, Provisional, Uncommitted
    <3> QED
      BY <3>2, <3>3
  <2> QED
    BY <1>1, <2>1 DEF InPlaceOK
<1> QED
  BY <1>5, <1>6, <1>7, <1>8, <1>9, <1>10, <1>11

(***************************************************************************)
(* The stage gets the target's name.                                       *)
(***************************************************************************)
LEMMA LinkTargetShape ==
    ASSUME ShapeInv, KeptInv', AppliedStays, LinkTarget
    PROVE  ShapeOK'
<1> USE DEF ShapeInv, ShapeOK, KeptInv, ResidueInv, PlaceInv, Forward, FinalSteps,
          RollbackSteps, ApplySteps
<1> DEFINE p == NextOp
<1>1. /\ UNCHANGED <<keep, stage, journal, base, status, svc, cur, mem, at, faults>>
      /\ pc' = "linked" /\ at < Last /\ cur \in Changesets /\ svc = "serving"
      /\ status[cur] = "applying" /\ journal[cur].state \in {"prepared", "applying"}
      /\ \/ pc = "operating" /\ Kind(p) = "create"
         \/ pc = "vacant" /\ Kind(p) = "replace" /\ keep[cur][p] # Absent
      /\ target[p] = Absent
  BY DEF LinkTarget, Goto, rows, world, PlaceOK, RowOK, PhaseOK, ForwardOK
<1>2. /\ p \in OpPaths(cur) /\ p \in Paths /\ at \in Nat /\ Last \in Nat /\ at + 1 \in 1..Last
      /\ \A i \in 1..Last : i # at + 1 => Order[cur][i] # p
      /\ \A i \in 1..Last : Order[cur][i] \in Paths
      /\ Order[cur][at + 1] = p
  BY <1>1, NextOpFacts DEF NextOp
<1>3. target'[p] = cur /\ \A q \in Paths : q # p => target'[q] = target[q]
  BY <1>2 DEF LinkTarget, TypeOK
<1> HIDE DEF p
<1>5. RowOK' /\ BaseOK'
  BY <1>1 DEF RowOK, BaseOK, Uncommitted
<1>6. TargetOK'
  <2>1. ASSUME NEW c \in Changesets, NEW q \in Paths, target'[q] = c
        PROVE  /\ q \in NonDeletes(c)
               /\ \/ Verdict'[c] = "applied"
                  \/ Uncommitted(c)' /\ (KindOf[c][q] # "create" => keep'[c][q] # Absent)
    <3>1. CASE q = p
      BY <1>1, <1>2, <1>3, <2>1, <3>1 DEF NonDeletes, Uncommitted, Kind
    <3>2. CASE q # p
      BY <1>1, <1>3, <2>1, <3>2 DEF TargetOK, AppliedStays, Uncommitted
    <3> QED
      BY <3>1, <3>2
  <2> QED
    BY <2>1 DEF TargetOK, NonDeletes
<1>7. KeepOK'
  BY <1>1, KeepFrame
<1>8. LeftoverOK'
  BY <1>1, LeftoverFrame DEF Uncommitted, HasPartial
<1>9. PhaseOK'
  <2>1. \A c \in Changesets \ {cur} : Clean(c) => Clean(c)'
    BY <1>1, <1>3 DEF Clean
  <2> QED
    BY <1>1, <2>1 DEF PhaseOK, HasPartial, NonDeletes
<1>10. ForwardOK' /\ BackwardOK'
  <2>1. \A i \in 1..Last : i # at + 1 => target'[Order[cur][i]] = target[Order[cur][i]]
    BY <1>1, <1>2, <1>3
  <2>2. target'[NextOp] = cur
    BY <1>3 DEF p
  <2>3. \A i \in 1..at : i \in 1..Last /\ i # at + 1
    BY <1>2
  <2>4. \A i \in (at + 2)..Last : target'[Order[cur][i]] # cur
    BY <1>1, <1>2, <2>1 DEF ForwardOK
  <2>5. \A i \in 1..at : /\ target'[Order[cur][i]] = Proposed(cur, Order[cur][i])
                         /\ Kind(Order[cur][i]) # "create" => keep[cur][Order[cur][i]] # Absent
    BY <1>1, <2>1, <2>3 DEF ForwardOK
  <2> QED
    BY <1>1, <2>2, <2>4, <2>5 DEF ForwardOK, BackwardOK, Proposed, Last, Kind, NextOp
<1>11. InPlaceOK'
  <2>1. ASSUME NEW q \in OpPaths(cur)
        PROVE  Provisional(cur, q)' \/ target'[q] = base[cur][q]
    <3>1. q \in Paths
      BY <1>1, RecordFacts
    <3>2. CASE q = p
      BY <1>1, <1>2, <1>3, <3>2 DEF Provisional, Uncommitted
    <3>3. CASE q # p
      BY <1>1, <1>3, <3>1, <3>3 DEF InPlaceOK, Provisional, Uncommitted
    <3> QED
      BY <3>2, <3>3
  <2> QED
    BY <1>1, <2>1 DEF InPlaceOK
<1> QED
  BY <1>5, <1>6, <1>7, <1>8, <1>9, <1>10, <1>11

(***************************************************************************)
(* An operation is complete.                                               *)
(***************************************************************************)
LEMMA OperationShape ==
    ASSUME ShapeInv, KeptInv', AppliedStays, DeleteDone \/ UnlinkStage
    PROVE  ShapeOK'
<1> USE DEF ShapeInv, ShapeOK, KeptInv, ResidueInv, PlaceInv, Forward, FinalSteps,
          RollbackSteps, ApplySteps
<1> DEFINE p == NextOp
<1>1. /\ UNCHANGED <<keep, target, journal, base, status, svc, cur, faults>>
      /\ pc \in {"vacant", "linked"}
      /\ pc = "vacant" => Kind(p) = "delete"
      /\ pc' = "writing" /\ at' = at + 1 /\ at < Last
      /\ cur \in Changesets /\ svc = "serving" /\ status[cur] = "applying"
      /\ journal[cur].state \in {"prepared", "applying"}
  BY DEF DeleteDone, UnlinkStage, OperationDone, Goto, rows, files, world, PlaceOK, RowOK,
     PhaseOK
<1>2. /\ p \in OpPaths(cur) /\ p \in Paths /\ at \in Nat /\ Last \in Nat /\ at + 1 \in 1..Last
      /\ \A i \in 1..Last : i # at + 1 => Order[cur][i] # p
      /\ \A i \in 1..Last : Order[cur][i] \in Paths
      /\ Order[cur][at + 1] = p
  BY <1>1, NextOpFacts DEF NextOp
<1>3. /\ stage'[cur][p] \in {"absent", stage[cur][p]}
      /\ \A c \in Changesets, q \in Paths : c # cur \/ q # p => stage'[c][q] = stage[c][q]
  BY <1>1, <1>2 DEF DeleteDone, UnlinkStage, TypeOK, files
<1>4. mem'.state = "applying" /\ mem'.staged = mem.staged
  BY DEF DeleteDone, UnlinkStage, OperationDone, TypeOK, Journal
<1>a. /\ pc = "vacant" => (target[p] = Absent /\ keep[cur][p] # Absent)
      /\ pc = "linked" => target[p] = cur
  BY DEF ForwardOK
<1>b. Verdict[cur] # "applied"
  BY <1>1 DEF Verdict
<1> HIDE DEF p
<1>5. RowOK' /\ BaseOK'
  BY <1>1 DEF RowOK, BaseOK, Uncommitted
<1>6. TargetOK'
  BY <1>1, TargetFrame DEF Uncommitted
<1>7. KeepOK'
  BY <1>1, KeepFrame
<1>8. ~HasPartial(cur) /\ \A c \in Changesets : HasPartial(c)' <=> HasPartial(c)
  <2>1. ~HasPartial(cur)
    BY <1>1 DEF PhaseOK
  <2> QED
    BY <1>1, <1>2, <1>3, <2>1 DEF HasPartial
<1>9. LeftoverOK'
  BY <1>1, <1>8, LeftoverFrame DEF Uncommitted
<1>10. PhaseOK'
  <2>1. \A c \in Changesets : Clean(c)' <=> Clean(c)
    BY <1>1 DEF Clean
  <2>2. NonDeletes(cur) \subseteq mem.staged
    BY <1>1 DEF PhaseOK
  <2> QED
    BY <1>1, <1>4, <1>8, <2>1, <2>2 DEF PhaseOK, NonDeletes
<1>11. ForwardOK' /\ BackwardOK'
  <2>1. target[p] = Proposed(cur, p) /\ (Kind(p) # "create" => keep[cur][p] # Absent)
    BY <1>1, <1>2, <1>a, <1>b DEF TargetOK, NonDeletes, Proposed, Kind
  <2>2. \A i \in 1..(at + 1) :
          /\ target[Order[cur][i]] = Proposed(cur, Order[cur][i])
          /\ Kind(Order[cur][i]) # "create" => keep[cur][Order[cur][i]] # Absent
    <3>1. \A i \in 1..(at + 1) : i \in 1..at \/ i = at + 1
      BY <1>2
    <3> QED
      BY <1>1, <1>2, <2>1, <3>1 DEF ForwardOK
  <2>3. \A i \in (at + 2)..Last : target[Order[cur][i]] # cur
    BY <1>1, <1>2 DEF ForwardOK
  <2> QED
    BY <1>1, <1>2, <2>2, <2>3 DEF ForwardOK, BackwardOK, Proposed, Last, Kind
<1>12. InPlaceOK'
  BY <1>1 DEF InPlaceOK, Provisional, Uncommitted
<1> QED
  BY <1>5, <1>6, <1>7, <1>9, <1>10, <1>11, <1>12

(***************************************************************************)
(* The journal commits.                                                    *)
(***************************************************************************)
LEMMA WriteCommitShape ==
    ASSUME ShapeInv, KeptInv', AppliedStays, WriteCommit
    PROVE  ShapeOK'
<1> USE DEF ShapeInv, ShapeOK, KeptInv, ResidueInv, PlaceInv, Forward, FinalSteps,
          RollbackSteps, ApplySteps
<1>1. /\ UNCHANGED <<keep, target, stage, base, status, svc, cur>>
      /\ pc' = "finalizing" /\ cur \in Changesets /\ svc = "serving"
      /\ status[cur] = "applying"
      /\ journal'[cur].state = "files_committed"
      /\ \A c \in Changesets : c # cur => journal'[c] = journal[c]
  BY DEF WriteCommit, Goto, rows, files, world, TypeOK, PlaceOK, RowOK, JournalOK
<1>2. /\ ~Uncommitted(cur)'
      /\ \A c \in Changesets : c # cur => (Uncommitted(c)' <=> Uncommitted(c))
  BY <1>1 DEF Uncommitted
<1>3. Verdict'[cur] = "applied"
  BY <1>1 DEF Verdict
<1>4. RowOK' /\ BaseOK'
  BY <1>1, <1>2 DEF RowOK, BaseOK
<1>5. TargetOK'
  BY <1>1, <1>2, <1>3, TargetFrame
<1>6. KeepOK'
  BY <1>1, KeepFrame
<1>7. LeftoverOK'
  BY <1>1, <1>2, LeftoverFrame DEF HasPartial
<1>8. PhaseOK'
  BY <1>1 DEF PhaseOK, HasPartial, Clean, NonDeletes
<1> QED
  BY <1>1, <1>4, <1>5, <1>6, <1>7, <1>8, AtRest

-----------------------------------------------------------------------------
(* Completion and roll-back                                                 *)

(***************************************************************************)
(* A committed changeset is completed: row, rollback files, journal.       *)
(***************************************************************************)
LEMMA CompleteShape ==
    ASSUME ShapeInv, KeptInv', AppliedStays, Finalize \/ CleanRollback \/ RetireJournal
    PROVE  ShapeOK'
<1> USE DEF ShapeInv, ShapeOK, KeptInv, ResidueInv, PlaceInv, Forward, FinalSteps,
          RollbackSteps, ApplySteps
<1>1. /\ UNCHANGED <<target, stage, base>>
      /\ pc \in FinalSteps /\ cur \in Changesets
      /\ pc' \in {"cleaning", "idle", "scan"}
      /\ journal[cur].state = "files_committed" /\ ~Uncommitted(cur)
      /\ svc' = "serving" => svc = "serving"
  <2>1. pc \in {"finalizing", "cleaning"}
    BY DEF Finalize, CleanRollback, RetireJournal
  <2>2. cur \in Changesets /\ journal[cur].state = "files_committed" /\ ~Uncommitted(cur)
    BY <2>1 DEF PlaceOK, KeptOK, Uncommitted
  <2>3. pc' \in {"cleaning", "idle", "scan"} /\ (svc' = "serving" => svc = "serving")
    BY <2>1 DEF Finalize, CleanRollback, RetireJournal, Abandon, Done, Goto
  <2>4. UNCHANGED <<target, stage, base>>
    BY DEF Finalize, CleanRollback, RetireJournal, files, rows
  <2> QED
    BY <2>1, <2>2, <2>3, <2>4
<1>2. /\ \A c \in Changesets : c # cur => journal'[c] = journal[c] /\ status'[c] = status[c]
      /\ \A c \in Changesets, q \in Paths : keep'[c][q] \in {Absent, keep[c][q]}
      /\ \A c \in Changesets, q \in Paths : c # cur => keep'[c][q] = keep[c][q]
      /\ journal'[cur] \in {journal[cur], NoJournal}
      /\ status'[cur] \in {status[cur], "applied"}
  <2>1. CASE Finalize
    BY <1>1, <2>1 DEF Finalize, files, TypeOK
  <2>2. CASE CleanRollback
    <3>1. NextOp \in Paths
      BY <1>1, <2>2, NextOpFacts DEF CleanRollback
    <3> QED
      BY <1>1, <2>2, <3>1 DEF CleanRollback, rows, TypeOK
  <2>3. CASE RetireJournal
    BY <1>1, <2>3 DEF RetireJournal, rows, files, TypeOK
  <2> QED
    BY <2>1, <2>2, <2>3
<1>3. \A c \in Changesets : Uncommitted(c)' <=> Uncommitted(c)
  BY <1>1, <1>2 DEF Uncommitted, NoJournal
<1>4. RowOK'
  <2>1. status[cur] \in {"applying", "applied"}
    BY <1>1 DEF RowOK
  <2>2. pc' = "cleaning" => cur' = cur /\ status'[cur] = "applied"
    BY <1>1 DEF Finalize, CleanRollback, RetireJournal, Abandon, Done, Goto, RowOK, rows,
       TypeOK
  <2>3. pc' = "scan" => svc' = "recovering"
    BY <1>1 DEF Finalize, CleanRollback, RetireJournal, Abandon, Done, Goto, RowOK
  <2> QED
    BY <1>1, <1>2, <1>3, <2>1, <2>2, <2>3 DEF RowOK, NoJournal
<1>5. BaseOK'
  <2>1. \A c \in Changesets : status'[c] # "none" => status[c] # "none"
    BY <1>1, <1>2 DEF RowOK
  <2> QED
    BY <1>1, <2>1 DEF BaseOK
<1>6. TargetOK'
  BY <1>1, <1>2, <1>3, TargetFrame
<1>7. KeepOK'
  BY <1>1, <1>2, KeepFrame
<1>8. LeftoverOK'
  BY <1>1, <1>3, LeftoverFrame DEF HasPartial
<1>9. PhaseOK'
  <2>1. \A c \in Changesets : Clean(c) => Clean(c)'
    BY <1>1, <1>2 DEF Clean
  <2>2. \A c \in Changesets : journal'[c].state \in {"preparing", "prepared", "applying"} =>
           journal'[c] = journal[c]
    BY <1>1, <1>2 DEF NoJournal
  <2> QED
    BY <1>1, <1>2, <2>1, <2>2 DEF PhaseOK, HasPartial, NonDeletes, NoJournal
<1> QED
  BY <1>1, <1>4, <1>5, <1>6, <1>7, <1>8, <1>9, AtRest

(***************************************************************************)
(* The operation being undone: its path is no other operation's.           *)
(***************************************************************************)
LEMMA ThisOpFacts ==
    ASSUME TypeOK, cur \in Changesets, at >= 1, at <= Last
    PROVE  /\ ThisOp \in OpPaths(cur) /\ ThisOp \in Paths /\ Kind(ThisOp) \in Kinds
           /\ at \in Nat /\ Last \in Nat /\ at \in 1..Last
           /\ \A i \in 1..Last : Order[cur][i] \in Paths
           /\ \A i \in 1..Last : i # at => Order[cur][i] # ThisOp
<1>1. RecordOK(cur) /\ at \in Nat
  BY RecordOrder DEF TypeOK
<1> QED
  BY <1>1 DEF RecordOK, Last, ThisOp, Kind

(***************************************************************************)
(* The stage's bytes leave the path, the untouched base stays; the serving *)
(* service finds nothing else there.                                       *)
(***************************************************************************)
LEMMA RollbackTargetShape ==
    ASSUME ShapeInv, KeptInv', AppliedStays, RollbackTarget
    PROVE  ShapeOK'
<1> USE DEF ShapeInv, ShapeOK, KeptInv, ResidueInv, PlaceInv, Forward, FinalSteps,
          RollbackSteps, ApplySteps
<1> DEFINE p == ThisOp
<1>1. /\ UNCHANGED <<keep, stage, journal, base, status, faults>>
      /\ pc = "rb_target" /\ cur \in Changesets /\ at >= 1 /\ at <= Last
      /\ status[cur] = "applying" /\ journal[cur].state # "files_committed"
  BY DEF RollbackTarget, rows, world, PlaceOK, RowOK, PhaseOK
<1>2. /\ p \in OpPaths(cur) /\ p \in Paths /\ at \in Nat /\ Last \in Nat /\ at \in 1..Last
      /\ \A i \in 1..Last : i # at => Order[cur][i] # p
      /\ \A i \in 1..Last : Order[cur][i] \in Paths
      /\ Order[cur][at] = p
  BY <1>1, ThisOpFacts DEF ThisOp
<1>3. \/ /\ target[p] = cur /\ target' = [target EXCEPT ![p] = Absent]
         /\ pc' = "rb_keep" /\ UNCHANGED <<svc, cur, mem, at>>
      \/ /\ target[p] # cur /\ UNCHANGED target
         /\ pc' = "rb_keep" /\ UNCHANGED <<svc, cur, mem, at>>
      \/ /\ target[p] \notin {cur, Absent} /\ UNCHANGED target
         /\ Kind(p) # "create" => target[p] # base[cur][p]
         /\ Abandon("refused")
  BY <1>1, <1>2 DEF RollbackTarget, Goto, PhaseOK
<1>4. Absent \notin Changesets
  BY ChangesetsAssumption
<1>5. \A q \in Paths : target'[q] = target[q] \/ (q = p /\ target'[q] = Absent)
  BY <1>2, <1>3 DEF TypeOK
<1>6. \A c \in Changesets : Uncommitted(c)' <=> Uncommitted(c)
  BY <1>1 DEF Uncommitted
<1>7. target[p] = cur => Uncommitted(cur) /\ Kind(p) # "delete"
                         /\ (Kind(p) # "create" => keep[cur][p] # Absent)
  BY <1>1, <1>2 DEF TargetOK, NonDeletes, Verdict, Kind
<1>8. (p \in OpPaths(cur)) /\ (Kind(p) = "create" <=> base[cur][p] = Absent)
  BY <1>1, <1>2 DEF BaseOK, Kind
<1>9. TargetOK'
  BY <1>1, <1>4, <1>5, <1>6, TargetFrame
<1>10. KeepOK'
  BY <1>1, KeepFrame
<1>11. RowOK' /\ BaseOK'
  BY <1>1, <1>3, <1>6 DEF RowOK, BaseOK, Abandon
<1>12. CASE Abandon("refused")
  <2>2. pc' = "idle" /\ (svc' = "serving" => svc = "serving")
    BY <1>12 DEF Abandon
  <2>1. target[p] \notin {cur, Absent} /\ (Kind(p) # "create" => target[p] # base[cur][p])
    BY <1>3, <2>2
  <2>3. svc # "serving"
    BY <1>1, <1>2, <1>8, <2>1, <2>2 DEF InPlaceOK, Provisional
  <2>4. LeftoverOK'
    BY <1>1, <1>6, <2>2, <2>3, LeftoverFrame DEF HasPartial
  <2>5. UNCHANGED target
    BY <1>3, <2>2
  <2> QED
    BY <1>1, <1>9, <1>10, <1>11, <2>2, <2>4, <2>5, PhaseAtRest, AtRest
<1>13. CASE pc' = "rb_keep" /\ UNCHANGED <<svc, cur, mem, at>>
  <2>1. LeftoverOK'
    BY <1>1, <1>6, <1>13, LeftoverFrame DEF HasPartial
  <2>2. PhaseOK'
    <3>1. \A c \in Changesets : Clean(c) => Clean(c)'
      BY <1>1, <1>4, <1>5 DEF Clean
    <3> QED
      BY <1>1, <1>4, <1>5, <1>13, <3>1 DEF PhaseOK, HasPartial, NonDeletes
  <2>3. ForwardOK' /\ BackwardOK'
    <3>1. target'[p] # cur
      <4>1. target[p] = cur => target'[p] = Absent
        BY <1>2, <1>3 DEF TypeOK
      <4> QED
        BY <1>1, <1>2, <1>4, <1>5, <4>1
    <3>2. \A i \in (at + 1)..Last : target'[Order[cur][i]] # cur
      BY <1>1, <1>2, <1>4, <1>5 DEF BackwardOK
    <3> QED
      BY <1>13, <3>1, <3>2 DEF ForwardOK, BackwardOK, Last, ThisOp
  <2>4. InPlaceOK'
    <3>1. ASSUME svc = "serving", NEW q \in OpPaths(cur)
          PROVE  Provisional(cur, q)' \/ target'[q] = base[cur][q]
      <4>1. q \in Paths
        BY <1>1, RecordFacts
      <4>2. Provisional(cur, q) \/ target[q] = base[cur][q]
        BY <1>1, <3>1 DEF InPlaceOK
      <4>3. CASE target'[q] = target[q]
        BY <1>1, <1>6, <1>13, <4>2, <4>3 DEF Provisional
      <4>4. CASE target'[q] # target[q]
        <5>1. q = p /\ target'[q] = Absent /\ target[p] = cur
          BY <1>3, <1>5, <4>1, <4>4, <1>13
        <5>2. CASE Kind(p) = "create"
          BY <1>8, <5>1, <5>2
        <5>3. CASE Kind(p) # "create"
          BY <1>1, <1>2, <1>6, <1>7, <1>13, <5>1, <5>3 DEF Provisional
        <5> QED
          BY <5>2, <5>3
      <4> QED
        BY <4>3, <4>4
    <3> QED
      BY <1>1, <1>13, <3>1 DEF InPlaceOK
  <2> QED
    BY <1>9, <1>10, <1>11, <2>1, <2>2, <2>3, <2>4
<1> QED
  BY <1>3, <1>12, <1>13

(***************************************************************************)
(* The base goes back under its own name, or its second name goes.         *)
(***************************************************************************)
LEMMA RollbackKeepShape ==
    ASSUME ShapeInv, KeptInv', AppliedStays, RollbackKeep \/ RollbackUnlink
    PROVE  ShapeOK'
<1> USE DEF ShapeInv, ShapeOK, KeptInv, ResidueInv, PlaceInv, Forward, FinalSteps,
          RollbackSteps, ApplySteps
<1> DEFINE p == ThisOp
           kept == keep[cur][p]
<1>1. /\ UNCHANGED <<stage, journal, base, status, faults>>
      /\ pc \in {"rb_keep", "rb_unlink"} /\ cur \in Changesets /\ at >= 1 /\ at <= Last
      /\ status[cur] = "applying" /\ journal[cur].state # "files_committed"
      /\ target[p] # cur
  BY DEF RollbackKeep, RollbackUnlink, rows, world, PlaceOK, RowOK, PhaseOK, BackwardOK
<1>2. /\ p \in OpPaths(cur) /\ p \in Paths /\ at \in Nat /\ Last \in Nat /\ at \in 1..Last
      /\ \A i \in 1..Last : i # at => Order[cur][i] # p
      /\ \A i \in 1..Last : Order[cur][i] \in Paths
      /\ Order[cur][at] = p
  BY <1>1, ThisOpFacts DEF ThisOp
<1>3. \/ /\ UNCHANGED <<target, keep>>
         /\ pc' = "rb_stage" /\ UNCHANGED <<svc, cur, mem, at>>
      \/ /\ UNCHANGED <<target, keep>>
         /\ Kind(p) # "create" /\ kept = Absent /\ target[p] = Absent
         /\ Abandon("refused")
      \/ /\ UNCHANGED target /\ target[p] = kept
         /\ keep' = [keep EXCEPT ![cur][p] = Absent]
         /\ pc' = "rb_stage" /\ UNCHANGED <<svc, cur, mem, at>>
      \/ /\ UNCHANGED keep /\ kept # Absent /\ target[p] = Absent
         /\ target' = [target EXCEPT ![p] = kept]
         /\ pc' = "rb_unlink" /\ UNCHANGED <<svc, cur, mem, at>>
  BY <1>1 DEF RollbackKeep, RollbackUnlink, Goto, KeptOK
<1>4. kept # Absent => kept = base[cur][p] /\ kept # cur
  BY <1>1, <1>2 DEF KeepOK, BaseOK
<1>5. /\ \A q \in Paths : target'[q] = target[q]
                          \/ (/\ q = p /\ target[q] = Absent /\ target'[q] = kept
                              /\ kept # Absent)
      /\ \A c \in Changesets, q \in Paths :
            keep'[c][q] = keep[c][q]
            \/ (/\ c = cur /\ q = p /\ keep'[c][q] = Absent /\ target[p] = kept)
  BY <1>1, <1>2, <1>3 DEF TypeOK
<1>6. (\A c \in Changesets : Uncommitted(c)' <=> Uncommitted(c))
  BY <1>1 DEF Uncommitted
<1>7. target'[p] # cur
  BY <1>1, <1>2, <1>4, <1>5
<1>8. (p \in OpPaths(cur)) /\ (Kind(p) = "create" <=> base[cur][p] = Absent)
  BY <1>1, <1>2 DEF BaseOK, Kind
<1> HIDE DEF kept
<1>9. TargetOK'
  <2>1. ASSUME NEW c \in Changesets, NEW q \in Paths, target'[q] = c
        PROVE  /\ q \in NonDeletes(c)
               /\ \/ Verdict'[c] = "applied"
                  \/ Uncommitted(c)' /\ (KindOf[c][q] # "create" => keep'[c][q] # Absent)
    <3>1. CASE target'[q] = target[q]
      <4>1. keep'[c][q] = keep[c][q]
        BY <1>1, <1>5, <2>1, <3>1
      <4> QED
        BY <1>6, <2>1, <3>1, <4>1 DEF TargetOK, AppliedStays
    <3>2. CASE target'[q] # target[q]
      BY <1>1, <1>2, <1>5, <2>1, <3>2 DEF KeepOK, AppliedStays, kept
    <3> QED
      BY <3>1, <3>2
  <2> QED
    BY <2>1 DEF TargetOK, NonDeletes
<1>10. KeepOK'
  BY <1>1, <1>5, KeepFrame
<1>11. RowOK' /\ BaseOK'
  BY <1>1, <1>3, <1>6 DEF RowOK, BaseOK, Abandon
<1>12. CASE Abandon("refused")
  <2>1. /\ UNCHANGED <<target, keep>>
        /\ Kind(p) # "create" /\ kept = Absent /\ target[p] = Absent
    BY <1>3, <1>12 DEF Abandon
  <2>2. pc' = "idle" /\ (svc' = "serving" => svc = "serving")
    BY <1>12 DEF Abandon
  <2>3. svc # "serving"
    BY <1>1, <1>2, <1>8, <2>1 DEF InPlaceOK, Provisional, kept
  <2>4. LeftoverOK'
    BY <1>1, <1>6, <2>2, <2>3, LeftoverFrame DEF HasPartial
  <2> QED
    BY <1>1, <1>9, <1>10, <1>11, <2>1, <2>2, <2>4, PhaseAtRest, AtRest
<1>13. CASE pc' \in {"rb_stage", "rb_unlink"} /\ UNCHANGED <<svc, cur, mem, at>>
  <2>1. LeftoverOK'
    BY <1>1, <1>6, <1>13, LeftoverFrame DEF HasPartial
  <2>2. PhaseOK'
    <3>1. \A c \in Changesets : journal[c].state = "preparing" => Clean(c)'
      <4> SUFFICES ASSUME NEW c \in Changesets, journal[c].state = "preparing",
                          NEW q \in Paths
                   PROVE  target'[q] # c /\ keep'[c][q] = Absent
        BY DEF Clean
      <4>1. keep[c][q] = Absent /\ target[q] # c
        BY DEF PhaseOK, Clean
      <4>2. kept # c
        <5>1. Verdict[c] # "applied"
          BY DEF Verdict, RowOK, Uncommitted
        <5>2. Absent \notin Changesets
          BY ChangesetsAssumption
        <5> QED
          BY <1>1, <1>2, <5>1, <5>2 DEF KeepOK, kept
      <4> QED
        BY <1>5, <4>1, <4>2
    <3>2. \A q \in Paths : target'[q] = cur => target[q] = cur
      BY <1>5, <1>7
    <3> QED
      BY <1>1, <1>13, <3>1, <3>2 DEF PhaseOK, HasPartial, NonDeletes
  <2>3. ForwardOK' /\ BackwardOK'
    <3>1. \A i \in (at + 1)..Last : target'[Order[cur][i]] # cur
      BY <1>1, <1>2, <1>5 DEF BackwardOK
    <3> QED
      BY <1>7, <1>13, <3>1 DEF ForwardOK, BackwardOK, Last, ThisOp
  <2>4. InPlaceOK'
    <3>1. ASSUME svc = "serving", NEW q \in OpPaths(cur)
          PROVE  Provisional(cur, q)' \/ target'[q] = base[cur][q]
      <4>1. q \in Paths
        BY <1>1, RecordFacts
      <4>2. Provisional(cur, q) \/ target[q] = base[cur][q]
        BY <1>1, <3>1 DEF InPlaceOK
      <4>3. CASE q # p
        BY <1>1, <1>5, <1>6, <1>13, <4>1, <4>2, <4>3 DEF Provisional
      <4>4. CASE q = p
        <5>1. CASE target'[q] # target[q]
          BY <1>4, <1>5, <4>1, <4>4, <5>1
        <5>2. CASE keep'[cur][q] # keep[cur][q]
          BY <1>1, <1>4, <1>5, <4>1, <4>4, <5>2 DEF kept
        <5>3. CASE target'[q] = target[q] /\ keep'[cur][q] = keep[cur][q]
          BY <1>1, <1>6, <1>13, <4>2, <5>3 DEF Provisional
        <5> QED
          BY <5>1, <5>2, <5>3
      <4> QED
        BY <4>3, <4>4
    <3> QED
      BY <1>1, <1>13, <3>1 DEF InPlaceOK
  <2> QED
    BY <1>9, <1>10, <1>11, <2>1, <2>2, <2>3, <2>4
<1> QED
  BY <1>3, <1>12, <1>13

(***************************************************************************)
(* The stage is removed unless it was cut off, then the journal.           *)
(***************************************************************************)
LEMMA RollbackStageShape ==
    ASSUME ShapeInv, KeptInv', AppliedStays, RollbackStage
    PROVE  ShapeOK'
<1> USE DEF ShapeInv, ShapeOK, KeptInv, ResidueInv, PlaceInv, Forward, FinalSteps,
          RollbackSteps, ApplySteps
<1>1. /\ UNCHANGED <<target, keep, journal, base, status, faults>>
      /\ pc = "rb_stage" /\ cur \in Changesets /\ at >= 1 /\ at <= Last
      /\ status[cur] = "applying" /\ journal[cur].state # "files_committed"
  BY DEF RollbackStage, rows, world, PlaceOK, RowOK, PhaseOK
<1>2. /\ ThisOp \in Paths /\ at \in Nat /\ Last \in Nat /\ ThisOp = Order[cur][at]
      /\ target[ThisOp] # cur
  BY <1>1, ThisOpFacts DEF ThisOp, BackwardOK
<1>3. \/ /\ stage[cur][ThisOp] = "partial" /\ UNCHANGED stage
         /\ pc' = "idle" /\ (svc' = "serving" => svc = "serving")
      \/ /\ stage[cur][ThisOp] # "partial"
         /\ stage' = [stage EXCEPT ![cur][ThisOp] = "absent"]
         /\ at' = at - 1 /\ pc' \in {"rb_journal", "rb_target"}
         /\ UNCHANGED <<svc, cur, mem>>
  BY DEF RollbackStage, Abandon, Goto
<1>4. \A c \in Changesets : (Uncommitted(c)' <=> Uncommitted(c)) /\ (Clean(c)' <=> Clean(c))
  BY <1>1 DEF Uncommitted, Clean
<1>5. \A c \in Changesets : HasPartial(c)' <=> HasPartial(c)
  BY <1>1, <1>2, <1>3 DEF HasPartial, TypeOK
<1>6. RowOK' /\ BaseOK'
  BY <1>1, <1>3, <1>4 DEF RowOK, BaseOK
<1>7. TargetOK'
  BY <1>1, <1>4, TargetFrame
<1>8. KeepOK'
  BY <1>1, KeepFrame
<1>9. LeftoverOK'
  <2>1. stage[cur][ThisOp] = "partial" => HasPartial(cur)
    BY <1>2 DEF HasPartial
  <2> QED
    BY <1>3, <1>4, <1>5, <2>1, LeftoverFrame
<1>10. PhaseOK'
  <2>1. CASE UNCHANGED stage /\ pc' = "idle"
    BY <1>1, <2>1, PhaseAtRest
  <2>2. CASE pc' \in {"rb_journal", "rb_target"} /\ UNCHANGED <<svc, cur, mem>>
    BY <1>1, <1>4, <1>5, <2>2 DEF PhaseOK, NonDeletes
  <2> QED
    BY <1>3, <2>1, <2>2
<1>11. ForwardOK' /\ BackwardOK' /\ InPlaceOK'
  <2>1. CASE pc' = "idle"
    BY <2>1, AtRest
  <2>2. CASE at' = at - 1 /\ pc' \in {"rb_journal", "rb_target"} /\ UNCHANGED <<svc, cur, mem>>
    <3>1. \A i \in at..Last : target[Order[cur][i]] # cur
      <4>1. \A i \in at..Last : i = at \/ i \in (at + 1)..Last
        BY <1>2
      <4> QED
        BY <1>1, <1>2, <4>1 DEF BackwardOK
    <3>2. (at - 1) + 1 = at
      BY <1>2
    <3>3. ForwardOK' /\ BackwardOK'
      BY <1>1, <2>2, <3>1, <3>2 DEF ForwardOK, BackwardOK, Last
    <3>4. InPlaceOK'
      BY <1>1, <2>2 DEF InPlaceOK, Provisional, Uncommitted
    <3> QED
      BY <3>3, <3>4
  <2> QED
    BY <1>3, <2>1, <2>2
<1> QED
  BY <1>6, <1>7, <1>8, <1>9, <1>10, <1>11

(***************************************************************************)
(* The journal of a changeset rolled back goes, and then its claim.        *)
(***************************************************************************)
LEMMA ReleaseShape ==
    ASSUME ShapeInv, KeptInv', AppliedStays, RollbackJournal \/ Release
    PROVE  ShapeOK'
<1> USE DEF ShapeInv, ShapeOK, KeptInv, ResidueInv, PlaceInv, Forward, FinalSteps,
          RollbackSteps, ApplySteps
<1>1. /\ UNCHANGED <<target, stage, keep, base, svc>>
      /\ cur \in Changesets /\ status[cur] = "applying"
      /\ \A c \in Changesets : c # cur => journal'[c] = journal[c] /\ status'[c] = status[c]
      /\ journal'[cur].state = "none" /\ status'[cur] \in {"applying", "approved"}
      /\ \/ /\ pc = "rb_journal" /\ pc' = "release" /\ UNCHANGED <<cur, status>>
         \/ pc = "release" /\ pc' \in {"idle", "scan"} /\ UNCHANGED journal
      /\ pc' = "scan" => svc = "recovering"
  BY DEF RollbackJournal, Release, Done, Goto, rows, files, PlaceOK, RowOK, PhaseOK,
     TypeOK, NoJournal
<1>2. \A c \in Changesets : Uncommitted(c)' <=> c # cur /\ Uncommitted(c)
  BY <1>1 DEF Uncommitted
<1>3. RowOK'
  BY <1>1, <1>2 DEF RowOK
<1>4. BaseOK'
  BY <1>1 DEF BaseOK
<1>5. TargetOK'
  <2>1. \A p \in Paths : target[p] = cur => ~Uncommitted(cur)
    <3>1. CASE pc = "rb_journal"
      <4>1. RecordOK(cur) /\ at = 0
        BY <1>1, <3>1, RecordOrder DEF PlaceOK
      <4>2. \A p \in OpPaths(cur) : target[p] # cur
        BY <3>1, <4>1 DEF BackwardOK, RecordOK, Last
      <4> QED
        BY <1>1, <4>2 DEF TargetOK, NonDeletes
    <3>2. CASE pc = "release"
      BY <1>1, <1>2, <3>2 DEF Uncommitted
    <3> QED
      BY <1>1, <3>1, <3>2
  <2> QED
    BY <1>1, <1>2, <2>1, TargetFrame
<1>6. KeepOK'
  BY <1>1, KeepFrame
<1>7. LeftoverOK'
  BY <1>1, <1>2, LeftoverFrame DEF HasPartial
<1>8. PhaseOK'
  <2>1. \A c \in Changesets : (Clean(c)' <=> Clean(c)) /\ (HasPartial(c)' <=> HasPartial(c))
    BY <1>1 DEF Clean, HasPartial
  <2> QED
    BY <1>1, <2>1 DEF PhaseOK, NonDeletes
<1> QED
  BY <1>1, <1>3, <1>4, <1>5, <1>6, <1>7, <1>8, AtRest

-----------------------------------------------------------------------------
(* Errors, restarts and edits                                               *)

(***************************************************************************)
(* An error sends apply() into its roll-back, with every path as it was    *)
(* but for what apply() did, or ends the call.                             *)
(***************************************************************************)
LEMMA FaultShape ==
    ASSUME ShapeInv, KeptInv', AppliedStays, SingleFault, Fault
    PROVE  ShapeOK'
<1> USE DEF ShapeInv, ShapeOK, KeptInv, ResidueInv, PlaceInv, Forward, FinalSteps,
          RollbackSteps, ApplySteps
<1>1. /\ UNCHANGED <<target, stage, keep, base, status>>
      /\ faults < MaxFaults /\ faults' = faults + 1 /\ faults \in Nat
      /\ pc \in FaultSteps /\ pc # "committing"
      /\ svc' = "serving" => svc = "serving"
      /\ pc' = "scan" => svc' = "recovering"
  BY DEF Fault, Fail, Abandon, Goto, rows, files, SingleFault, TypeOK
<1>2. svc = "serving" => pc \notin RollbackSteps
  <2> SUFFICES ASSUME svc = "serving", pc \in RollbackSteps PROVE FALSE
    OBVIOUS
  <2>1. faults >= 1
    BY DEF InPlaceOK
  <2>2. MaxFaults <= 1
    BY <1>1 DEF SingleFault
  <2> QED
    BY <1>1, <2>1, <2>2, ChangesetsAssumption
<1>3. \/ UNCHANGED journal
      \/ /\ pc = "writing" /\ cur \in Changesets /\ journal'[cur] = mem
         /\ \A c \in Changesets : c # cur => journal'[c] = journal[c]
  BY <1>1 DEF Fault, PlaceOK, TypeOK
<1>4. CASE pc' = "idle"
  <2>1. UNCHANGED journal
    BY <1>3, <1>4 DEF Fault, Fail, Abandon, Goto, JournalOK
  <2>2. pc \notin ApplySteps
    BY <1>1, <1>4 DEF Fault, Fail, Abandon, Goto, JournalOK
  <2>3. \A c \in Changesets : Uncommitted(c)' <=> Uncommitted(c)
    BY <2>1 DEF Uncommitted
  <2>4. RowOK' /\ BaseOK'
    BY <1>1, <1>4, <2>1, <2>3 DEF RowOK, BaseOK
  <2>5. TargetOK'
    BY <1>1, <2>3, TargetFrame
  <2>6. KeepOK'
    BY <1>1, KeepFrame
  <2>7. LeftoverOK'
    <3>1. svc = "serving" /\ cur \in Changesets => ~Uncommitted(cur)
      <4>1. pc \in FinalSteps \cup RollbackSteps \cup {"release", "scan"}
        BY <2>2 DEF Fault
      <4> QED
        BY <1>2, <4>1 DEF KeptOK, PhaseOK, Uncommitted, PlaceOK, RowOK
    <3> QED
      BY <1>1, <2>3, <3>1, LeftoverFrame DEF HasPartial
  <2> QED
    BY <1>1, <1>4, <2>1, <2>4, <2>5, <2>6, <2>7, PhaseAtRest, AtRest
<1>5. CASE /\ pc' = "rb_target" /\ at' = Last /\ UNCHANGED <<svc, cur, mem>>
           /\ pc \in ApplySteps /\ mem.state # "files_committed"
  <2>1. /\ cur \in Changesets /\ svc = "serving" /\ status[cur] = "applying"
        /\ pc \in {"writing", "staging", "filling"} \cup (Forward \ {"committing"})
        /\ mem.state \in {"preparing", "prepared", "applying"}
        /\ journal[cur].state # "files_committed"
    BY <1>1, <1>5 DEF PlaceOK, RowOK, JournalOK
  <2>2. /\ \A c \in Changesets : Uncommitted(c) => Uncommitted(c)'
        /\ \A c \in Changesets : c # cur => journal'[c] = journal[c]
        /\ journal'[cur] \in {journal[cur], mem}
        /\ journal'[cur].state # "files_committed"
    BY <1>3, <2>1 DEF Uncommitted
  <2>3. RowOK' /\ BaseOK'
    BY <1>1, <1>5, <2>1, <2>2 DEF RowOK, BaseOK, Uncommitted
  <2>4. TargetOK'
    BY <1>1, <2>2, TargetFrame
  <2>5. KeepOK'
    BY <1>1, KeepFrame
  <2>6. LeftoverOK'
    <3>1. \A c \in Changesets \ {cur} : Uncommitted(c)' => HasPartial(c)'
      BY <1>1, <2>1, <2>2 DEF LeftoverOK, Uncommitted, HasPartial
    <3> QED
      BY <1>5, <2>1, <3>1 DEF LeftoverOK, HasPartial, Uncommitted
  <2>7. PhaseOK'
    <3>1. \A c \in Changesets : (Clean(c)' <=> Clean(c)) /\ (HasPartial(c)' <=> HasPartial(c))
      BY <1>1 DEF Clean, HasPartial
    <3>2. pc = "writing" =>
            /\ ~HasPartial(cur)
            /\ mem.state = "preparing" => Clean(cur)
            /\ mem.state # "preparing" => NonDeletes(cur) \subseteq mem.staged
      <4>1. journal[cur].state = "none" => Clean(cur)
        BY <2>1 DEF NoResidue, KeptOK, Clean, TargetOK, Verdict, Uncommitted
      <4> QED
        BY <2>1, <4>1 DEF PhaseOK
    <3>3. \A p \in Paths : target[p] = cur => p \in mem.staged
      <4>1. Clean(cur) \/ NonDeletes(cur) \subseteq mem.staged
        BY <2>1, <3>2 DEF PhaseOK
      <4> QED
        BY <2>1, <4>1 DEF Clean, TargetOK
    <3>4. \A c \in Changesets :
            /\ journal'[c].state = "preparing" => Clean(c)'
            /\ journal'[c].state \in {"prepared", "applying"} =>
                  ~HasPartial(c)' /\ NonDeletes(c) \subseteq journal'[c].staged
      BY <1>3, <2>1, <3>1, <3>2 DEF PhaseOK
    <3> QED
      BY <1>1, <1>5, <2>2, <3>3, <3>4 DEF PhaseOK, HasPartial, Clean, NonDeletes
  <2>8. ForwardOK' /\ BackwardOK'
    <3>1. \A i \in (Last + 1)..Last : target[Order[cur][i]] # cur
      BY <2>1, RecordFacts DEF Last
    <3> QED
      BY <1>1, <1>5, <3>1 DEF ForwardOK, BackwardOK, Last
  <2>9. InPlaceOK'
    <3>1. \A p \in OpPaths(cur) : Provisional(cur, p)' \/ target[p] = base[cur][p]
      BY <1>1, <1>5, <2>1, <2>2 DEF InPlaceOK, Provisional, Staging
    <3> QED
      BY <1>1, <1>5, <3>1 DEF InPlaceOK
  <2> QED
    BY <2>3, <2>4, <2>5, <2>6, <2>7, <2>8, <2>9
<1>6. CASE /\ pc' = "rb_target" /\ at' = Last /\ UNCHANGED <<svc, cur, mem>>
           /\ pc \in FinalSteps /\ mem.state # "files_committed"
  BY <1>6 DEF JournalOK
<1> QED
  BY <1>4, <1>5, <1>6 DEF Fault, Fail, Abandon, Goto

(***************************************************************************)
(* The service dies, starts, has recovered, or nothing happens.            *)
(***************************************************************************)
LEMMA RestartShape ==
    ASSUME ShapeInv, KeptInv', AppliedStays, Serve \/ Crash \/ Start \/ UNCHANGED vars
    PROVE  ShapeOK'
<1> USE DEF ShapeInv, ShapeOK, KeptInv, ResidueInv, PlaceInv, Forward, FinalSteps,
          RollbackSteps, ApplySteps
<1>1. CASE UNCHANGED vars
  BY <1>1 DEF vars, rows, files, control, world, RowOK, BaseOK, TargetOK, KeepOK, LeftoverOK,
     PhaseOK, ForwardOK, BackwardOK, InPlaceOK, Uncommitted, Verdict, HasPartial, Clean,
     NonDeletes, Provisional, Proposed, NextOp, ThisOp, Last, Kind
<1>2. CASE Serve \/ Crash \/ Start
  <2>1. /\ UNCHANGED <<target, stage, keep, journal, base, status>>
        /\ pc' \in {"idle", "scan"} /\ (pc' = "scan" => svc' = "recovering")
        /\ svc' = "serving" => \A c \in Changesets : journal[c] = NoJournal
    BY <1>2 DEF Serve, Crash, Start, ServiceGone, rows, files
  <2>2. \A c \in Changesets : Uncommitted(c)' <=> Uncommitted(c)
    BY <2>1 DEF Uncommitted
  <2>3. RowOK' /\ BaseOK'
    BY <2>1, <2>2 DEF RowOK, BaseOK
  <2>4. TargetOK'
    BY <2>1, <2>2, TargetFrame
  <2>5. KeepOK'
    BY <2>1, KeepFrame
  <2>6. LeftoverOK'
    BY <2>1 DEF LeftoverOK, HasPartial, Uncommitted, NoJournal
  <2> QED
    BY <2>1, <2>3, <2>4, <2>5, <2>6, PhaseAtRest, AtRest
<1> QED
  BY <1>1, <1>2

(***************************************************************************)
(* An edit leaves no changeset's bytes behind.                             *)
(***************************************************************************)
LEMMA EditShape ==
    ASSUME ShapeInv, KeptInv', AppliedStays, NEW q \in Paths, Edit(q)
    PROVE  ShapeOK'
<1> USE DEF ShapeInv, ShapeOK, KeptInv, ResidueInv, PlaceInv, Forward, FinalSteps,
          RollbackSteps, ApplySteps
<1>1. /\ UNCHANGED <<stage, keep, journal, base, status, svc, pc, cur, mem, at>>
      /\ pc \in {"idle", "scan"}
      /\ \A p \in Paths : target'[p] = target[p] \/ target'[p] \notin Changesets
  BY ChangesetsAssumption DEF Edit, LockFree, rows, control, TypeOK
<1>2. \A c \in Changesets : (Uncommitted(c)' <=> Uncommitted(c)) /\ (Clean(c) => Clean(c)')
  BY <1>1 DEF Uncommitted, Clean
<1>3. RowOK' /\ BaseOK'
  BY <1>1, <1>2 DEF RowOK, BaseOK
<1>4. TargetOK'
  BY <1>1, <1>2, TargetFrame
<1>5. KeepOK'
  BY <1>1, KeepFrame
<1>6. LeftoverOK'
  BY <1>1, <1>2, LeftoverFrame DEF HasPartial
<1>7. PhaseOK'
  BY <1>1, <1>2 DEF PhaseOK, HasPartial, NonDeletes
<1> QED
  BY <1>1, <1>3, <1>4, <1>5, <1>6, <1>7, AtRest

-----------------------------------------------------------------------------
(* The shape is an invariant                                                *)

(***************************************************************************)
(* No changeset has left anything at first.                                *)
(***************************************************************************)
LEMMA InitShape == Init => ShapeInv
<1> SUFFICES ASSUME Init PROVE ShapeInv
  OBVIOUS
<1>1. KeptInv
  BY InitKept
<1>2. /\ \A c \in Changesets : ~Uncommitted(c) /\ journal[c] = NoJournal /\ status[c] = "none"
      /\ \A c \in Changesets, p \in Paths : target[p] # c /\ keep[c][p] = Absent
      /\ pc = "idle"
  BY ChangesetsAssumption DEF Init, Uncommitted, NoJournal
<1>3. RowOK /\ BaseOK
  BY <1>2 DEF RowOK, BaseOK, NoJournal, ApplySteps, RollbackSteps
<1>4. TargetOK /\ KeepOK /\ LeftoverOK
  BY <1>2 DEF TargetOK, KeepOK, LeftoverOK
<1>5. PhaseOK
  BY <1>2 DEF PhaseOK, NoJournal, Forward, RollbackSteps
<1>6. ForwardOK /\ BackwardOK /\ InPlaceOK
  BY <1>2 DEF ForwardOK, BackwardOK, InPlaceOK, Staging, Forward, RollbackSteps
<1> QED
  BY <1>1, <1>3, <1>4, <1>5, <1>6 DEF ShapeInv, ShapeOK

(***************************************************************************)
(* Every step keeps the shape.                                             *)
(***************************************************************************)
LEMMA NextShape == SingleFault /\ ShapeInv /\ [Next]_vars => ShapeInv'
<1> SUFFICES ASSUME SingleFault, ShapeInv, [Next]_vars PROVE ShapeInv'
  OBVIOUS
<1>1. KeptInv' /\ AppliedStays
  BY NextKept, NextApplied DEF ShapeInv
<1>2. ASSUME NEW c \in Changesets,
             \/ Create(c) \/ Approve(c) \/ Reject(c) \/ ReleaseOrphan(c)
             \/ Apply(c) \/ Recover(c)
      PROVE  ShapeInv'
  BY <1>1, <1>2, RowsShape, ApplyShape, RecoverShape DEF ShapeInv
<1>3. CASE Prepare \/ WriteJournal \/ CreateStage \/ FillStage \/ AllStaged
           \/ AllOperationsDone
  BY <1>1, <1>3, PrepareShape, WriteJournalShape, StageShape, AllDoneShape DEF ShapeInv
<1>4. CASE LinkRollback \/ UnlinkBase \/ DeleteDone \/ LinkTarget \/ UnlinkStage \/ WriteCommit
  BY <1>1, <1>4, LinkRollbackShape, UnlinkBaseShape, LinkTargetShape, OperationShape,
     WriteCommitShape DEF ShapeInv
<1>5. CASE \/ Finalize \/ CleanRollback \/ RetireJournal \/ RollbackTarget \/ RollbackKeep
           \/ RollbackUnlink \/ RollbackStage \/ RollbackJournal \/ Release
  BY <1>1, <1>5, CompleteShape, RollbackTargetShape, RollbackKeepShape, RollbackStageShape,
     ReleaseShape DEF ShapeInv
<1>6. CASE Serve \/ Fault \/ Crash \/ Start \/ (\E p \in Paths : Edit(p)) \/ UNCHANGED vars
  BY <1>1, <1>6, FaultShape, RestartShape, EditShape DEF ShapeInv
<1> QED
  BY <1>2, <1>3, <1>4, <1>5, <1>6 DEF Next, ServiceStep

-----------------------------------------------------------------------------
(* What a path holds once everything is settled                             *)

(* A provisional path settles to the base of the changeset at work there,   *)
(* any other path is settled already; while apply() works, its own paths    *)
(* settle to the reviewed bases.                                            *)
SettledFacts ==
    /\ \A c \in Changesets, p \in Paths : Provisional(c, p) => Settled[p] = base[c][p]
    /\ \A p \in Paths : (\A c \in Changesets : ~Provisional(c, p)) => Settled[p] = target[p]
    /\ svc = "serving" /\ pc \in Staging \cup Forward \cup RollbackSteps =>
          \A p \in OpPaths(cur) : Settled[p] = base[cur][p]

(***************************************************************************)
(* The files have one settled content: at most one changeset's work is     *)
(* provisional at a path.                                                  *)
(***************************************************************************)
LEMMA SettledIs == ShapeInv => SettledFacts
<1> SUFFICES ASSUME ShapeInv PROVE SettledFacts
  OBVIOUS
<1> USE DEF ShapeInv, ShapeOK, KeptInv, ResidueInv, PlaceInv
<1>1. ASSUME NEW c \in Changesets, NEW p \in Paths, Provisional(c, p)
      PROVE  Settled[p] = base[c][p]
  <2> DEFINE e == CHOOSE d \in Changesets : Provisional(d, p)
  <2>1. e \in Changesets /\ Provisional(e, p)
    BY <1>1
  <2>2. e = c
    <3> SUFFICES ASSUME e # c PROVE FALSE
      OBVIOUS
    <3> HIDE DEF e
    <3>1. Uncommitted(c) /\ Uncommitted(e) /\ ~Clean(c) /\ ~Clean(e)
      BY <1>1, <2>1 DEF Provisional, Clean
    <3> QED
      BY <2>1, <3>1, OneDirty
  <2>3. Settled[p] = base[e][p]
    BY <1>1 DEF Settled
  <2> QED
    BY <2>2, <2>3
<1>2. ASSUME NEW p \in Paths, \A c \in Changesets : ~Provisional(c, p)
      PROVE  Settled[p] = target[p]
  BY <1>2 DEF Settled
<1>3. ASSUME svc = "serving", pc \in Staging \cup Forward \cup RollbackSteps,
             NEW p \in OpPaths(cur)
      PROVE  Settled[p] = base[cur][p]
  <2>1. cur \in Changesets /\ p \in Paths
    BY <1>3, RecordFacts DEF PlaceOK, Staging, Forward, RollbackSteps
  <2>2. Provisional(cur, p) \/ target[p] = base[cur][p]
    BY <1>3 DEF InPlaceOK
  <2>3. CASE Provisional(cur, p)
    BY <1>1, <2>1, <2>3
  <2>4. CASE ~Provisional(cur, p)
    <3>1. \A c \in Changesets : ~Provisional(c, p)
      BY <1>3, <2>1, <2>4, OthersClean DEF Provisional, Clean
    <3> QED
      BY <1>2, <2>1, <2>2, <2>4, <3>1
  <2> QED
    BY <2>3, <2>4
<1> QED
  BY <1>1, <1>2, <1>3 DEF SettledFacts

(* Nothing that matters for p changes. *)
SamePath(p) ==
    /\ target'[p] = target[p]
    /\ \A c \in Changesets : /\ Provisional(c, p)' <=> Provisional(c, p)
                             /\ Provisional(c, p) => base'[c][p] = base[c][p]

(***************************************************************************)
(* Then p settles to the same content.                                     *)
(***************************************************************************)
LEMMA SettledSame ==
    ASSUME SettledFacts, SettledFacts', NEW p \in Paths, SamePath(p)
    PROVE  Settled'[p] = Settled[p]
<1>1. CASE \E c \in Changesets : Provisional(c, p)
  BY <1>1 DEF SamePath, SettledFacts
<1>2. CASE ~ \E c \in Changesets : Provisional(c, p)
  BY <1>2 DEF SamePath, SettledFacts
<1> QED
  BY <1>1, <1>2

(***************************************************************************)
(* The settled world is a world.                                           *)
(***************************************************************************)
LEMMA SettledType == ShapeInv => Settled \in [Paths -> Contents]
<1> SUFFICES ASSUME ShapeInv, NEW p \in Paths
             PROVE  (IF \E c \in Changesets : Provisional(c, p)
                     THEN base[CHOOSE c \in Changesets : Provisional(c, p)][p]
                     ELSE target[p]) \in Contents
  BY DEF Settled
<1>1. TypeOK
  BY DEF ShapeInv, KeptInv, ResidueInv, PlaceInv
<1>2. CASE \E c \in Changesets : Provisional(c, p)
  <2> DEFINE e == CHOOSE c \in Changesets : Provisional(c, p)
  <2>1. e \in Changesets
    BY <1>2
  <2> HIDE DEF e
  <2>2. base[e][p] \in Contents
    BY <1>1, <2>1 DEF TypeOK
  <2> QED
    BY <1>2, <2>2 DEF e
<1>3. CASE ~ \E c \in Changesets : Provisional(c, p)
  BY <1>1, <1>3 DEF TypeOK
<1> QED
  BY <1>2, <1>3

(***************************************************************************)
(* Functions on the paths are equal when they agree on every path.         *)
(***************************************************************************)
LEMMA SettledExt ==
    ASSUME \A p \in Paths : Settled'[p] = Settled[p]
    PROVE  Settled' = Settled
<1>1. Settled = [p \in Paths |-> Settled[p]] /\ Settled' = [p \in Paths |-> Settled'[p]]
  BY DEF Settled
<1> QED
  BY <1>1

(***************************************************************************)
(* Steps that change no path, no rollback file and no base of a pending    *)
(* changeset, and leave the same ones pending.                             *)
(***************************************************************************)
LEMMA QuietSettled ==
    ASSUME SettledFacts, SettledFacts', UNCHANGED target,
           \A c \in Changesets : Uncommitted(c)' <=> Uncommitted(c),
           \A c \in Changesets : Uncommitted(c) => base'[c] = base[c] /\ keep'[c] = keep[c]
    PROVE  Settled' = Settled
<1>1. \A p \in Paths : SamePath(p)
  BY DEF SamePath, Provisional
<1> QED
  BY <1>1, SettledSame, SettledExt

(***************************************************************************)
(* The operations of apply() change its own paths only, and these settle   *)
(* to the same bases all along.                                            *)
(***************************************************************************)
LEMMA WorkSettled ==
    ASSUME ShapeInv, SettledFacts, SettledFacts', LinkRollback \/ UnlinkBase \/ LinkTarget
    PROVE  Settled' = Settled
<1> USE DEF ShapeInv, ShapeOK, KeptInv, ResidueInv, PlaceInv
<1>1. /\ cur \in Changesets /\ svc = "serving" /\ UNCHANGED <<svc, cur, base, journal>>
      /\ pc \in Forward /\ pc' \in Forward /\ at < Last
  BY DEF LinkRollback, UnlinkBase, LinkTarget, Goto, rows, PlaceOK, RowOK, Forward, ApplySteps
<1>2. NextOp \in OpPaths(cur) /\ NextOp \in Paths
  BY <1>1, NextOpFacts
<1>3. /\ \A p \in Paths : p # NextOp => target'[p] = target[p]
      /\ \A c \in Changesets, p \in Paths : c # cur \/ p # NextOp => keep'[c][p] = keep[c][p]
  BY <1>1, <1>2 DEF LinkRollback, UnlinkBase, LinkTarget, TypeOK
<1>4. ASSUME NEW p \in Paths
      PROVE  Settled'[p] = Settled[p]
  <2>1. CASE p \in OpPaths(cur)
    BY <1>1, <2>1 DEF SettledFacts
  <2>2. CASE p \notin OpPaths(cur)
    <3>1. SamePath(p)
      BY <1>1, <1>2, <1>3, <2>2 DEF SamePath, Provisional, Uncommitted
    <3> QED
      BY <3>1, SettledSame
  <2> QED
    BY <2>1, <2>2
<1> QED
  BY <1>4, SettledExt

(***************************************************************************)
(* A roll-back gives the path at hand back to the base it settles to.      *)
(***************************************************************************)
LEMMA RollbackSettled ==
    ASSUME ShapeInv, ShapeInv', SettledFacts, SettledFacts',
           RollbackTarget \/ RollbackKeep \/ RollbackUnlink
    PROVE  Settled' = Settled
<1> USE DEF ShapeInv, ShapeOK, KeptInv, ResidueInv, PlaceInv
<1>1. /\ cur \in Changesets /\ UNCHANGED <<base, journal, status>>
      /\ pc \in {"rb_target", "rb_keep", "rb_unlink"} /\ at >= 1 /\ at <= Last
      /\ status[cur] = "applying" /\ journal[cur].state # "files_committed"
  BY DEF RollbackTarget, RollbackKeep, RollbackUnlink, rows, PlaceOK, RowOK, PhaseOK,
     RollbackSteps
<1>2. ThisOp \in OpPaths(cur) /\ ThisOp \in Paths
  BY <1>1, ThisOpFacts
<1>3. PICK c \in Changesets, p \in Paths, kept \in Contents :
         c = cur /\ p = ThisOp /\ kept = keep[c][p]
  BY <1>1, <1>2 DEF TypeOK
<1>4. p \in OpPaths(c)
  BY <1>2, <1>3
<1>5. \/ /\ UNCHANGED keep /\ target[p] = c
         /\ target' = [target EXCEPT ![p] = Absent]
      \/ /\ UNCHANGED target /\ target[p] = kept /\ target[p] # c
         /\ keep' = [keep EXCEPT ![c][p] = Absent]
      \/ /\ UNCHANGED keep /\ kept # Absent /\ target[p] = Absent
         /\ target' = [target EXCEPT ![p] = kept]
      \/ UNCHANGED <<target, keep>>
  BY <1>1, <1>3 DEF RollbackTarget, RollbackKeep, RollbackUnlink, KeptOK, BackwardOK, TypeOK,
     RollbackSteps
<1>6. /\ \A q \in Paths : q # p => target'[q] = target[q]
      /\ \A d \in Changesets, q \in Paths : d # c \/ q # p => keep'[d][q] = keep[d][q]
  BY <1>3, <1>5 DEF TypeOK
<1>7. \A d \in Changesets : Uncommitted(d)' <=> Uncommitted(d)
  BY <1>1 DEF Uncommitted
<1>8. /\ kept # Absent => kept = base[c][p]
      /\ KindOf[c][p] = "create" <=> base[c][p] = Absent
      /\ base[c][p] # c
  BY <1>1, <1>3, <1>4 DEF KeepOK, BaseOK
<1>9. kept # Absent => Uncommitted(c)
  <2>1. ~Uncommitted(c) => journal[c] = NoJournal
    BY <1>1, <1>3 DEF Uncommitted, KeptOK, TypeOK, Journal, JournalStates, NoJournal,
       JournalOK
  <2> QED
    BY <1>3, <2>1 DEF NoResidue
<1>10. target[p] = c => Uncommitted(c) /\ (KindOf[c][p] # "create" => kept # Absent)
  BY <1>1, <1>3 DEF TargetOK, Verdict
<1>11. ASSUME Uncommitted(c), ~Clean(c), NEW d \in Changesets, d # c, Uncommitted(d)
       PROVE  Clean(d)
  BY <1>11, OneDirty
<1>12. Absent \notin Changesets
  BY ChangesetsAssumption
<1>13. Settled'[p] = Settled[p]
  <2>1. CASE UNCHANGED keep /\ target[p] = c /\ target'[p] = Absent
    <3>1. Provisional(c, p)
      BY <1>4, <1>10, <2>1 DEF Provisional
    <3>2. Settled[p] = base[c][p] /\ ~Clean(c)
      BY <2>1, <3>1 DEF SettledFacts, Clean
    <3>3. CASE KindOf[c][p] = "create"
      <4>1. base[c][p] = Absent
        BY <1>8, <3>3
      <4>2. kept = Absent
        BY <1>8, <4>1
      <4>3. ASSUME NEW d \in Changesets
            PROVE  ~Provisional(d, p)'
        <5>1. d # c /\ Uncommitted(d) => keep[d][p] = Absent
          BY <1>10, <1>11, <2>1, <3>2 DEF Clean
        <5>2. Uncommitted(d) => keep'[d][p] = Absent
          BY <1>3, <2>1, <4>2, <5>1
        <5> QED
          BY <1>7, <1>12, <2>1, <5>2 DEF Provisional
      <4>4. Settled'[p] = target'[p]
        BY <4>3 DEF SettledFacts
      <4> QED
        BY <2>1, <3>2, <4>1, <4>4
    <3>4. CASE KindOf[c][p] # "create"
      <4>1. keep'[c][p] # Absent
        BY <1>3, <1>10, <2>1, <3>4
      <4>2. Provisional(c, p)'
        BY <1>4, <1>7, <1>10, <2>1, <4>1 DEF Provisional
      <4>3. Settled'[p] = base'[c][p]
        BY <4>2 DEF SettledFacts
      <4> QED
        BY <1>1, <3>2, <4>3
    <3> QED
      BY <3>3, <3>4
  <2>2. CASE UNCHANGED target /\ target[p] = kept /\ target[p] # c
    <3>1. \A d \in Changesets : d # c => keep'[d][p] = keep[d][p]
      BY <1>6
    <3>2. keep'[c][p] \in {Absent, kept}
      BY <1>3, <1>5, <2>2 DEF TypeOK
    <3>3. ~Provisional(c, p) /\ ~Provisional(c, p)'
      BY <1>3, <2>2, <3>2 DEF Provisional
    <3>4. ASSUME NEW d \in Changesets
          PROVE  Provisional(d, p)' <=> Provisional(d, p)
      <4>1. CASE d = c
        BY <3>3, <4>1
      <4>2. CASE d # c
        BY <1>7, <2>2, <3>1, <4>2 DEF Provisional
      <4> QED
        BY <4>1, <4>2
    <3>5. SamePath(p)
      BY <1>1, <2>2, <3>4 DEF SamePath
    <3> QED
      BY <3>5, SettledSame
  <2>3. CASE UNCHANGED keep /\ kept # Absent /\ target[p] = Absent /\ target'[p] = kept
    <3>1. Provisional(c, p)
      BY <1>3, <1>4, <1>9, <2>3 DEF Provisional
    <3>2. Settled[p] = base[c][p]
      BY <3>1 DEF SettledFacts
    <3>3. ASSUME NEW d \in Changesets
          PROVE  ~Provisional(d, p)'
      <4>1. keep[c][p] # Absent /\ target'[p] = keep[c][p]
        BY <1>3, <2>3
      <4>2. keep[c][p] = d => Verdict[d] = "applied"
        BY <4>1 DEF KeepOK
      <4>3. Verdict[d] = "applied" => ~Uncommitted(d)
        BY DEF Verdict, RowOK, Uncommitted
      <4> QED
        BY <1>7, <2>3, <4>1, <4>2, <4>3 DEF Provisional
    <3>4. Settled'[p] = target'[p]
      BY <3>3 DEF SettledFacts
    <3> QED
      BY <1>8, <2>3, <3>2, <3>4
  <2>4. CASE UNCHANGED <<target, keep>>
    <3>1. SamePath(p)
      BY <1>1, <1>7, <2>4 DEF SamePath, Provisional
    <3> QED
      BY <3>1, SettledSame
  <2> QED
    BY <1>5, <2>1, <2>2, <2>3, <2>4 DEF TypeOK
<1>14. ASSUME NEW q \in Paths
       PROVE  Settled'[q] = Settled[q]
  <2>1. CASE q = p
    BY <1>13, <2>1
  <2>2. CASE q # p
    <3>1. SamePath(q)
      BY <1>1, <1>6, <1>7, <2>2 DEF SamePath, Provisional
    <3> QED
      BY <3>1, SettledSame
  <2> QED
    BY <2>1, <2>2
<1> QED
  BY <1>14, SettledExt

-----------------------------------------------------------------------------
(* Refinement of the promise, step by step                                  *)

(* The steps nobody sees in AtomicChangesets.                               *)
HiddenStep ==
    \/ \E c \in Changesets : Apply(c) \/ Recover(c) \/ ReleaseOrphan(c)
    \/ Prepare \/ WriteJournal \/ CreateStage \/ FillStage \/ AllStaged
    \/ LinkRollback \/ UnlinkBase \/ DeleteDone \/ LinkTarget \/ UnlinkStage
    \/ AllOperationsDone \/ Finalize \/ CleanRollback \/ RetireJournal
    \/ RollbackTarget \/ RollbackKeep \/ RollbackUnlink \/ RollbackStage
    \/ RollbackJournal \/ Release \/ Serve \/ Fault \/ Crash \/ Start
    \/ UNCHANGED vars

(***************************************************************************)
(* A first journal finds nothing of its changeset in the world, and later  *)
(* ones change nothing.                                                    *)
(***************************************************************************)
LEMMA JournalSettled ==
    ASSUME ShapeInv, SettledFacts, SettledFacts', pc = "writing",
           UNCHANGED <<target, keep, base>>, journal' = [journal EXCEPT ![cur] = mem]
    PROVE  Settled' = Settled
<1> USE DEF ShapeInv, ShapeOK, KeptInv, ResidueInv, PlaceInv
<1>1. PICK c \in Changesets : c = cur
  BY DEF PlaceOK
<1>2. /\ status[c] = "applying" /\ journal[c].state # "files_committed"
      /\ mem.state \in {"preparing", "prepared", "applying"}
  BY <1>1 DEF RowOK, JournalOK, ApplySteps
<1>3. /\ journal'[c] = mem
      /\ \A d \in Changesets : d # c => journal'[d] = journal[d]
  BY <1>1 DEF TypeOK
<1>4. CASE journal[c].state = "none"
  <2>1. \A p \in Paths : keep[c][p] = Absent
    BY <1>4 DEF KeptOK, NoResidue
  <2>2. \A p \in Paths : target[p] # c
    BY <1>2, <1>4 DEF TargetOK, Verdict, Uncommitted
  <2>3. ASSUME NEW p \in Paths
        PROVE  SamePath(p)
    <3>1. ~Provisional(c, p) /\ ~Provisional(c, p)'
      BY <2>1, <2>2 DEF Provisional
    <3> QED
      BY <1>3, <3>1 DEF SamePath, Provisional, Uncommitted
  <2> QED
    BY <2>3, SettledSame, SettledExt
<1>5. CASE journal[c].state # "none"
  <2>1. \A d \in Changesets : Uncommitted(d)' <=> Uncommitted(d)
    BY <1>2, <1>3, <1>5 DEF Uncommitted
  <2> QED
    BY <2>1, QuietSettled
<1> QED
  BY <1>4, <1>5

(***************************************************************************)
(* When the journal goes after a roll-back, nothing provisional is left.   *)
(***************************************************************************)
LEMMA RollbackJournalSettled ==
    ASSUME ShapeInv, ShapeInv', SettledFacts, SettledFacts', RollbackJournal
    PROVE  Settled' = Settled
<1> USE DEF ShapeInv, ShapeOK, KeptInv, ResidueInv, PlaceInv
<1>1. PICK c \in Changesets : c = cur
  BY DEF PlaceOK, RollbackJournal
<1>2. /\ UNCHANGED <<target, keep, base>>
      /\ journal'[c] = NoJournal
      /\ \A d \in Changesets : d # c => journal'[d] = journal[d]
  BY <1>1 DEF TypeOK, RollbackJournal, rows, files
<1>3. \A p \in Paths : keep[c][p] = Absent
  BY <1>2 DEF NoResidue
<1>4. ASSUME NEW p \in OpPaths(c)
      PROVE  target[p] # c
  <2>1. PICK i \in 1..Len(Order[c]) : p = Order[c][i]
    BY RecordOrder DEF RecordOK
  <2>2. /\ pc \in RollbackSteps /\ at = 0 /\ Last = Len(Order[c])
        /\ i \in (at + 1)..Last
    BY <1>1 DEF RollbackJournal, RollbackSteps, PlaceOK, Last
  <2> QED
    BY <1>1, <2>1, <2>2 DEF BackwardOK
<1>5. ASSUME NEW p \in Paths
      PROVE  SamePath(p)
  <2>1. ~Provisional(c, p) /\ ~Provisional(c, p)'
    BY <1>2, <1>3, <1>4 DEF Provisional
  <2> QED
    BY <1>2, <2>1 DEF SamePath, Provisional, Uncommitted
<1> QED
  BY <1>5, SettledSame, SettledExt

(***************************************************************************)
(* No hidden step changes what the paths settle to.                        *)
(***************************************************************************)
LEMMA HiddenSettled ==
    ASSUME SingleFault, ShapeInv, ShapeInv', SettledFacts, SettledFacts', HiddenStep
    PROVE  Settled' = Settled
<1> USE DEF ShapeInv, ShapeOK, KeptInv, ResidueInv, PlaceInv
<1>1. CASE LinkRollback \/ UnlinkBase \/ LinkTarget
  BY <1>1, WorkSettled
<1>2. CASE RollbackTarget \/ RollbackKeep \/ RollbackUnlink
  BY <1>2, RollbackSettled
<1>3. CASE RollbackJournal
  BY <1>3, RollbackJournalSettled
<1>4. CASE WriteJournal
  BY <1>4, JournalSettled DEF WriteJournal, rows, files
<1>5. CASE UNCHANGED <<target, keep, base, journal>>
  <2>1. \A c \in Changesets : Uncommitted(c)' <=> Uncommitted(c)
    BY <1>5 DEF Uncommitted
  <2> QED
    BY <1>5, <2>1, QuietSettled
<1>6. CASE Fault
  <2>1. UNCHANGED <<target, keep, base>>
    BY <1>6 DEF Fault, rows, files
  <2>2. \/ UNCHANGED journal
        \/ pc = "writing" /\ journal' = [journal EXCEPT ![cur] = mem]
    BY <1>6 DEF Fault, SingleFault
  <2> QED
    BY <1>5, <2>1, <2>2, JournalSettled
<1>7. CASE CleanRollback \/ RetireJournal
  <2>1. /\ cur \in Changesets /\ journal[cur].state = "files_committed"
        /\ UNCHANGED <<target, base>>
        /\ \A c \in Changesets : c # cur =>
              journal'[c] = journal[c] /\ keep'[c] = keep[c]
        /\ journal'[cur] \in {journal[cur], NoJournal}
    BY <1>7 DEF CleanRollback, RetireJournal, TypeOK, PlaceOK, KeptOK, FinalSteps, rows,
       files
  <2>2. \A c \in Changesets : Uncommitted(c)' <=> Uncommitted(c)
    BY <2>1 DEF Uncommitted, NoJournal
  <2>3. \A c \in Changesets : Uncommitted(c) => base'[c] = base[c] /\ keep'[c] = keep[c]
    BY <2>1 DEF Uncommitted
  <2> QED
    BY <2>1, <2>2, <2>3, QuietSettled
<1>8. CASE \/ \E c \in Changesets : Apply(c) \/ Recover(c) \/ ReleaseOrphan(c)
           \/ Prepare \/ CreateStage \/ FillStage \/ AllStaged \/ DeleteDone \/ UnlinkStage
           \/ AllOperationsDone \/ Finalize \/ RollbackStage \/ Release \/ Serve \/ Crash
           \/ Start \/ UNCHANGED vars
  BY <1>5, <1>8 DEF Apply, Recover, ReleaseOrphan, Prepare, CreateStage, FillStage,
     AllStaged, DeleteDone, UnlinkStage, AllOperationsDone, Finalize, RollbackStage, Release,
     Serve, Crash, Start, vars, rows, files
<1> QED
  BY <1>1, <1>2, <1>3, <1>4, <1>6, <1>7, <1>8 DEF HiddenStep

(***************************************************************************)
(* No hidden step changes a verdict.                                       *)
(***************************************************************************)
LEMMA HiddenVerdict ==
    ASSUME SingleFault, ShapeInv, HiddenStep
    PROVE  Verdict' = Verdict
<1> USE DEF ShapeInv, ShapeOK, KeptInv, ResidueInv, PlaceInv
<1> SUFFICES ASSUME NEW c \in Changesets
             PROVE  Verdict'[c] = Verdict[c]
  BY DEF Verdict
<1>1. CASE UNCHANGED <<status, journal>>
  BY <1>1 DEF Verdict
<1>2. ASSUME NEW d \in Changesets, Apply(d)
      PROVE  Verdict'[c] = Verdict[c]
  BY <1>2 DEF Apply, Verdict, TypeOK, NoJournal
<1>3. ASSUME NEW d \in Changesets, ReleaseOrphan(d)
      PROVE  Verdict'[c] = Verdict[c]
  BY <1>3 DEF ReleaseOrphan, Verdict, TypeOK, NoJournal
<1>4. CASE UNCHANGED status /\ pc = "writing" /\ journal' = [journal EXCEPT ![cur] = mem]
  <2>1. /\ cur \in Changesets /\ journal[cur].state # "files_committed"
        /\ mem.state # "files_committed"
    BY <1>4 DEF PlaceOK, JournalOK
  <2> QED
    BY <1>4, <2>1 DEF Verdict, TypeOK
<1>5. CASE Finalize
  <2>1. /\ cur \in Changesets /\ journal[cur].state = "files_committed"
        /\ status[cur] \in {"applying", "applied"}
    BY <1>5 DEF Finalize, PlaceOK, KeptOK, FinalSteps, RowOK
  <2> QED
    BY <1>5, <2>1 DEF Finalize, Verdict, TypeOK
<1>6. CASE RetireJournal
  <2>1. cur \in Changesets /\ status[cur] = "applied"
    BY <1>6 DEF RetireJournal, PlaceOK, RowOK
  <2> QED
    BY <1>6, <2>1 DEF RetireJournal, Verdict, TypeOK, rows
<1>7. CASE RollbackJournal
  <2>1. cur \in Changesets /\ journal[cur].state # "files_committed"
    BY <1>7 DEF RollbackJournal, PlaceOK, PhaseOK, RollbackSteps
  <2> QED
    BY <1>7, <2>1 DEF RollbackJournal, Verdict, TypeOK, rows, NoJournal
<1>8. CASE Release
  <2>1. cur \in Changesets /\ status[cur] = "applying" /\ journal[cur].state = "none"
    BY <1>8 DEF Release, PlaceOK, RowOK, PhaseOK
  <2> QED
    BY <1>8, <2>1 DEF Release, Verdict, TypeOK
<1>9. CASE Fault
  <2>1. UNCHANGED status
    BY <1>9 DEF Fault, rows
  <2>2. \/ UNCHANGED journal
        \/ pc = "writing" /\ journal' = [journal EXCEPT ![cur] = mem]
    BY <1>9 DEF Fault, SingleFault
  <2> QED
    BY <1>1, <1>4, <2>1, <2>2
<1>10. CASE WriteJournal
  BY <1>4, <1>10 DEF WriteJournal, rows
<1>11. CASE \/ \E d \in Changesets : Recover(d)
            \/ Prepare \/ CreateStage \/ FillStage \/ AllStaged
            \/ LinkRollback \/ UnlinkBase \/ DeleteDone \/ LinkTarget \/ UnlinkStage
            \/ AllOperationsDone \/ CleanRollback
            \/ RollbackTarget \/ RollbackKeep \/ RollbackUnlink \/ RollbackStage
            \/ Serve \/ Crash \/ Start \/ UNCHANGED vars
  BY <1>1, <1>11 DEF Recover, Prepare, CreateStage, FillStage, AllStaged, LinkRollback,
     UnlinkBase, DeleteDone, LinkTarget, UnlinkStage, AllOperationsDone, CleanRollback,
     RollbackTarget, RollbackKeep, RollbackUnlink, RollbackStage, Serve, Crash, Start, vars,
     rows
<1> QED
  BY <1>2, <1>3, <1>5, <1>6, <1>7, <1>8, <1>9, <1>10, <1>11 DEF HiddenStep

(***************************************************************************)
(* The commit puts every operation of the changeset on its reviewed base,  *)
(* and changes no other path.                                              *)
(***************************************************************************)
LEMMA CommitSettled ==
    ASSUME ShapeInv, SettledFacts, SettledFacts', WriteCommit
    PROVE  /\ cur \in Changesets
           /\ \A p \in OpPaths(cur) : Settled[p] = base[cur][p]
           /\ Settled' = [p \in Paths |-> IF p \in OpPaths(cur) THEN Proposed(cur, p)
                                          ELSE Settled[p]]
           /\ Verdict[cur] = "approved"
           /\ Verdict' = [Verdict EXCEPT ![cur] = "applied"]
<1> USE DEF ShapeInv, ShapeOK, KeptInv, ResidueInv, PlaceInv
<1>1. PICK c \in Changesets : c = cur
  BY DEF PlaceOK, WriteCommit
<1>2. /\ svc = "serving" /\ status[c] = "applying" /\ at = Last
      /\ journal[c].state # "files_committed" /\ mem.state = "files_committed"
  BY <1>1 DEF WriteCommit, RowOK, ApplySteps, Forward, FinalSteps, JournalOK, ForwardOK
<1>3. /\ UNCHANGED <<target, keep, base, status>>
      /\ journal'[c] = mem
      /\ \A d \in Changesets : d # c => journal'[d] = journal[d]
  BY <1>1 DEF WriteCommit, rows, files, TypeOK
<1>4. ASSUME NEW p \in OpPaths(c)
      PROVE  Settled[p] = base[c][p] /\ target[p] = Proposed(c, p)
  <2>1. PICK i \in 1..Len(Order[c]) : p = Order[c][i]
    BY RecordOrder DEF RecordOK
  <2>2. pc \in Forward /\ i \in 1..at
    BY <1>1, <1>2 DEF WriteCommit, Forward, Last
  <2>3. target[p] = Proposed(c, p)
    BY <1>1, <2>1, <2>2 DEF ForwardOK
  <2>4. Settled[p] = base[c][p]
    BY <1>1, <1>2, <2>2 DEF SettledFacts
  <2> QED
    BY <2>3, <2>4
<1>5. ASSUME NEW p \in Paths
      PROVE  /\ \A d \in Changesets : ~Provisional(d, p)'
             /\ \A d \in Changesets : d # c => ~Provisional(d, p)
  <2>1. \A d \in Changesets : d # c /\ Uncommitted(d) => Clean(d)
    BY <1>1, <1>2, OthersClean
  <2> QED
    BY <1>2, <1>3, <2>1 DEF Provisional, Uncommitted, Clean
<1>6. ASSUME NEW p \in Paths
      PROVE  Settled'[p] = IF p \in OpPaths(c) THEN Proposed(c, p) ELSE Settled[p]
  <2>1. Settled'[p] = target[p]
    BY <1>3, <1>5 DEF SettledFacts
  <2>2. p \notin OpPaths(c) => Settled[p] = target[p]
    BY <1>5 DEF SettledFacts, Provisional
  <2> QED
    BY <1>4, <2>1, <2>2
<1>7. Settled' = [p \in Paths |-> Settled'[p]]
  BY DEF Settled
<1>8. Settled' = [p \in Paths |-> IF p \in OpPaths(c) THEN Proposed(c, p) ELSE Settled[p]]
  BY <1>6, <1>7
<1>9. Verdict[c] = "approved" /\ Verdict' = [Verdict EXCEPT ![c] = "applied"]
  BY <1>2, <1>3 DEF Verdict
<1> QED
  BY <1>1, <1>4, <1>8, <1>9

(***************************************************************************)
(* Somebody's edit changes what its own path settles to, and nothing else. *)
(***************************************************************************)
LEMMA EditSettled ==
    ASSUME ShapeInv, SettledFacts, SettledFacts', NEW p \in Paths, Edit(p)
    PROVE  Settled' = [Settled EXCEPT ![p] = Settled'[p]]
<1>1. /\ \A q \in Paths : q # p => target'[q] = target[q]
      /\ UNCHANGED <<journal, keep, base>>
  BY DEF Edit, rows, ShapeInv, KeptInv, ResidueInv, PlaceInv, TypeOK
<1>2. ASSUME NEW q \in Paths, q # p
      PROVE  Settled'[q] = Settled[q]
  <2>1. SamePath(q)
    BY <1>1, <1>2 DEF SamePath, Provisional, Uncommitted
  <2> QED
    BY <2>1, SettledSame
<1>3. Settled = [q \in Paths |-> Settled[q]] /\ Settled' = [q \in Paths |-> Settled'[q]]
  BY DEF Settled
<1> QED
  BY <1>2, <1>3

(***************************************************************************)
(* Requests decide on one verdict each.                                    *)
(***************************************************************************)
LEMMA RequestSettled ==
    ASSUME ShapeInv, SettledFacts, SettledFacts', NEW c \in Changesets,
           Create(c) \/ Approve(c) \/ Reject(c)
    PROVE  /\ Settled' = Settled
           /\ status[c] # "applying" /\ Verdict[c] = status[c]
           /\ Verdict' = [Verdict EXCEPT ![c] = status'[c]]
<1> USE DEF ShapeInv, ShapeOK, KeptInv, ResidueInv, PlaceInv
<1>1. /\ UNCHANGED <<target, keep, journal>>
      /\ \A d \in Changesets : d # c => status'[d] = status[d] /\ base'[d] = base[d]
      /\ status[c] # "none" => base'[c] = base[c]
      /\ status[c] # "applying" /\ status'[c] # "applying"
  BY DEF Create, Approve, Reject, files, TypeOK
<1>2. \A d \in Changesets : Uncommitted(d)' <=> Uncommitted(d)
  BY <1>1 DEF Uncommitted
<1>3. ~Uncommitted(c)
  BY <1>1 DEF RowOK
<1>4. \A d \in Changesets : Uncommitted(d) => base'[d] = base[d] /\ keep'[d] = keep[d]
  BY <1>1, <1>3
<1>5. Settled' = Settled
  BY <1>1, <1>2, <1>4, QuietSettled
<1> QED
  BY <1>1, <1>5 DEF Verdict

(***************************************************************************)
(* Every step is a step of AtomicChangesets or stutters.                   *)
(***************************************************************************)
LEMMA NextAtomic ==
    ASSUME SingleFault, ShapeInv, ShapeInv', SettledFacts, SettledFacts',
           Settled' \in [Paths -> Contents], [Next]_vars
    PROVE  [Atomic!Next]_(Atomic!vars)
<1>1. ASSUME NEW c \in Changesets, Create(c)
      PROVE  Atomic!Stage(c)
  <2>1. /\ Settled' = Settled /\ Verdict[c] = "none"
        /\ Verdict' = [Verdict EXCEPT ![c] = "staged"]
    BY <1>1, RequestSettled DEF Create, ShapeInv, KeptInv, ResidueInv, PlaceInv, TypeOK
  <2>2. /\ target \in [Paths -> Contents] /\ base' = [base EXCEPT ![c] = target]
        /\ UNCHANGED edited
    BY <1>1 DEF Create, world, ShapeInv, KeptInv, ResidueInv, PlaceInv, TypeOK
  <2> QED
    BY <2>1, <2>2 DEF Atomic!Stage
<1>2. ASSUME NEW c \in Changesets, Approve(c)
      PROVE  Atomic!Approve(c)
  <2>1. /\ Settled' = Settled /\ Verdict[c] = "staged"
        /\ Verdict' = [Verdict EXCEPT ![c] = "approved"]
    BY <1>2, RequestSettled DEF Approve, ShapeInv, KeptInv, ResidueInv, PlaceInv, TypeOK
  <2> QED
    BY <1>2, <2>1 DEF Atomic!Approve, Approve, world
<1>3. ASSUME NEW c \in Changesets, Reject(c)
      PROVE  Atomic!Reject(c)
  <2>1. /\ Settled' = Settled /\ Verdict[c] \in {"staged", "approved"}
        /\ Verdict' = [Verdict EXCEPT ![c] = "rejected"]
    BY <1>3, RequestSettled DEF Reject, ShapeInv, KeptInv, ResidueInv, PlaceInv, TypeOK
  <2> QED
    BY <1>3, <2>1 DEF Atomic!Reject, Reject, world
<1>4. CASE WriteCommit
  <2>1. PICK c \in Changesets : c = cur
    BY <1>4, CommitSettled
  <2>2. Atomic!Apply(c)
    BY <1>4, <2>1, CommitSettled DEF Atomic!Apply, WriteCommit, rows, world
  <2> QED
    BY <2>1, <2>2 DEF Atomic!Next
<1>5. ASSUME NEW p \in Paths, Edit(p)
      PROVE  Atomic!Edit(p)
  <2>1. Settled' = [Settled EXCEPT ![p] = Settled'[p]] /\ Settled'[p] \in Contents
    BY <1>5, EditSettled
  <2>2. Verdict' = Verdict
    BY <1>5 DEF Edit, Verdict, rows
  <2> QED
    BY <1>5, <2>1, <2>2 DEF Atomic!Edit, Edit, rows
<1>6. CASE HiddenStep
  <2>1. Settled' = Settled /\ Verdict' = Verdict
    BY <1>6, HiddenSettled, HiddenVerdict
  <2>2. UNCHANGED <<base, edited>>
    BY <1>6 DEF HiddenStep, Apply, Recover, ReleaseOrphan, Prepare, WriteJournal, CreateStage,
       FillStage, AllStaged, LinkRollback, UnlinkBase, DeleteDone, LinkTarget, UnlinkStage,
       AllOperationsDone, Finalize, CleanRollback, RetireJournal, RollbackTarget,
       RollbackKeep, RollbackUnlink, RollbackStage, RollbackJournal, Release, Serve, Fault,
       Crash, Start, vars, rows, world
  <2> QED
    BY <2>1, <2>2 DEF Atomic!vars
<1>7. \/ \E c \in Changesets : Create(c) \/ Approve(c) \/ Reject(c)
      \/ HiddenStep \/ WriteCommit
      \/ \E p \in Paths : Edit(p)
  BY DEF Next, ServiceStep, HiddenStep
<1> QED
  BY <1>1, <1>2, <1>3, <1>4, <1>5, <1>6, <1>7 DEF Atomic!Next

(***************************************************************************)
(* The files and rows start as AtomicChangesets does.                      *)
(***************************************************************************)
LEMMA InitAtomic == Init => Atomic!Init
<1> SUFFICES ASSUME Init PROVE Atomic!Init
  OBVIOUS
<1>1. \A c \in Changesets : ~Uncommitted(c)
  BY DEF Init, Uncommitted, NoJournal
<1>2. Settled = target
  BY <1>1 DEF Init, Settled, Provisional
<1>3. Verdict = [c \in Changesets |-> "none"]
  BY DEF Init, Verdict
<1>4. target \in [Paths -> Contents]
  BY DEF Init, Contents
<1> QED
  BY <1>2, <1>3, <1>4 DEF Init, Atomic!Init

(***************************************************************************)
(* apply() is all or nothing: whatever crashes, edits and errors come in   *)
(* between, the files and rows behave as AtomicChangesets, for any number  *)
(* of changesets, paths and starts.  Every state is taken as the recovery  *)
(* will settle it (Settled, Verdict).                                      *)
(***************************************************************************)
THEOREM ApplyIsAtomic == ASSUME SingleFault PROVE Spec => AtomicApply
<1>1. ShapeInv /\ [Next]_vars => ShapeInv'
  BY NextShape
<1>2. /\ ShapeInv /\ ShapeInv' /\ SettledFacts /\ SettledFacts'
      /\ (Settled \in [Paths -> Contents])' /\ [Next]_vars
      => [Atomic!Next]_(Atomic!vars)
  BY NextAtomic
<1> QED
  BY <1>1, <1>2, InitShape, InitAtomic, SettledIs, SettledType, PTL
     DEF Spec, AtomicApply, Atomic!Spec

-----------------------------------------------------------------------------
(* What the paths of a pending changeset settle to                          *)

(***************************************************************************)
(* Hidden steps start a journal at most while apply() writes its own, and  *)
(* commit none.                                                            *)
(***************************************************************************)
LEMMA HiddenJournals ==
    ASSUME SingleFault, ShapeInv, HiddenStep
    PROVE  /\ UNCHANGED <<base, edited>>
           /\ \A c \in Changesets :
                 /\ Uncommitted(c)' => Uncommitted(c) \/ (c = cur /\ pc = "writing")
                 /\ journal'[c].state = "files_committed" =>
                       journal[c].state = "files_committed"
<1> USE DEF ShapeInv, ShapeOK, KeptInv, ResidueInv, PlaceInv
<1>1. UNCHANGED <<base, edited>>
  BY DEF HiddenStep, Apply, Recover, ReleaseOrphan, Prepare, WriteJournal, CreateStage,
     FillStage, AllStaged, LinkRollback, UnlinkBase, DeleteDone, LinkTarget, UnlinkStage,
     AllOperationsDone, Finalize, CleanRollback, RetireJournal, RollbackTarget,
     RollbackKeep, RollbackUnlink, RollbackStage, RollbackJournal, Release, Serve, Fault,
     Crash, Start, vars, rows, world
<1>2. \/ UNCHANGED journal
      \/ pc = "writing" /\ journal' = [journal EXCEPT ![cur] = mem]
      \/ pc # "idle" /\ pc # "scan" /\ journal' = [journal EXCEPT ![cur] = NoJournal]
  BY DEF HiddenStep, SingleFault, Apply, Recover, ReleaseOrphan, Prepare, WriteJournal,
     CreateStage, FillStage, AllStaged, LinkRollback, UnlinkBase, DeleteDone, LinkTarget,
     UnlinkStage, AllOperationsDone, Finalize, CleanRollback, RetireJournal,
     RollbackTarget, RollbackKeep, RollbackUnlink, RollbackStage, RollbackJournal, Release,
     Serve, Fault, Crash, Start, vars
<1>3. CASE pc = "writing" /\ journal' = [journal EXCEPT ![cur] = mem]
  <2>1. cur \in Changesets /\ mem.state # "files_committed"
    BY <1>3 DEF PlaceOK, JournalOK
  <2> QED
    BY <1>1, <1>3, <2>1 DEF TypeOK, Uncommitted
<1>4. CASE pc # "idle" /\ pc # "scan" /\ journal' = [journal EXCEPT ![cur] = NoJournal]
  <2>1. cur \in Changesets
    BY <1>4 DEF PlaceOK
  <2> QED
    BY <1>1, <1>4, <2>1 DEF TypeOK, Uncommitted, NoJournal
<1> QED
  BY <1>1, <1>2, <1>3, <1>4 DEF Uncommitted

(***************************************************************************)
(* An unedited path of a pending changeset settles to its base, that of a  *)
(* committed one to what it proposed, unless another one took the path.    *)
(***************************************************************************)
LEMMA NextSettledOK ==
    ASSUME SingleFault, ShapeInv, ShapeInv', SettledFacts, SettledFacts', AppliedStays,
           SettledOK, [Next]_vars
    PROVE  SettledOK'
<1> SUFFICES ASSUME NEW c \in Changesets, NEW p \in OpPaths(c), p \notin edited'
             PROVE  /\ Uncommitted(c)' => Settled'[p] = base'[c][p] \/ Overruled(c, p)'
                    /\ journal'[c].state = "files_committed" =>
                          Settled'[p] = Proposed(c, p) \/ Overruled(c, p)'
  BY DEF SettledOK, Proposed
<1>1. p \in Paths
  BY RecordOrder DEF RecordOK
<1>2. Overruled(c, p) => Overruled(c, p)'
  BY DEF AppliedStays, Overruled
<1>3. p \notin edited =>
         /\ Uncommitted(c) => Settled[p] = base[c][p] \/ Overruled(c, p)
         /\ journal[c].state = "files_committed" =>
               Settled[p] = Proposed(c, p) \/ Overruled(c, p)
  BY DEF SettledOK
<1>4. ASSUME NEW d \in Changesets, Create(d) \/ Approve(d) \/ Reject(d)
      PROVE  /\ Uncommitted(c)' => Settled'[p] = base'[c][p] \/ Overruled(c, p)'
             /\ journal'[c].state = "files_committed" =>
                   Settled'[p] = Proposed(c, p) \/ Overruled(c, p)'
  <2>1. Settled' = Settled
    BY <1>4, RequestSettled
  <2>2. UNCHANGED <<journal, edited>> /\ (status[c] # "none" => base'[c] = base[c])
    BY <1>4 DEF Create, Approve, Reject, world, ShapeInv, KeptInv, ResidueInv, PlaceInv, TypeOK
  <2>3. Uncommitted(c) => status[c] # "none"
    BY DEF ShapeInv, ShapeOK, RowOK
  <2> QED
    BY <1>2, <1>3, <2>1, <2>2, <2>3 DEF Uncommitted
<1>5. CASE HiddenStep
  <2>1. Settled' = Settled /\ UNCHANGED <<base, edited>>
    BY <1>5, HiddenSettled, HiddenJournals
  <2>2. journal'[c].state = "files_committed" => journal[c].state = "files_committed"
    BY <1>5, HiddenJournals
  <2>3. Uncommitted(c)' => Uncommitted(c) \/ (c = cur /\ pc = "writing")
    BY <1>5, HiddenJournals
  <2>4. c = cur /\ pc = "writing" => Settled[p] = base[c][p]
    BY DEF SettledFacts, Staging, ShapeInv, ShapeOK, RowOK, ApplySteps
  <2> QED
    BY <1>2, <1>3, <2>1, <2>2, <2>3, <2>4
<1>6. CASE WriteCommit
  <2>1. /\ cur \in Changesets /\ Verdict'[cur] = "applied"
        /\ Settled'[p] = IF p \in OpPaths(cur) THEN Proposed(cur, p) ELSE Settled[p]
    BY <1>1, <1>6, CommitSettled DEF Verdict
  <2>2. /\ UNCHANGED <<base, edited>>
        /\ \A d \in Changesets : d # cur => journal'[d] = journal[d]
    BY <1>6, <2>1 DEF WriteCommit, rows, world, ShapeInv, KeptInv, ResidueInv, PlaceInv, TypeOK
  <2>3. CASE c = cur
    <3>1. mem.state = "files_committed" /\ journal'[c] = mem
      BY <1>6, <2>1, <2>3 DEF WriteCommit, ShapeInv, KeptInv, ResidueInv, PlaceInv, TypeOK,
         JournalOK
    <3> QED
      BY <2>1, <2>3, <3>1 DEF Uncommitted
  <2>4. CASE c # cur /\ p \in OpPaths(cur)
    <3>1. PICK d \in Changesets : d = cur
      BY <2>1
    <3>2. Overruled(c, p)'
      BY <2>1, <2>4, <3>1 DEF Overruled
    <3> QED
      BY <3>2
  <2>5. CASE c # cur /\ p \notin OpPaths(cur)
    BY <1>2, <1>3, <2>1, <2>2, <2>5 DEF Uncommitted
  <2> QED
    BY <2>3, <2>4, <2>5
<1>7. ASSUME NEW q \in Paths, Edit(q)
      PROVE  /\ Uncommitted(c)' => Settled'[p] = base'[c][p] \/ Overruled(c, p)'
             /\ journal'[c].state = "files_committed" =>
                   Settled'[p] = Proposed(c, p) \/ Overruled(c, p)'
  <2>1. Settled' = [Settled EXCEPT ![q] = Settled'[q]]
    BY <1>7, EditSettled
  <2>2. p # q /\ p \notin edited /\ UNCHANGED <<base, journal>>
    BY <1>7 DEF Edit, rows
  <2>3. Settled = [r \in Paths |-> Settled[r]]
    BY DEF Settled
  <2>4. Settled'[p] = Settled[p]
    BY <1>1, <2>1, <2>2, <2>3
  <2> QED
    BY <1>2, <1>3, <2>2, <2>4 DEF Uncommitted
<1>8. \/ \E d \in Changesets : Create(d) \/ Approve(d) \/ Reject(d)
      \/ HiddenStep \/ WriteCommit
      \/ \E q \in Paths : Edit(q)
  BY DEF Next, ServiceStep, HiddenStep
<1> QED
  BY <1>4, <1>5, <1>6, <1>7, <1>8

(***************************************************************************)
(* No changeset is pending at first.                                       *)
(***************************************************************************)
LEMMA InitSettledOK == Init => SettledOK
BY DEF Init, SettledOK, Uncommitted, NoJournal

(***************************************************************************)
(* A base that a path settles to is there, or it is kept by the changeset  *)
(* whose work is provisional there.                                        *)
(***************************************************************************)
LEMMA BaseStays == ShapeInv /\ SettledFacts /\ SettledOK => BaseIsReachable
<1> SUFFICES ASSUME ShapeInv, SettledFacts, SettledOK,
                    NEW c \in Changesets, Uncommitted(c),
                    NEW p \in OpPaths(c), p \notin edited, ~Overruled(c, p)
             PROVE  \/ base[c][p] = target[p]
                    \/ \E d \in Changesets : base[c][p] = keep[d][p]
  BY DEF BaseIsReachable, Overruled
<1> USE DEF ShapeInv, ShapeOK
<1>1. p \in Paths /\ Settled[p] = base[c][p]
  BY RecordOrder DEF RecordOK, SettledOK
<1>2. CASE \E d \in Changesets : Provisional(d, p)
  <2>1. PICK d \in Changesets : Provisional(d, p)
    BY <1>2
  <2>2. base[d][p] = base[c][p] /\ Uncommitted(d) /\ p \in OpPaths(d)
    BY <1>1, <2>1 DEF SettledFacts, Provisional
  <2>3. status[d] = "applying" /\ Verdict[d] # "applied"
    BY <2>2 DEF RowOK, Verdict, Uncommitted
  <2>4. keep[d][p] = base[d][p]
    <3>1. CASE keep[d][p] # Absent
      BY <1>1, <3>1 DEF KeepOK
    <3>2. CASE keep[d][p] = Absent
      <4>1. KindOf[d][p] = "create"
        BY <1>1, <2>1, <2>3, <3>2 DEF Provisional, TargetOK
      <4> QED
        BY <2>2, <2>3, <3>2, <4>1 DEF BaseOK
    <3> QED
      BY <3>1, <3>2
  <2> QED
    BY <2>2, <2>4
<1>3. CASE ~ \E d \in Changesets : Provisional(d, p)
  BY <1>1, <1>3 DEF SettledFacts
<1> QED
  BY <1>2, <1>3

(***************************************************************************)
(* Until its journal says files_committed, what a changeset was reviewed   *)
(* against is never lost: under its own name, under a rollback name, or    *)
(* replaced by a changeset that was applied.                               *)
(***************************************************************************)
THEOREM BaseReachable == ASSUME SingleFault PROVE Spec => []BaseIsReachable
<1>1. ShapeInv /\ [Next]_vars => ShapeInv'
  BY NextShape
<1>2. /\ ShapeInv /\ ShapeInv' /\ SettledFacts /\ SettledFacts' /\ AppliedStays
      /\ SettledOK /\ [Next]_vars
      => SettledOK'
  BY NextSettledOK
<1> QED
  BY <1>1, <1>2, InitShape, SettledIs, NextApplied, InitSettledOK, BaseStays, PTL DEF Spec

-----------------------------------------------------------------------------
(* Why recovery refuses                                                     *)

(* What recover_journals() rolls back is pending.                           *)
PendingOK == svc = "recovering" /\ pc \in RollbackSteps => Uncommitted(cur)

(* What explains a refusal. *)
Explained ==
    \/ edited # {}
    \/ \E c \in Changesets, p \in Paths : stage[c][p] = "partial"
    \/ \E c, d \in Changesets : /\ c # d /\ OpPaths(c) \cap OpPaths(d) # {}
                                /\ journal[c] # NoJournal /\ Verdict[d] = "applied"

(***************************************************************************)
(* recover_journals() keeps working on the journal it picked.              *)
(***************************************************************************)
LEMMA NextPending == ShapeInv /\ PendingOK /\ [Next]_vars => PendingOK'
<1> SUFFICES ASSUME ShapeInv, PendingOK, [Next]_vars,
                    svc' = "recovering", pc' \in RollbackSteps
             PROVE  Uncommitted(cur)'
  BY DEF PendingOK
<1> USE DEF ShapeInv, ShapeOK, KeptInv, ResidueInv, PlaceInv
<1>1. ASSUME NEW c \in Changesets, Recover(c)
      PROVE  Uncommitted(cur)'
  BY <1>1 DEF Recover, KeptOK, Uncommitted, RollbackSteps
<1>2. CASE pc \in RollbackSteps /\ svc = "recovering" /\ UNCHANGED <<journal, cur>>
  BY <1>2 DEF PendingOK, Uncommitted
<1>3. CASE \/ \E c \in Changesets : Create(c) \/ Approve(c) \/ Reject(c) \/ ReleaseOrphan(c)
           \/ RollbackTarget \/ RollbackKeep \/ RollbackUnlink \/ RollbackStage
           \/ (\E p \in Paths : Edit(p)) \/ UNCHANGED vars
  BY <1>2, <1>3 DEF Create, Approve, Reject, ReleaseOrphan, RollbackTarget, RollbackKeep,
     RollbackUnlink, RollbackStage, Edit, vars, control, Goto, Abandon, RollbackSteps,
     PlaceOK, Serving
<1>4. CASE Fault
  <2>1. svc = "recovering" => pc' = "idle"
    BY <1>4 DEF Fault, Abandon, Fail, RowOK, KeptOK, JournalOK, ApplySteps, FinalSteps,
       Forward
  <2> QED
    BY <1>4, <2>1 DEF Fault, Fail, Abandon, Goto, RollbackSteps
<1>5. CASE \/ \E c \in Changesets : Apply(c)
           \/ Prepare \/ WriteJournal \/ CreateStage \/ FillStage \/ AllStaged
           \/ LinkRollback \/ UnlinkBase \/ DeleteDone \/ LinkTarget \/ UnlinkStage
           \/ AllOperationsDone \/ WriteCommit \/ Finalize \/ CleanRollback \/ RetireJournal
           \/ RollbackJournal \/ Release \/ Serve \/ Crash \/ Start
  BY <1>5 DEF Apply, Prepare, WriteJournal, CreateStage, FillStage, AllStaged, LinkRollback,
     UnlinkBase, DeleteDone, LinkTarget, UnlinkStage, OperationDone, AllOperationsDone,
     WriteCommit, Finalize, CleanRollback, RetireJournal, RollbackJournal, Release, Serve,
     Crash, Start, Goto, Done, Abandon, ServiceGone, RollbackSteps, Serving
<1> QED
  BY <1>1, <1>3, <1>4, <1>5 DEF Next, ServiceStep

(***************************************************************************)
(* A step of recovery that refuses has one of these reasons.               *)
(***************************************************************************)
LEMMA RefusalHasReason ==
    ASSUME ShapeInv, SettledFacts, SettledOK, PendingOK, svc = "recovering",
           \/ Finalize /\ ~Committed(cur)
           \/ (RollbackTarget \/ RollbackKeep \/ RollbackStage) /\ pc' = "idle"
    PROVE  Explained
<1> USE DEF ShapeInv, ShapeOK, KeptInv, ResidueInv, PlaceInv
<1> SUFFICES ASSUME edited = {}, \A c \in Changesets, p \in Paths : stage[c][p] # "partial",
                    ~Explained
             PROVE  FALSE
  BY DEF Explained
<1>1. cur \in Changesets
  BY DEF PlaceOK, Finalize, RollbackTarget, RollbackKeep, RollbackStage
<1>2. ASSUME journal[cur] # NoJournal, NEW p \in Paths, p \in OpPaths(cur)
      PROVE  ~Overruled(cur, p)
  <2>1. PICK c \in Changesets : c = cur
    BY <1>1
  <2> QED
    BY <1>2, <2>1 DEF Overruled, Explained
<1>3. CASE Finalize /\ ~Committed(cur)
  <2>1. journal[cur].state = "files_committed" /\ journal[cur] # NoJournal
    BY <1>3 DEF Finalize, KeptOK, FinalSteps, NoJournal
  <2>2. PICK p \in OpPaths(cur) : target[p] # Proposed(cur, p)
    BY <1>3 DEF Committed
  <2>3. p \in Paths
    BY <1>1, RecordOrder DEF RecordOK
  <2>4. Settled[p] = Proposed(cur, p)
    BY <1>1, <1>2, <2>1, <2>3 DEF SettledOK
  <2>5. PICK c \in Changesets : Provisional(c, p)
    BY <2>2, <2>3, <2>4 DEF SettledFacts
  <2>6. /\ c # cur /\ p \in OpPaths(c) \cap OpPaths(cur) /\ journal[c] # NoJournal
        /\ Verdict[cur] = "applied"
    BY <1>1, <2>1, <2>5 DEF Provisional, Uncommitted, NoJournal, RowOK, Verdict
  <2> QED
    BY <1>1, <2>6 DEF Explained
<1>4. CASE (RollbackTarget \/ RollbackKeep) /\ pc' = "idle"
  <2>1. /\ pc \in {"rb_target", "rb_keep"} /\ Uncommitted(cur) /\ at >= 1 /\ at <= Last
        /\ status[cur] # "none"
    BY <1>1, <1>4 DEF RollbackTarget, RollbackKeep, PendingOK, RollbackSteps, PlaceOK, RowOK
  <2>2. ThisOp \in OpPaths(cur) /\ ThisOp \in Paths
    BY <1>1, <2>1, ThisOpFacts
  <2>3. PICK c \in Changesets, p \in Paths : c = cur /\ p = ThisOp
    BY <1>1, <2>2
  <2>4. ~Provisional(c, p)
    BY <1>4, <2>1, <2>3 DEF RollbackTarget, RollbackKeep, Goto, Abandon, Provisional, PhaseOK,
       RollbackSteps, BackwardOK
  <2>5. \A d \in Changesets : d # c => ~Uncommitted(d)
    BY <2>1, <2>3 DEF LeftoverOK, HasPartial
  <2>6. Settled[p] = target[p]
    BY <2>4, <2>5 DEF SettledFacts, Provisional
  <2>7. Settled[p] = base[c][p]
    BY <1>2, <2>1, <2>2, <2>3 DEF SettledOK, Uncommitted, NoJournal
  <2>8. KindOf[c][p] = "create" <=> base[c][p] = Absent
    BY <2>1, <2>2, <2>3 DEF BaseOK
  <2>9. target[p] = base[c][p]
    BY <2>6, <2>7
  <2>10. CASE RollbackTarget
    BY <1>4, <2>3, <2>8, <2>9, <2>10 DEF RollbackTarget, Goto, Kind
  <2>11. CASE RollbackKeep
    BY <1>4, <2>3, <2>8, <2>9, <2>11 DEF RollbackKeep, Goto, Kind
  <2> QED
    BY <1>4, <2>10, <2>11
<1>5. CASE RollbackStage /\ pc' = "idle"
  <2>1. ThisOp \in Paths
    BY <1>1, <1>5, ThisOpFacts DEF RollbackStage, PlaceOK
  <2> QED
    BY <1>1, <1>5, <2>1 DEF RollbackStage, Goto
<1> QED
  BY <1>3, <1>4, <1>5

(***************************************************************************)
(* The reasons stay as long as the service does not come up.               *)
(***************************************************************************)
LEMMA NextRefusal ==
    ASSUME ShapeInv, SettledFacts, SettledOK, PendingOK, AppliedStays, RefusalIsExplained,
           [Next]_vars
    PROVE  RefusalIsExplained'
<1> USE DEF ShapeInv, ShapeOK, KeptInv, ResidueInv, PlaceInv
<1> SUFFICES ASSUME svc' = "refused" PROVE Explained'
  BY DEF RefusalIsExplained, Explained
<1>1. ASSUME UNCHANGED <<stage, journal>>, edited \subseteq edited', Explained
      PROVE  Explained'
  <2>1. CASE edited # {}
    BY <1>1, <2>1 DEF Explained
  <2>2. CASE \E c \in Changesets, p \in Paths : stage[c][p] = "partial"
    BY <1>1, <2>2 DEF Explained
  <2>3. CASE \E c, d \in Changesets : /\ c # d /\ OpPaths(c) \cap OpPaths(d) # {}
                                      /\ journal[c] # NoJournal /\ Verdict[d] = "applied"
    BY <1>1, <2>3 DEF Explained, AppliedStays
  <2> QED
    BY <1>1, <2>1, <2>2, <2>3 DEF Explained
<1>2. CASE svc = "refused"
  <2>1. pc = "idle" /\ Explained
    BY <1>2 DEF PlaceOK, RefusalIsExplained, Explained
  <2>2. \/ \E c \in Changesets : Create(c)
        \/ \E p \in Paths : Edit(p)
        \/ UNCHANGED vars
    BY <1>2, <2>1 DEF Next, ServiceStep, Approve, Reject, Apply, Serving, Prepare,
       WriteJournal, CreateStage, FillStage, AllStaged, LinkRollback, UnlinkBase, DeleteDone,
       LinkTarget, UnlinkStage, AllOperationsDone, WriteCommit, Finalize, CleanRollback,
       RetireJournal, RollbackTarget, RollbackKeep, RollbackUnlink, RollbackStage,
       RollbackJournal, Release, Recover, ReleaseOrphan, Serve, Fault, Crash, Start,
       ApplySteps, FinalSteps, RollbackSteps
  <2>3. UNCHANGED <<stage, journal>> /\ edited \subseteq edited'
    BY <2>2 DEF Create, Edit, vars, files, world
  <2> QED
    BY <1>1, <2>1, <2>3
<1>3. CASE svc # "refused"
  <2>1. /\ svc = "recovering"
        /\ \/ Finalize /\ ~Committed(cur)
           \/ (RollbackTarget \/ RollbackKeep \/ RollbackStage) /\ pc' = "idle"
    BY <1>3 DEF Next, ServiceStep, Create, Approve, Reject, Apply, Serving, Prepare,
       WriteJournal, CreateStage, FillStage, AllStaged, LinkRollback, UnlinkBase, DeleteDone,
       OperationDone, LinkTarget, UnlinkStage, AllOperationsDone, WriteCommit, Finalize,
       CleanRollback, RetireJournal, RollbackTarget, RollbackKeep, RollbackUnlink,
       RollbackStage, RollbackJournal, Release, Recover, ReleaseOrphan, Serve, Fault, Fail,
       Crash, Start, Edit, Goto, Done, Abandon, control, vars
  <2>2. Explained
    BY <2>1, RefusalHasReason
  <2>3. UNCHANGED <<stage, journal>> /\ edited \subseteq edited'
    BY <1>3, <2>1 DEF Finalize, RollbackTarget, RollbackKeep, RollbackStage, world, files,
       Goto
  <2> QED
    BY <1>1, <2>2, <2>3
<1> QED
  BY <1>2, <1>3

(***************************************************************************)
(* When recovery refuses to start the service, somebody edited the         *)
(* sources, a stage was cut off while it was written, or a changeset was   *)
(* applied over one whose journal was still pending.                       *)
(***************************************************************************)
THEOREM RefusalExplained == ASSUME SingleFault PROVE Spec => []RefusalIsExplained
<1>1. ShapeInv /\ [Next]_vars => ShapeInv'
  BY NextShape
<1>2. /\ ShapeInv /\ ShapeInv' /\ SettledFacts /\ SettledFacts' /\ AppliedStays
      /\ SettledOK /\ [Next]_vars
      => SettledOK'
  BY NextSettledOK
<1>3. /\ ShapeInv /\ SettledFacts /\ SettledOK /\ PendingOK /\ AppliedStays
      /\ RefusalIsExplained /\ [Next]_vars
      => RefusalIsExplained'
  BY NextRefusal
<1>4. Init => PendingOK /\ RefusalIsExplained
  BY DEF Init, PendingOK, RefusalIsExplained
<1> QED
  BY <1>1, <1>2, <1>3, <1>4, InitShape, SettledIs, NextApplied, InitSettledOK, NextPending,
     PTL DEF Spec

=============================================================================
