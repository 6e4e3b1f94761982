----------------------------- MODULE Changesets -----------------------------
(***************************************************************************)
(* How Studio applies a reviewed changeset to a world's source files       *)
(* (worldforge/studio/changesets.py): the changeset rows, the durable      *)
(* apply journal, the stage and rollback files beside the sources, the     *)
(* roll-back after an error, and the recovery of journals and of orphaned  *)
(* claims when the service starts again.                                   *)
(*                                                                         *)
(* One step is one change that a crash cannot split: a database commit, a  *)
(* journal replacement, the creation, linking or unlinking of one file.    *)
(* The service applies one changeset at a time under the world lifecycle   *)
(* lock.  Changesets are staged by the service or by the MCP process, and  *)
(* people edit the sources, whenever nobody holds that lock, also while    *)
(* the service is down.                                                    *)
(*                                                                         *)
(* A file's identity and bytes are one value: "orig" as it was at first,   *)
(* "foreign" as somebody edited it, or the changeset that staged it.       *)
(***************************************************************************)
EXTENDS Naturals, Sequences, FiniteSets

CONSTANTS
    Changesets,   \* changeset identifiers
    NoChangeset,  \* nothing is being applied
    Paths,        \* source paths of the world
    Order,        \* Order[c]: the paths of c's operations, in record order
    KindOf,       \* KindOf[c][p]: "create", "replace" or "delete"
    Present,      \* paths that exist at first
    EditPaths,    \* paths people may edit, each once
    Crashes,      \* may the service process be killed?
    FaultSteps,   \* steps an I/O error may hit
    MaxFaults,    \* bound on I/O errors
    MaxStarts     \* bound on service starts

OpPaths(c) == {Order[c][i] : i \in 1..Len(Order[c])}

Kinds == {"create", "replace", "delete"}

(* Where apply() or recover_journals() can be. *)
ApplySteps    == {"writing", "committing", "staging", "filling", "operating", "moving",
                  "vacant", "linked"}
RollbackSteps == {"rb_target", "rb_keep", "rb_unlink", "rb_stage", "rb_journal"}
FinalSteps    == {"finalizing", "cleaning"}
Steps         == ApplySteps \cup RollbackSteps \cup FinalSteps
                   \cup {"idle", "claimed", "release", "scan"}

ASSUME ChangesetsAssumption ==
    /\ NoChangeset \notin Changesets
    /\ Changesets \cap {"absent", "orig", "foreign"} = {}
    /\ Order \in [Changesets -> Seq(Paths)]
    /\ \A c \in Changesets :
        /\ Order[c] # <<>>
        /\ \A i, j \in 1..Len(Order[c]) : Order[c][i] = Order[c][j] => i = j
        /\ KindOf[c] \in [OpPaths(c) -> Kinds]
    /\ DOMAIN KindOf = Changesets
    /\ Present \subseteq Paths
    /\ EditPaths \subseteq Paths
    /\ Crashes \in BOOLEAN
    /\ FaultSteps \subseteq Steps
    /\ MaxFaults \in Nat
    /\ MaxStarts \in Nat

VARIABLES
    status,   \* changesets.status ("none": no row)
    base,     \* base[c][p]: what the record's base_sha256 was taken from
    journal,  \* the durable apply journal of each changeset
    target,   \* what is at each source path
    stage,    \* stage[c][p]: the stage file of an operation
    keep,     \* keep[c][p]: its rollback file
    svc,      \* serving, recovering, down, or refused (recovery raised)
    pc,       \* where apply() or recover_journals() is
    cur,      \* the changeset it works on
    mem,      \* its journal in memory
    at,       \* how many operations it has behind it, or still to undo
    edited,   \* paths edited so far
    reported, \* changesets whose apply() raised "files committed"
    faults,   \* I/O errors so far
    starts    \* service starts so far

files   == <<target, stage, keep>>
rows    == <<status, base>>
control == <<svc, pc, cur, mem, at>>
world   == <<edited, reported, faults, starts>>
vars    == <<rows, journal, files, control, world>>

-----------------------------------------------------------------------------
(* Types and vocabulary *)

Absent   == "absent"
Orig     == "orig"
Foreign  == "foreign"
Contents == Changesets \cup {Absent, Orig, Foreign}

Statuses == {"none", "staged", "approved", "applying", "rejected", "applied"}

(* staged: the paths whose stage_identity is known.  The operations'        *)
(* `applied' flags are never read and are left out.                         *)
JournalStates == {"none", "preparing", "prepared", "applying", "files_committed"}
Journal       == [state : JournalStates, staged : SUBSET Paths]
NoJournal     == [state |-> "none", staged |-> {}]

TypeOK ==
    /\ status \in [Changesets -> Statuses]
    /\ base \in [Changesets -> [Paths -> Contents]]
    /\ journal \in [Changesets -> Journal]
    /\ target \in [Paths -> Contents]
    /\ stage \in [Changesets -> [Paths -> {"absent", "partial", "full"}]]
    /\ keep \in [Changesets -> [Paths -> Contents]]
    /\ svc \in {"serving", "recovering", "down", "refused"}
    /\ pc \in Steps
    /\ cur \in Changesets \cup {NoChangeset}
    /\ mem \in Journal
    /\ at \in Nat
    /\ edited \subseteq Paths
    /\ reported \subseteq Changesets
    /\ faults \in Nat
    /\ starts \in Nat

(* Nobody holds the world lifecycle lock. *)
LockFree == pc \in {"idle", "scan"}

Last    == Len(Order[cur])
ThisOp  == Order[cur][at]          \* when undoing
NextOp  == Order[cur][at + 1]      \* when applying
Kind(p) == KindOf[cur][p]

(* What an operation leaves at its path. *)
Proposed(c, p) == IF KindOf[c][p] = "delete" THEN Absent ELSE c

Init ==
    /\ status = [c \in Changesets |-> "none"]
    /\ target = [p \in Paths |-> IF p \in Present THEN Orig ELSE Absent]
    /\ base = [c \in Changesets |-> target]
    /\ journal = [c \in Changesets |-> NoJournal]
    /\ stage = [c \in Changesets |-> [p \in Paths |-> "absent"]]
    /\ keep = [c \in Changesets |-> [p \in Paths |-> Absent]]
    /\ svc = "serving" /\ pc = "idle" /\ cur = NoChangeset
    /\ mem = NoJournal /\ at = 0
    /\ edited = {} /\ reported = {} /\ faults = 0 /\ starts = 1

-----------------------------------------------------------------------------
(* Requests *)

(* A create operation needs an absent path, the others a present one.       *)
BaseFits(c) ==
    \A p \in OpPaths(c) : KindOf[c][p] = "create" <=> target[p] = Absent

(* ChangesetManager.create, by the service or by the MCP process, which     *)
(* opens a secondary store of its own.                                      *)
Create(c) ==
    /\ LockFree
    /\ status[c] = "none"
    /\ BaseFits(c)
    /\ status' = [status EXCEPT ![c] = "staged"]
    /\ base' = [base EXCEPT ![c] = target]
    /\ UNCHANGED <<journal, files, control, world>>

Serving == svc = "serving" /\ pc = "idle"

(* approve() and reject(): _set_status *)
Approve(c) ==
    /\ Serving
    /\ status[c] = "staged"
    /\ status' = [status EXCEPT ![c] = "approved"]
    /\ UNCHANGED <<base, journal, files, control, world>>

Reject(c) ==
    /\ Serving
    /\ status[c] \in {"staged", "approved"}
    /\ status' = [status EXCEPT ![c] = "rejected"]
    /\ UNCHANGED <<base, journal, files, control, world>>

(* apply() up to _claim_apply *)
Apply(c) ==
    /\ Serving
    /\ status[c] = "approved"
    /\ journal[c] = NoJournal
    /\ status' = [status EXCEPT ![c] = "applying"]
    /\ pc' = "claimed"
    /\ cur' = c
    /\ UNCHANGED <<base, journal, files, svc, mem, at, world>>

-----------------------------------------------------------------------------
(* apply(), forward *)

Goto(s) == pc' = s /\ UNCHANGED <<svc, cur>>

(* The call is over: apply() has returned or raised, or recovery turns to   *)
(* the next journal.                                                        *)
Done ==
    /\ pc' = IF svc = "recovering" THEN "scan" ELSE "idle"
    /\ cur' = NoChangeset /\ mem' = NoJournal /\ at' = 0
    /\ UNCHANGED svc

(* It raises and leaves the journal for recovery; in recover_journals the   *)
(* service does not come up.                                                *)
Abandon(s) ==
    /\ pc' = "idle"
    /\ cur' = NoChangeset /\ mem' = NoJournal /\ at' = 0
    /\ svc' = IF svc = "recovering" THEN s ELSE svc

(* Mutant: the reviewed base is not compared. *)
PrepareWithoutBase ==
    /\ pc = "claimed"
    /\ Goto("writing") /\ mem' = [state |-> "preparing", staged |-> {}]
    /\ UNCHANGED <<rows, journal, files, at, world>>

(* The lifecycle lock and _prepare_journal, which compares every base.  The *)
(* lock may be held elsewhere; a failure here finds no journal and gives    *)
(* the claim back.                                                          *)
Prepare ==
    /\ pc = "claimed"
    /\ \/ /\ \A p \in OpPaths(cur) : target[p] = base[cur][p]
          /\ Goto("writing") /\ mem' = [state |-> "preparing", staged |-> {}]
       \/ Goto("release") /\ UNCHANGED mem
    /\ UNCHANGED <<rows, journal, files, at, world>>

(* _write_journal, and what apply() does after it. *)
WriteJournal ==
    /\ pc = "writing"
    /\ journal' = [journal EXCEPT ![cur] = mem]
    /\ Goto(IF mem.state = "preparing" THEN "staging" ELSE "operating")
    /\ UNCHANGED <<rows, files, mem, at, world>>

ToStage == {p \in OpPaths(cur) \ mem.staged : Kind(p) # "delete"}

(* _prepare_stages: the file is created, then filled and synced, then its   *)
(* identity goes to the journal.                                            *)
CreateStage ==
    /\ pc = "staging" /\ ToStage # {}
    /\ \E i \in 1..Last :
        /\ Order[cur][i] \in ToStage
        /\ \A k \in 1..(i - 1) : Order[cur][k] \notin ToStage
        /\ stage' = [stage EXCEPT ![cur][Order[cur][i]] = "partial"]
    /\ Goto("filling")
    /\ UNCHANGED <<rows, journal, target, keep, mem, at, world>>

FillStage ==
    /\ pc = "filling"
    /\ \E p \in OpPaths(cur) :
        /\ stage[cur][p] = "partial"
        /\ stage' = [stage EXCEPT ![cur][p] = "full"]
        /\ mem' = [mem EXCEPT !.staged = @ \cup {p}]
    /\ Goto("writing")
    /\ UNCHANGED <<rows, journal, target, keep, at, world>>

AllStaged ==
    /\ pc = "staging" /\ ToStage = {}
    /\ mem' = [mem EXCEPT !.state = "prepared"]
    /\ Goto("writing")
    /\ UNCHANGED <<rows, journal, files, at, world>>

(* Mutant: the base gets no rollback name. *)
LinkRollbackForgotten ==
    /\ pc = "operating" /\ at < Last
    /\ Kind(NextOp) # "create"
    /\ Goto("moving")
    /\ UNCHANGED <<rows, journal, files, mem, at, world>>

(* _apply_operation, _move_noreplace: the base gets its rollback name ...   *)
LinkRollback ==
    /\ pc = "operating" /\ at < Last
    /\ Kind(NextOp) # "create"
    /\ keep' = [keep EXCEPT ![cur][NextOp] = target[NextOp]]
    /\ Goto("moving")
    /\ UNCHANGED <<rows, journal, target, stage, mem, at, world>>

(* ... and loses its own. *)
UnlinkBase ==
    /\ pc = "moving"
    /\ target' = [target EXCEPT ![NextOp] = Absent]
    /\ Goto("vacant")
    /\ UNCHANGED <<rows, journal, stage, keep, mem, at, world>>

(* The operation is complete: operation["applied"], state "applying".       *)
OperationDone ==
    /\ at' = at + 1
    /\ mem' = [mem EXCEPT !.state = "applying"]
    /\ Goto("writing")

DeleteDone ==
    /\ pc = "vacant" /\ Kind(NextOp) = "delete"
    /\ OperationDone
    /\ UNCHANGED <<rows, journal, files, world>>

(* _publish_stage: link without replacing ... *)
LinkTarget ==
    /\ \/ pc = "operating" /\ at < Last /\ Kind(NextOp) = "create"
       \/ pc = "vacant" /\ Kind(NextOp) = "replace"
    /\ target[NextOp] = Absent
    /\ target' = [target EXCEPT ![NextOp] = cur]
    /\ Goto("linked")
    /\ UNCHANGED <<rows, journal, stage, keep, mem, at, world>>

(* ... then drop the stage name. *)
UnlinkStage ==
    /\ pc = "linked"
    /\ stage' = [stage EXCEPT ![cur][NextOp] = "absent"]
    /\ OperationDone
    /\ UNCHANGED <<rows, journal, target, keep, world>>

AllOperationsDone ==
    /\ pc = "operating" /\ at = Last
    /\ mem' = [mem EXCEPT !.state = "files_committed"]
    /\ Goto("committing")
    /\ UNCHANGED <<rows, journal, files, at, world>>

(* The journal write that decides. *)
WriteCommit ==
    /\ pc = "committing"
    /\ journal' = [journal EXCEPT ![cur] = mem]
    /\ Goto("finalizing")
    /\ UNCHANGED <<rows, files, mem, at, world>>

-----------------------------------------------------------------------------
(* _finalize_committed *)

(* _validate_committed *)
Committed(c) == \A p \in OpPaths(c) : target[p] = Proposed(c, p)

(* Mutant: the journal's state is recorded. *)
FinalizeAsJournal ==
    /\ pc = "finalizing"
    /\ status' = [status EXCEPT ![cur] = mem.state]
    /\ Goto("cleaning") /\ at' = 0 /\ UNCHANGED mem
    /\ UNCHANGED <<base, journal, files, world>>

(* The row becomes "applied" (again), or validation raises.                 *)
Finalize ==
    /\ pc = "finalizing"
    /\ IF Committed(cur)
       THEN /\ status' = [status EXCEPT ![cur] = "applied"]
            /\ Goto("cleaning") /\ at' = 0 /\ UNCHANGED mem
       ELSE Abandon("refused") /\ UNCHANGED status
    /\ UNCHANGED <<base, journal, files, world>>

(* Mutant: the rollback files stay. *)
CleanNothing ==
    /\ pc = "cleaning" /\ at < Last
    /\ at' = at + 1
    /\ UNCHANGED <<rows, journal, files, svc, pc, cur, mem, world>>

CleanRollback ==
    /\ pc = "cleaning" /\ at < Last
    /\ keep' = [keep EXCEPT ![cur][NextOp] = Absent]
    /\ at' = at + 1
    /\ UNCHANGED <<rows, journal, target, stage, svc, pc, cur, mem, world>>

(* _remove_journal *)
RetireJournal ==
    /\ pc = "cleaning" /\ at = Last
    /\ journal' = [journal EXCEPT ![cur] = NoJournal]
    /\ Done
    /\ UNCHANGED <<rows, files, world>>

-----------------------------------------------------------------------------
(* _rollback_journal: operations in reverse *)

(* Mutant: whatever is at the target is unlinked. *)
RollbackTargetForced ==
    /\ pc = "rb_target"
    /\ target' = IF target[ThisOp] = base[cur][ThisOp]
                 THEN target ELSE [target EXCEPT ![ThisOp] = Absent]
    /\ Goto("rb_keep") /\ UNCHANGED <<mem, at>>
    /\ UNCHANGED <<rows, journal, stage, keep, world>>

(* The published stage is unlinked, the untouched base stays, and anything  *)
(* else is refused.                                                         *)
RollbackTarget ==
    /\ pc = "rb_target"
    /\ LET p == ThisOp IN
       IF target[p] = cur /\ p \in mem.staged
       THEN /\ target' = [target EXCEPT ![p] = Absent]
            /\ Goto("rb_keep") /\ UNCHANGED <<mem, at>>
       ELSE /\ UNCHANGED target
            /\ IF \/ target[p] = Absent
                  \/ Kind(p) # "create" /\ target[p] = base[cur][p]
               THEN Goto("rb_keep") /\ UNCHANGED <<mem, at>>
               ELSE Abandon("refused")
    /\ UNCHANGED <<rows, journal, stage, keep, world>>

(* The rollback name is dropped when the base is back under its own name,   *)
(* otherwise the base is linked there first; no base at all is an error.    *)
RollbackKeep ==
    /\ pc = "rb_keep"
    /\ LET p == ThisOp
           kept == keep[cur][p]
       IN \/ /\ Kind(p) = "create" \/ (kept = Absent /\ target[p] # Absent)
             /\ Goto("rb_stage") /\ UNCHANGED <<mem, at, target, keep>>
          \/ /\ Kind(p) # "create" /\ kept = Absent /\ target[p] = Absent
             /\ Abandon("refused") /\ UNCHANGED <<target, keep>>
          \/ /\ kept # Absent /\ target[p] = kept
             /\ keep' = [keep EXCEPT ![cur][p] = Absent]
             /\ Goto("rb_stage") /\ UNCHANGED <<mem, at, target>>
          \/ /\ kept # Absent /\ target[p] = Absent
             /\ target' = [target EXCEPT ![p] = kept]
             /\ Goto("rb_unlink") /\ UNCHANGED <<mem, at, keep>>
    /\ UNCHANGED <<rows, journal, stage, world>>

RollbackUnlink ==
    /\ pc = "rb_unlink"
    /\ keep' = [keep EXCEPT ![cur][ThisOp] = Absent]
    /\ Goto("rb_stage")
    /\ UNCHANGED <<rows, journal, target, stage, mem, at, world>>

(* Mutant: the loop does not advance. *)
RollbackStageAgain ==
    /\ pc = "rb_stage"
    /\ stage' = [stage EXCEPT ![cur][ThisOp] = "absent"]
    /\ Goto("rb_target")
    /\ UNCHANGED <<rows, journal, target, keep, mem, at, world>>

(* A complete stage is removed; an incomplete one does not have the         *)
(* proposed hash and is refused.                                            *)
RollbackStage ==
    /\ pc = "rb_stage"
    /\ IF stage[cur][ThisOp] = "partial"
       THEN Abandon("refused") /\ UNCHANGED stage
       ELSE /\ stage' = [stage EXCEPT ![cur][ThisOp] = "absent"]
            /\ at' = at - 1
            /\ Goto(IF at = 1 THEN "rb_journal" ELSE "rb_target")
            /\ UNCHANGED mem
    /\ UNCHANGED <<rows, journal, target, keep, world>>

RollbackJournal ==
    /\ pc = "rb_journal"
    /\ journal' = [journal EXCEPT ![cur] = NoJournal]
    /\ Goto("release")
    /\ UNCHANGED <<rows, files, mem, at, world>>

(* _restore_apply_claim *)
Release ==
    /\ pc = "release"
    /\ status' = [status EXCEPT ![cur] = "approved"]
    /\ Done
    /\ UNCHANGED <<base, journal, files, world>>

-----------------------------------------------------------------------------
(* Errors, crash and recovery *)

(* apply()'s exception handler goes by the state in memory. *)
Fail ==
    IF mem.state = "files_committed"
    THEN Abandon("down") /\ reported' = reported \cup {cur}
    ELSE Goto("rb_target") /\ at' = Last /\ UNCHANGED <<mem, reported>>

(* An operating system or database error.  A failed journal write may have  *)
(* replaced the file or not; a failed clean-up is left to recovery, and in  *)
(* recover_journals the error ends the service.                             *)
Fault ==
    /\ faults < MaxFaults /\ pc \in FaultSteps
    /\ faults' = faults + 1
    /\ \/ /\ pc \in ApplySteps \/ (pc \in FinalSteps /\ svc = "serving")
          /\ Fail
       \/ /\ pc \in RollbackSteps \cup {"release", "scan"} \/ (pc \in FinalSteps /\ svc # "serving")
          /\ Abandon("down") /\ UNCHANGED reported
    /\ \/ UNCHANGED journal
       \/ pc \in {"writing", "committing"} /\ journal' = [journal EXCEPT ![cur] = mem]
    /\ UNCHANGED <<rows, files, edited, starts>>

ServiceGone == pc' = "idle" /\ cur' = NoChangeset /\ mem' = NoJournal /\ at' = 0

Crash ==
    /\ Crashes /\ svc \in {"serving", "recovering"}
    /\ svc' = "down"
    /\ ServiceGone
    /\ UNCHANGED <<rows, journal, files, world>>

(* StudioService.__init__: ChangesetManager(store) runs recover_journals.   *)
Start ==
    /\ svc \in {"down", "refused"} /\ starts < MaxStarts
    /\ starts' = starts + 1
    /\ svc' = "recovering" /\ pc' = "scan"
    /\ UNCHANGED <<rows, journal, files, cur, mem, at, edited, reported, faults>>

(* Mutant: recovery completes what apply had begun. *)
RecoverForward(c) ==
    /\ pc = "scan" /\ journal[c] # NoJournal
    /\ cur' = c /\ mem' = journal[c]
    /\ pc' = "finalizing" /\ at' = 0
    /\ UNCHANGED <<rows, journal, files, svc, world>>

(* recover_journals, one journal: the committed are completed, the others   *)
(* rolled back.                                                             *)
Recover(c) ==
    /\ pc = "scan" /\ journal[c] # NoJournal
    /\ status[c] \in {"applying", "applied"}
    /\ status[c] = "applied" => journal[c].state = "files_committed"
    /\ cur' = c /\ mem' = journal[c]
    /\ IF journal[c].state = "files_committed"
       THEN pc' = "finalizing" /\ at' = 0
       ELSE pc' = "rb_target" /\ at' = Len(Order[c])
    /\ UNCHANGED <<rows, journal, files, svc, world>>

(* _recover_orphaned_apply_claims, after the last journal, one row each.    *)
ReleaseOrphan(c) ==
    /\ pc = "scan"
    /\ \A d \in Changesets : journal[d] = NoJournal
    /\ status[c] = "applying"
    /\ status' = [status EXCEPT ![c] = "approved"]
    /\ UNCHANGED <<base, journal, files, control, world>>

Serve ==
    /\ pc = "scan"
    /\ \A d \in Changesets : journal[d] = NoJournal /\ status[d] # "applying"
    /\ svc' = "serving" /\ pc' = "idle"
    /\ UNCHANGED <<rows, journal, files, cur, mem, at, world>>

(* Somebody edits, creates or deletes a source file outside Studio.         *)
Edit(p) ==
    /\ LockFree
    /\ p \in EditPaths \ edited
    /\ edited' = edited \cup {p}
    /\ \E x \in {Foreign, Absent} \ {target[p]} : target' = [target EXCEPT ![p] = x]
    /\ UNCHANGED <<rows, journal, stage, keep, control, reported, faults, starts>>

ServiceStep ==
    \/ Prepare \/ WriteJournal \/ CreateStage \/ FillStage \/ AllStaged
    \/ LinkRollback \/ UnlinkBase \/ DeleteDone \/ LinkTarget \/ UnlinkStage
    \/ AllOperationsDone \/ WriteCommit \/ Finalize \/ CleanRollback \/ RetireJournal
    \/ RollbackTarget \/ RollbackKeep \/ RollbackUnlink \/ RollbackStage
    \/ RollbackJournal \/ Release
    \/ \E c \in Changesets : Recover(c) \/ ReleaseOrphan(c)
    \/ Serve

Next ==
    \/ \E c \in Changesets : Create(c) \/ Approve(c) \/ Reject(c) \/ Apply(c)
    \/ ServiceStep
    \/ Fault \/ Crash \/ Start
    \/ \E p \in Paths : Edit(p)

Spec == Init /\ [][Next]_vars

(* The service thread runs what it has begun; nobody has to restart it. *)
FairSpec == Spec /\ WF_vars(ServiceStep)

-----------------------------------------------------------------------------
(* Refinement of the promise *)

Uncommitted(c) == journal[c].state \notin {"none", "files_committed"}

(* A path holds c's bytes, or nothing at all, only for the time being.      *)
Provisional(c, p) ==
    /\ Uncommitted(c) /\ p \in OpPaths(c)
    /\ target[p] = c \/ (target[p] = Absent /\ keep[c][p] # Absent)

(* What a path holds once every pending journal is settled. *)
Settled ==
    [p \in Paths |->
        IF \E c \in Changesets : Provisional(c, p)
        THEN base[CHOOSE c \in Changesets : Provisional(c, p)][p]
        ELSE target[p]]

Verdict ==
    [c \in Changesets |->
        IF status[c] # "applying" THEN status[c]
        ELSE IF journal[c].state = "files_committed" THEN "applied" ELSE "approved"]

Atomic == INSTANCE AtomicChangesets WITH
              world <- Settled,
              verdict <- Verdict,
              Proposal <- [c \in Changesets |-> [p \in OpPaths(c) |-> Proposed(c, p)]]

-----------------------------------------------------------------------------
(* Properties *)

(***************************************************************************)
(* apply() is all or nothing, crashes, errors and outside edits included:  *)
(* the files and rows, with pending journals taken as the recovery will    *)
(* settle them, behave as AtomicChangesets.                                *)
(***************************************************************************)
AtomicApply == Atomic!Spec

(***************************************************************************)
(* Until a journal says files_committed, the base of every operation that  *)
(* has one is still under its own name or under a rollback name, unless    *)
(* somebody edited that path or another changeset was committed to it.     *)
(***************************************************************************)
BaseIsReachable ==
    \A c \in Changesets : Uncommitted(c) =>
        \A p \in OpPaths(c) \ edited :
            \/ base[c][p] = target[p]
            \/ \E d \in Changesets : base[c][p] = keep[d][p]
            \/ \E d \in Changesets \ {c} : p \in OpPaths(d) /\ Verdict[d] = "applied"

(***************************************************************************)
(* A changeset without a journal has left no temporary file in the world.  *)
(***************************************************************************)
NoResidue ==
    \A c \in Changesets : journal[c] = NoJournal =>
        \A p \in Paths : stage[c][p] = "absent" /\ keep[c][p] = Absent

(***************************************************************************)
(* Recovery refuses to start the service only for a reason: somebody       *)
(* edited the sources, a stage was cut off while it was written, or a      *)
(* changeset was applied over one whose journal was still pending.         *)
(***************************************************************************)
RefusalIsExplained ==
    svc = "refused" =>
        \/ edited # {}
        \/ \E c \in Changesets, p \in Paths : stage[c][p] = "partial"
        \/ \E c, d \in Changesets : /\ c # d /\ OpPaths(c) \cap OpPaths(d) # {}
                                    /\ journal[c] # NoJournal /\ Verdict[d] = "applied"

(***************************************************************************)
(* No step of the service loses bytes that are not the changeset's own: a  *)
(* file leaves its path only with a rollback name to its name, and a       *)
(* rollback name goes only when the file is back or the commit is durable. *)
(***************************************************************************)
OriginalsAreKept ==
    [][/\ \A p \in Paths \ (edited' \ edited) :
            target[p] # Absent /\ target'[p] # target[p] =>
                \/ \E c \in Changesets : keep'[c][p] = target[p]
                \/ \E c \in Changesets : target[p] = c /\ Uncommitted(c)
       /\ \A c \in Changesets, p \in Paths :
            keep[c][p] # Absent /\ keep'[c][p] = Absent =>
                journal[c].state = "files_committed" \/ target[p] = keep[c][p]]_vars

(***************************************************************************)
(* apply() and recover_journals() always come to an end.                   *)
(***************************************************************************)
ServiceReturns == pc # "idle" ~> pc = "idle"

(***************************************************************************)
(* "Changeset files committed and durable recovery is required": what      *)
(* apply() reports as committed, recovery does not take back (see README). *)
(***************************************************************************)
ReportedCommitIsKept ==
    \A c \in reported : status[c] \in {"applying", "applied"}

=============================================================================
