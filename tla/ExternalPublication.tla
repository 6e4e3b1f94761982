------------------------ MODULE ExternalPublication ------------------------
(***************************************************************************)
(* What an external artifact operation does to its destination: the        *)
(* effects of execute_external_operation and rollback_external_operation   *)
(* (worldforge/studio/external_jobs.py) on one destination path and on the *)
(* journalled stage beside it.                                             *)
(*                                                                         *)
(* The module has no variables.  The filesystem around one target is a     *)
(* record, and each call is the set of the outcomes it may have, so the    *)
(* callers (the worker process, job recovery and forced cancellation) all  *)
(* share one reading of the code.  Bytes are abstracted to the source      *)
(* artifact they were derived from: every comparison in the code is a      *)
(* comparison of lineage or content hashes.                                *)
(***************************************************************************)

CONSTANTS
    Sources      \* source artifacts; content derived from s is written s

Absent  == "absent"
Foreign == "foreign"   \* bytes Studio did not write

ASSUME SourceNames == Absent \notin Sources /\ Foreign \notin Sources

Operations == {"game.materialize", "game.package", "game.package.extract"}

(***************************************************************************)
(* game.package publishes one archive file and keeps no journal; the two   *)
(* directory operations stage a tree beside the destination under a        *)
(* destination lock and a durable journal.                                 *)
(***************************************************************************)
Journaled(op) == op # "game.package"

Content == Sources \cup {Absent, Foreign}

(***************************************************************************)
(* A stage with its journal.  full: the tree is complete, so recovery can  *)
(* publish it (journal state "ready", or "copying" with every file         *)
(* written).  An "intent" journal that has no tree is discarded by the     *)
(* next call and is represented by NoStage.  A journal whose tree already  *)
(* became the destination keeps full = TRUE.                               *)
(***************************************************************************)
Stage   == [src : Sources \cup {Absent}, full : BOOLEAN]
NoStage == [src |-> Absent, full |-> FALSE]

Fs == [dest : Content, stage : Stage]

Outcome(d, g, ok) == [fs |-> [dest |-> d, stage |-> g], ok |-> ok]

(***************************************************************************)
(* _recover_locked on a visible destination that still has a journal: when *)
(* the destination is the journalled stage the journal is retired,         *)
(* otherwise the identities conflict and nothing is touched.               *)
(***************************************************************************)
StageBecame(f) == f.stage.full /\ f.dest = f.stage.src

(* Mutant: a visible destination is taken for the job's own work. *)
ExecuteTrustsVisible(op, s, f) == Outcome(f.dest, f.stage, TRUE)

(***************************************************************************)
(* execute_external_operation with a visible destination.  materialize     *)
(* compares the lineage and package the content hash; extract passes       *)
(* whatever recover_game_package_extraction returns and compares the       *)
(* content only when there was no journal to recover.                      *)
(***************************************************************************)
ExecuteVisible(op, s, f) ==
    IF ~Journaled(op) \/ f.stage = NoStage
    THEN Outcome(f.dest, f.stage, f.dest = s)
    ELSE IF ~StageBecame(f)
         THEN Outcome(f.dest, f.stage, FALSE)
         ELSE Outcome(f.dest, NoStage, op = "game.package.extract" \/ f.dest = s)

(***************************************************************************)
(* materialize_game / extract_game_package after taking the destination    *)
(* lock, when a journal survives an earlier attempt.  A complete stage is  *)
(* published first and compared afterwards; materialize refuses a journal  *)
(* of other content before it publishes.  An incomplete stage is retained  *)
(* for explicit recovery.                                                  *)
(***************************************************************************)
EnterWithJournal(op, s, f) ==
    IF f.dest # Absent
    THEN IF StageBecame(f) /\ (op = "game.package.extract" \/ f.stage.src = s)
         THEN Outcome(f.dest, NoStage, f.dest = s)
         ELSE Outcome(f.dest, f.stage, FALSE)
    ELSE IF f.stage.full /\ (op = "game.package.extract" \/ f.stage.src = s)
         THEN Outcome(f.stage.src, NoStage, f.stage.src = s)
         ELSE Outcome(f.dest, f.stage, FALSE)

(***************************************************************************)
(* A fresh attempt on an absent destination, run to its end by the caller. *)
(* It may be refused at any point, and what it had written by then stays:  *)
(* part of a stage, a complete stage, or the published destination.        *)
(***************************************************************************)
FreshOutcomes(op, s) ==
    {Outcome(s, NoStage, TRUE), Outcome(s, NoStage, FALSE), Outcome(Absent, NoStage, FALSE)}
      \cup IF Journaled(op)
           THEN {Outcome(Absent, [src |-> s, full |-> b], FALSE) : b \in BOOLEAN}
                  \cup {Outcome(s, [src |-> s, full |-> TRUE], FALSE)}
           ELSE {}

(***************************************************************************)
(* execute_external_operation as one call.  busy: another process holds    *)
(* the destination lock; drifted: the source no longer has its identity    *)
(* or hash.                                                                *)
(***************************************************************************)
ExecuteOutcomes(op, s, f, busy, drifted) ==
    IF drifted \/ (busy /\ Journaled(op))
    THEN {Outcome(f.dest, f.stage, FALSE)}
    ELSE IF f.dest # Absent
         THEN {ExecuteVisible(op, s, f)}
         ELSE IF Journaled(op) /\ f.stage # NoStage
              THEN {EnterWithJournal(op, s, f)}
              ELSE FreshOutcomes(op, s)

(* Mutant: the stage is not looked for. *)
RollbackIgnoresStage(op, f, busy) ==
    {Outcome(f.dest, f.stage, f.dest = Absent /\ ~(busy /\ Journaled(op)))}

(***************************************************************************)
(* rollback_external_operation.  A visible destination is never removed.   *)
(* The platform decides whether an owned stage can be deleted by identity  *)
(* (Windows) or must be retained as recovery evidence (Linux).             *)
(***************************************************************************)
RollbackOutcomes(op, f, busy) ==
    IF f.dest # Absent \/ (busy /\ Journaled(op))
    THEN {Outcome(f.dest, f.stage, FALSE)}
    ELSE IF ~Journaled(op) \/ f.stage = NoStage
         THEN {Outcome(f.dest, f.stage, TRUE)}
         ELSE {Outcome(f.dest, f.stage, FALSE), Outcome(f.dest, NoStage, TRUE)}

=============================================================================
