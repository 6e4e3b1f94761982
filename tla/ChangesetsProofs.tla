-------------------------- MODULE ChangesetsProofs --------------------------
(***************************************************************************)
(* Proofs about Changesets for any changesets, paths and bounds.           *)
(***************************************************************************)
EXTENDS Changesets, TLAPS

USE DEF Absent, Orig, Foreign

-----------------------------------------------------------------------------
(* Types: where the service stands in the record it works on                *)

(***************************************************************************)
(* A record has at least one operation, each on a source path and of one   *)
(* of the three kinds.                                                     *)
(***************************************************************************)
LEMMA RecordFacts ==
    ASSUME NEW c \in Changesets
    PROVE  /\ Len(Order[c]) \in Nat \ {0}
           /\ OpPaths(c) \subseteq Paths
           /\ \A i \in 1..Len(Order[c]) : Order[c][i] \in OpPaths(c)
           /\ \A p \in OpPaths(c) : KindOf[c][p] \in Kinds
<1>1. Order[c] \in Seq(Paths) /\ Order[c] # <<>> /\ KindOf[c] \in [OpPaths(c) -> Kinds]
  BY ChangesetsAssumption
<1>2. Len(Order[c]) \in Nat \ {0}
  BY <1>1
<1>3. OpPaths(c) \subseteq Paths
  BY <1>1 DEF OpPaths
<1>4. \A i \in 1..Len(Order[c]) : Order[c][i] \in OpPaths(c)
  BY DEF OpPaths
<1>5. \A p \in OpPaths(c) : KindOf[c][p] \in Kinds
  BY <1>1
<1> QED
  BY <1>2, <1>3, <1>4, <1>5

(***************************************************************************)
(* One stage file changes: the table of stage files keeps its type, and    *)
(* every other entry is as before.                                         *)
(***************************************************************************)
LEMMA OneStage ==
    ASSUME TypeOK, NEW c \in Changesets, NEW p \in Paths,
           NEW v \in {"absent", "partial", "full"}
    PROVE  /\ [stage EXCEPT ![c][p] = v]
                 \in [Changesets -> [Paths -> {"absent", "partial", "full"}]]
           /\ \A d \in Changesets, q \in Paths :
                 [stage EXCEPT ![c][p] = v][d][q] = IF d = c /\ q = p THEN v ELSE stage[d][q]
BY DEF TypeOK

(***************************************************************************)
(* The same for one rollback file.                                         *)
(***************************************************************************)
LEMMA OneKeep ==
    ASSUME TypeOK, NEW c \in Changesets, NEW p \in Paths, NEW v \in Contents
    PROVE  /\ [keep EXCEPT ![c][p] = v] \in [Changesets -> [Paths -> Contents]]
           /\ \A d \in Changesets, q \in Paths :
                 [keep EXCEPT ![c][p] = v][d][q] = IF d = c /\ q = p THEN v ELSE keep[d][q]
BY DEF TypeOK

(* The service works on a changeset, at one of its operations, exactly when *)
(* apply() or recover_journals() has taken one up.                          *)
PlaceOK ==
    /\ pc \in {"idle", "scan"} => cur = NoChangeset /\ at = 0
    /\ pc \notin {"idle", "scan"} => cur \in Changesets /\ at <= Last
    /\ pc \in {"claimed", "staging", "filling"} => at = 0
    /\ pc = "writing" /\ mem.state = "preparing" => at = 0
    /\ pc \in {"moving", "vacant", "linked"} => at < Last
    /\ pc \in {"rb_target", "rb_keep", "rb_unlink", "rb_stage"} => at >= 1
    /\ pc = "rb_journal" => at = 0
    /\ svc \in {"down", "refused"} => pc = "idle"

PlaceInv == TypeOK /\ PlaceOK

(***************************************************************************)
(* The initial state is well placed.                                       *)
(***************************************************************************)
LEMMA InitPlace == Init => PlaceInv
<1> SUFFICES ASSUME Init PROVE PlaceInv
  OBVIOUS
<1> USE ChangesetsAssumption
<1>1. TypeOK
  BY DEF Init, TypeOK, Statuses, Contents, Journal, JournalStates, NoJournal, Steps
<1>2. PlaceOK
  BY DEF Init, PlaceOK
<1> QED
  BY <1>1, <1>2 DEF PlaceInv

(***************************************************************************)
(* A request changes rows, and Apply takes up the changeset.               *)
(***************************************************************************)
LEMMA RequestsPlace ==
    ASSUME PlaceInv, NEW c \in Changesets,
           \/ Create(c) \/ Approve(c) \/ Reject(c) \/ Apply(c) \/ Recover(c)
           \/ ReleaseOrphan(c)
    PROVE  PlaceInv'
<1> USE DEF PlaceInv, Statuses, Contents, Journal, JournalStates, NoJournal, Steps,
          ApplySteps, RollbackSteps, FinalSteps
<1>1. CASE Create(c)
  <2>1. TypeOK'
    BY RecordFacts, <1>1 DEF TypeOK, PlaceOK, Create, control, files, world
  <2>2. PlaceOK'
    BY RecordFacts, <1>1 DEF TypeOK, PlaceOK, Last,
         Create, control, files, world
  <2> QED
    BY <2>1, <2>2
<1>2. CASE Approve(c)
  <2>1. TypeOK'
    BY RecordFacts, <1>2 DEF TypeOK, PlaceOK, Approve, control, files, world
  <2>2. PlaceOK'
    BY RecordFacts, <1>2 DEF TypeOK, PlaceOK, Last,
         Approve, control, files, world
  <2> QED
    BY <2>1, <2>2
<1>3. CASE Reject(c)
  <2>1. TypeOK'
    BY RecordFacts, <1>3 DEF TypeOK, PlaceOK, Reject, control, files, world
  <2>2. PlaceOK'
    BY RecordFacts, <1>3 DEF TypeOK, PlaceOK, Last,
         Reject, control, files, world
  <2> QED
    BY <2>1, <2>2
<1>4. CASE Apply(c)
  <2>1. TypeOK'
    BY RecordFacts, <1>4 DEF TypeOK, PlaceOK, Apply, Serving, files, world
  <2>2. PlaceOK'
    BY RecordFacts, <1>4 DEF TypeOK, PlaceOK, Last,
         Apply, Serving, files, world
  <2> QED
    BY <2>1, <2>2
<1>5. CASE Recover(c)
  <2>1. TypeOK'
    BY RecordFacts, <1>5 DEF TypeOK, PlaceOK, Recover, rows, files, world
  <2>2. PlaceOK'
    BY RecordFacts, <1>5 DEF TypeOK, PlaceOK, Last,
         Recover, rows, files, world
  <2> QED
    BY <2>1, <2>2
<1>6. CASE ReleaseOrphan(c)
  <2>1. TypeOK'
    BY RecordFacts, <1>6 DEF TypeOK, PlaceOK, ReleaseOrphan, files, control, world
  <2>2. PlaceOK'
    BY RecordFacts, <1>6 DEF TypeOK, PlaceOK, Last,
         ReleaseOrphan, files, control, world
  <2> QED
    BY <2>1, <2>2
<1> QED
  BY <1>1, <1>2, <1>3, <1>4, <1>5, <1>6

(***************************************************************************)
(* apply() forward keeps the service well placed.                          *)
(***************************************************************************)
LEMMA ApplyPlace ==
    ASSUME PlaceInv,
           \/ Prepare \/ WriteJournal \/ CreateStage \/ FillStage
           \/ AllStaged \/ LinkRollback \/ UnlinkBase \/ DeleteDone
           \/ LinkTarget \/ UnlinkStage \/ AllOperationsDone \/ WriteCommit
    PROVE  PlaceInv'
<1> USE DEF PlaceInv, Statuses, Contents, Journal, JournalStates, NoJournal, Steps,
          ApplySteps, RollbackSteps, FinalSteps
<1>0. cur \in Changesets => /\ Last \in Nat \ {0}
                            /\ OpPaths(cur) \subseteq Paths
                            /\ \A i \in 1..Last : Order[cur][i] \in OpPaths(cur)
  BY RecordFacts DEF Last
<1>1. CASE Prepare
  <2>1. TypeOK'
    BY <1>0, <1>1 DEF TypeOK, PlaceOK, Prepare, Goto, rows, files, world
  <2>2. PlaceOK'
    BY <1>0, <1>1 DEF TypeOK, PlaceOK, Last,
         Prepare, Goto, rows, files, world
  <2> QED
    BY <2>1, <2>2
<1>2. CASE WriteJournal
  <2>1. TypeOK'
    BY <1>0, <1>2 DEF TypeOK, PlaceOK, WriteJournal, Goto, rows, files, world
  <2>2. PlaceOK'
    BY <1>0, <1>2 DEF TypeOK, PlaceOK, Last,
         WriteJournal, Goto, rows, files, world
  <2> QED
    BY <2>1, <2>2
<1>3. CASE CreateStage
  <2>1. TypeOK'
    BY <1>0, <1>3 DEF TypeOK, PlaceOK, CreateStage, Goto, ToStage, rows, world
  <2>2. PlaceOK'
    BY <1>0, <1>3 DEF TypeOK, PlaceOK, Last,
         CreateStage, Goto, ToStage, rows, world
  <2> QED
    BY <2>1, <2>2
<1>4. CASE FillStage
  <2>1. mem' \in Journal
    BY <1>0, <1>4 DEF TypeOK, PlaceOK, FillStage, Goto, rows, world
  <2>2. TypeOK'
    BY <1>0, <1>4, <2>1 DEF TypeOK, PlaceOK, FillStage, Goto, rows, world
  <2>3. PlaceOK'
    BY <1>0, <1>4 DEF TypeOK, PlaceOK, Last,
         FillStage, Goto, rows, world
  <2> QED
    BY <2>2, <2>3
<1>5. CASE AllStaged
  <2>1. TypeOK'
    BY <1>0, <1>5 DEF TypeOK, PlaceOK, AllStaged, Goto, rows, files, world
  <2>2. PlaceOK'
    BY <1>0, <1>5 DEF TypeOK, PlaceOK, Last,
         AllStaged, Goto, rows, files, world
  <2> QED
    BY <2>1, <2>2
<1>6. CASE LinkRollback
  <2>1. TypeOK'
    BY <1>0, <1>6 DEF TypeOK, PlaceOK, LinkRollback, NextOp, Goto, rows, world
  <2>2. PlaceOK'
    BY <1>0, <1>6 DEF TypeOK, PlaceOK, Last,
         LinkRollback, NextOp, Goto, rows, world
  <2> QED
    BY <2>1, <2>2
<1>7. CASE UnlinkBase
  <2>1. TypeOK'
    BY <1>0, <1>7 DEF TypeOK, PlaceOK, UnlinkBase, NextOp, Goto, rows, world
  <2>2. PlaceOK'
    BY <1>0, <1>7 DEF TypeOK, PlaceOK, Last,
         UnlinkBase, NextOp, Goto, rows, world
  <2> QED
    BY <2>1, <2>2
<1>8. CASE DeleteDone
  <2>1. mem' \in Journal
    BY <1>0, <1>8 DEF TypeOK, PlaceOK, DeleteDone, OperationDone, NextOp, Goto,
         rows, files, world
  <2>2. TypeOK'
    BY <1>0, <1>8, <2>1 DEF TypeOK, PlaceOK, DeleteDone, OperationDone, NextOp, Goto,
         rows, files, world
  <2>3. PlaceOK'
    BY <1>0, <1>8 DEF TypeOK, PlaceOK, Last,
         DeleteDone, OperationDone, NextOp, Goto,
         rows, files, world
  <2> QED
    BY <2>2, <2>3
<1>9. CASE LinkTarget
  <2>1. TypeOK'
    BY <1>0, <1>9 DEF TypeOK, PlaceOK, LinkTarget, NextOp, Goto, rows, world
  <2>2. PlaceOK'
    BY <1>0, <1>9 DEF TypeOK, PlaceOK, Last,
         LinkTarget, NextOp, Goto, rows, world
  <2> QED
    BY <2>1, <2>2
<1>10. CASE UnlinkStage
  <2>1. mem' \in Journal
    BY <1>0, <1>10 DEF TypeOK, PlaceOK, UnlinkStage, OperationDone, NextOp, Goto, rows,
         world
  <2>b. stage' \in [Changesets -> [Paths -> {"absent", "partial", "full"}]]
    BY <1>0, <1>10 DEF TypeOK, PlaceOK, UnlinkStage, NextOp
  <2>2. TypeOK'
    <3>1. at' \in Nat /\ pc' \in Steps /\ UNCHANGED <<svc, cur>>
      BY <1>10 DEF TypeOK, UnlinkStage, OperationDone, Goto
    <3> QED
      BY <1>10, <2>1, <2>b, <3>1 DEF TypeOK, UnlinkStage, rows, world
  <2>3. PlaceOK'
    BY <1>0, <1>10 DEF TypeOK, PlaceOK, Last,
         UnlinkStage, OperationDone, NextOp, Goto, rows, world
  <2> QED
    BY <2>2, <2>3
<1>11. CASE AllOperationsDone
  <2>1. TypeOK'
    BY <1>0, <1>11 DEF TypeOK, PlaceOK, AllOperationsDone, Goto, rows, files, world
  <2>2. PlaceOK'
    BY <1>0, <1>11 DEF TypeOK, PlaceOK, Last,
         AllOperationsDone, Goto, rows, files, world
  <2> QED
    BY <2>1, <2>2
<1>12. CASE WriteCommit
  <2>1. TypeOK'
    BY <1>0, <1>12 DEF TypeOK, PlaceOK, WriteCommit, Goto, rows, files, world
  <2>2. PlaceOK'
    BY <1>0, <1>12 DEF TypeOK, PlaceOK, Last,
         WriteCommit, Goto, rows, files, world
  <2> QED
    BY <2>1, <2>2
<1> QED
  BY <1>1, <1>2, <1>3, <1>4, <1>5, <1>6, <1>7, <1>8, <1>9, <1>10, <1>11, <1>12

(***************************************************************************)
(* So do the completion and the roll-back of a changeset.                  *)
(***************************************************************************)
LEMMA SettlePlace ==
    ASSUME PlaceInv,
           \/ Finalize \/ CleanRollback \/ RetireJournal \/ RollbackTarget
           \/ RollbackKeep \/ RollbackUnlink \/ RollbackStage
           \/ RollbackJournal \/ Release
    PROVE  PlaceInv'
<1> USE DEF PlaceInv, Statuses, Contents, Journal, JournalStates, NoJournal, Steps,
          ApplySteps, RollbackSteps, FinalSteps
<1>0. cur \in Changesets => /\ Last \in Nat \ {0}
                            /\ OpPaths(cur) \subseteq Paths
                            /\ \A i \in 1..Last : Order[cur][i] \in OpPaths(cur)
  BY RecordFacts DEF Last
<1>1. CASE Finalize
  <2>1. TypeOK'
    BY <1>0, <1>1 DEF TypeOK, PlaceOK, Finalize, Abandon, Goto, files, world
  <2>2. PlaceOK'
    BY <1>0, <1>1 DEF TypeOK, PlaceOK, Last,
         Finalize, Abandon, Goto, files, world
  <2> QED
    BY <2>1, <2>2
<1>2. CASE CleanRollback
  <2>1. TypeOK'
    BY <1>0, <1>2 DEF TypeOK, PlaceOK, CleanRollback, NextOp, rows, world
  <2>2. PlaceOK'
    BY <1>0, <1>2 DEF TypeOK, PlaceOK, Last,
         CleanRollback, NextOp, rows, world
  <2> QED
    BY <2>1, <2>2
<1>3. CASE RetireJournal
  <2>1. TypeOK'
    BY <1>0, <1>3 DEF TypeOK, PlaceOK, RetireJournal, Done, rows, files, world
  <2>2. PlaceOK'
    BY <1>0, <1>3 DEF TypeOK, PlaceOK, Last,
         RetireJournal, Done, rows, files, world
  <2> QED
    BY <2>1, <2>2
<1>4. CASE RollbackTarget
  <2>a. /\ svc' \in {"serving", "recovering", "down", "refused"} /\ pc' \in Steps
        /\ cur' \in Changesets \cup {NoChangeset} /\ mem' \in Journal /\ at' \in Nat
    BY <1>0, <1>4 DEF TypeOK, PlaceOK, RollbackTarget, Abandon, Goto
  <2>b. target' \in [Paths -> Contents]
    BY <1>0, <1>4 DEF TypeOK, PlaceOK, RollbackTarget, ThisOp
  <2>1. TypeOK'
    BY <1>4, <2>a, <2>b DEF TypeOK, RollbackTarget, rows, world
  <2>2. PlaceOK'
    BY <1>0, <1>4 DEF TypeOK, PlaceOK, Last,
         RollbackTarget, ThisOp, Abandon, Goto, rows, world
  <2> QED
    BY <2>1, <2>2
<1>5. CASE RollbackKeep
  <2>a. /\ svc' \in {"serving", "recovering", "down", "refused"} /\ pc' \in Steps
        /\ cur' \in Changesets \cup {NoChangeset} /\ mem' \in Journal /\ at' \in Nat
    BY <1>0, <1>5 DEF TypeOK, PlaceOK, RollbackKeep, Abandon, Goto
  <2>b. target' \in [Paths -> Contents] /\ keep' \in [Changesets -> [Paths -> Contents]]
    <3>1. cur \in Changesets /\ ThisOp \in Paths
      BY <1>0, <1>5 DEF TypeOK, PlaceOK, RollbackKeep, ThisOp
    <3>2. UNCHANGED target \/ \E x \in Contents : target' = [target EXCEPT ![ThisOp] = x]
      BY <1>5, <3>1 DEF TypeOK, RollbackKeep
    <3>3. UNCHANGED keep \/ keep' = [keep EXCEPT ![cur][ThisOp] = Absent]
      BY <1>5 DEF RollbackKeep
    <3>4. Absent \in Contents
      OBVIOUS
    <3>5. target' \in [Paths -> Contents]
      BY <3>1, <3>2 DEF TypeOK
    <3>6. keep' \in [Changesets -> [Paths -> Contents]]
      <4>1. [keep EXCEPT ![cur][ThisOp] = Absent] \in [Changesets -> [Paths -> Contents]]
        BY <3>1, <3>4, OneKeep
      <4> QED
        BY <3>3, <4>1 DEF TypeOK
    <3> QED
      BY <3>5, <3>6
  <2>1. TypeOK'
    BY <1>5, <2>a, <2>b DEF TypeOK, RollbackKeep, rows, world
  <2>2. PlaceOK'
    BY <1>0, <1>5 DEF TypeOK, PlaceOK, Last,
         RollbackKeep, ThisOp, Abandon, Goto, rows, world
  <2> QED
    BY <2>1, <2>2
<1>6. CASE RollbackUnlink
  <2>1. TypeOK'
    BY <1>0, <1>6 DEF TypeOK, PlaceOK, RollbackUnlink, ThisOp, Goto, rows, world
  <2>2. PlaceOK'
    BY <1>0, <1>6 DEF TypeOK, PlaceOK, Last,
         RollbackUnlink, ThisOp, Goto, rows, world
  <2> QED
    BY <2>1, <2>2
<1>7. CASE RollbackStage
  <2>a. /\ svc' \in {"serving", "recovering", "down", "refused"} /\ pc' \in Steps
        /\ cur' \in Changesets \cup {NoChangeset} /\ mem' \in Journal /\ at' \in Nat
    BY <1>0, <1>7 DEF TypeOK, PlaceOK, RollbackStage, Abandon, Goto
  <2>b. stage' \in [Changesets -> [Paths -> {"absent", "partial", "full"}]]
    <3>1. cur \in Changesets /\ ThisOp \in Paths
      BY <1>0, <1>7 DEF TypeOK, PlaceOK, RollbackStage, ThisOp
    <3> QED
      BY <1>7, <3>1, OneStage DEF TypeOK, RollbackStage
  <2>1. TypeOK'
    BY <1>7, <2>a, <2>b DEF TypeOK, RollbackStage, rows, world
  <2>2. PlaceOK'
    BY <1>0, <1>7 DEF TypeOK, PlaceOK, Last,
         RollbackStage, ThisOp, Abandon, Goto, rows, world
  <2> QED
    BY <2>1, <2>2
<1>8. CASE RollbackJournal
  <2>1. TypeOK'
    BY <1>0, <1>8 DEF TypeOK, PlaceOK, RollbackJournal, Goto, rows, files, world
  <2>2. PlaceOK'
    BY <1>0, <1>8 DEF TypeOK, PlaceOK, Last,
         RollbackJournal, Goto, rows, files, world
  <2> QED
    BY <2>1, <2>2
<1>9. CASE Release
  <2>1. TypeOK'
    BY <1>0, <1>9 DEF TypeOK, PlaceOK, Release, Done, files, world
  <2>2. PlaceOK'
    BY <1>0, <1>9 DEF TypeOK, PlaceOK, Last,
         Release, Done, files, world
  <2> QED
    BY <2>1, <2>2
<1> QED
  BY <1>1, <1>2, <1>3, <1>4, <1>5, <1>6, <1>7, <1>8, <1>9

(***************************************************************************)
(* So do errors, crashes, starts and edits.                                *)
(***************************************************************************)
LEMMA OutsidePlace ==
    ASSUME PlaceInv,
           \/ Serve \/ Fault \/ Crash \/ Start \/ (\E p \in Paths : Edit(p))
           \/ UNCHANGED vars
    PROVE  PlaceInv'
<1> USE DEF PlaceInv, Statuses, Contents, Journal, JournalStates, NoJournal, Steps,
          ApplySteps, RollbackSteps, FinalSteps
<1>0. cur \in Changesets => /\ Last \in Nat \ {0}
                            /\ OpPaths(cur) \subseteq Paths
                            /\ \A i \in 1..Last : Order[cur][i] \in OpPaths(cur)
  BY RecordFacts DEF Last
<1>1. CASE Serve
  <2>1. TypeOK'
    BY <1>0, <1>1 DEF TypeOK, PlaceOK, Serve, rows, files, world
  <2>2. PlaceOK'
    BY <1>0, <1>1 DEF TypeOK, PlaceOK, Last,
         Serve, rows, files, world
  <2> QED
    BY <2>1, <2>2
<1>2. CASE Fault
  <2>a. cur \in Changesets \/ pc \in {"idle", "scan"}
    BY DEF PlaceOK
  <2>b. /\ svc' \in {"serving", "recovering", "down", "refused"} /\ pc' \in Steps
        /\ cur' \in Changesets \cup {NoChangeset} /\ mem' \in Journal /\ at' \in Nat
        /\ reported' \subseteq Changesets
    BY <1>0, <1>2, <2>a DEF TypeOK, Fault, Fail, Abandon, Goto
  <2>c. journal' \in [Changesets -> Journal]
    BY <1>2 DEF TypeOK, Fault
  <2>1. TypeOK'
    BY <1>2, <2>b, <2>c DEF TypeOK, Fault, rows, files
  <2>2. PlaceOK'
    BY <1>0, <1>2 DEF TypeOK, PlaceOK, Last,
         Fault, Fail, Abandon, Goto, rows, files
  <2> QED
    BY <2>1, <2>2
<1>3. CASE Crash
  <2>1. TypeOK'
    BY <1>0, <1>3 DEF TypeOK, PlaceOK, Crash, ServiceGone, rows, files, world
  <2>2. PlaceOK'
    BY <1>0, <1>3 DEF TypeOK, PlaceOK, Last,
         Crash, ServiceGone, rows, files, world
  <2> QED
    BY <2>1, <2>2
<1>4. CASE Start
  <2>1. TypeOK'
    BY <1>0, <1>4 DEF TypeOK, PlaceOK, Start, rows, files
  <2>2. PlaceOK'
    BY <1>0, <1>4 DEF TypeOK, PlaceOK, Last,
         Start, rows, files
  <2> QED
    BY <2>1, <2>2
<1>5. CASE \E p \in Paths : Edit(p)
  <2>1. TypeOK'
    BY <1>0, <1>5 DEF TypeOK, PlaceOK, Edit, rows, control
  <2>2. PlaceOK'
    BY <1>0, <1>5 DEF TypeOK, PlaceOK, Last,
         Edit, rows, control
  <2> QED
    BY <2>1, <2>2
<1>6. CASE UNCHANGED vars
  <2>1. TypeOK'
    BY <1>0, <1>6 DEF TypeOK, PlaceOK, vars, rows, files, control, world
  <2>2. PlaceOK'
    BY <1>0, <1>6 DEF TypeOK, PlaceOK, Last,
         vars, rows, files, control, world
  <2> QED
    BY <2>1, <2>2
<1> QED
  BY <1>1, <1>2, <1>3, <1>4, <1>5, <1>6

(***************************************************************************)
(* Hence every step keeps the service well placed ...                      *)
(***************************************************************************)
LEMMA NextPlace == PlaceInv /\ [Next]_vars => PlaceInv'
BY RequestsPlace, ApplyPlace, SettlePlace, OutsidePlace DEF Next, ServiceStep

(***************************************************************************)
(* ... and the state of Changesets always has the types TypeOK names:      *)
(* the rows, journals, files and the service's place in apply().           *)
(***************************************************************************)
THEOREM TypeCorrect == Spec => []TypeOK
<1>1. PlaceInv => TypeOK
  BY DEF PlaceInv
<1> QED
  BY <1>1, InitPlace, NextPlace, PTL DEF Spec

-----------------------------------------------------------------------------
(* No residue: what a journal says of the temporary files                   *)

(* The steps with a durable journal behind them. *)
Forward == {"operating", "moving", "vacant", "linked", "committing"}

(* The journal in memory and the durable one while apply() goes forward.    *)
JournalOK ==
    /\ pc = "claimed" => journal[cur] = NoJournal
    /\ pc \in {"writing", "staging", "filling"} \cup Forward =>
        journal[cur].state # "files_committed"
    /\ pc \in {"writing", "staging", "filling"} \cup (Forward \ {"committing"}) =>
        mem.state \in {"preparing", "prepared", "applying"}
    /\ pc \in {"committing"} \cup FinalSteps => mem.state = "files_committed"
    /\ pc \in {"staging", "filling"} \cup Forward \cup FinalSteps => journal[cur] # NoJournal

(* Which temporary files there can be at all.                               *)
FilesOK ==
    \A c \in Changesets, p \in Paths :
        /\ p \notin OpPaths(c) => stage[c][p] = "absent" /\ keep[c][p] = Absent
        /\ p \in OpPaths(c) /\ KindOf[c][p] = "create" => keep[c][p] = Absent
        /\ p \in OpPaths(c) /\ KindOf[c][p] = "delete" => stage[c][p] = "absent"
        /\ journal[c].state = "files_committed" => stage[c][p] = "absent"

(* Which of them are gone by now: the stages of the operations done, and    *)
(* all files of the operations cleaned up or undone.                        *)
CleanedOK ==
    /\ pc \in {"writing"} \cup Forward =>
        \A i \in 1..at : stage[cur][Order[cur][i]] = "absent"
    /\ pc \in {"committing"} \cup FinalSteps =>
        \A p \in Paths : stage[cur][p] = "absent"
    /\ pc = "cleaning" => \A i \in 1..at : keep[cur][Order[cur][i]] = Absent
    /\ pc \in RollbackSteps =>
        \A i \in (at + 1)..Last : /\ stage[cur][Order[cur][i]] = "absent"
                                  /\ keep[cur][Order[cur][i]] = Absent
    /\ pc = "rb_stage" => keep[cur][ThisOp] = Absent

ResidueInv == PlaceInv /\ JournalOK /\ FilesOK /\ CleanedOK /\ NoResidue

(***************************************************************************)
(* No changeset has a journal or a temporary file at first.                *)
(***************************************************************************)
LEMMA InitResidue == Init => ResidueInv
<1>1. Init => FilesOK /\ NoResidue
  BY DEF Init, FilesOK, NoResidue, NoJournal
<1>2. Init => JournalOK /\ CleanedOK
  BY DEF Init, JournalOK, CleanedOK, Forward, FinalSteps, RollbackSteps
<1> QED
  BY <1>1, <1>2, InitPlace DEF ResidueInv

(***************************************************************************)
(* Steps that leave the journals, the temporary files and the service's    *)
(* place alone.                                                            *)
(***************************************************************************)
LEMMA QuietResidue ==
    ASSUME ResidueInv, PlaceInv', UNCHANGED <<journal, stage, keep, pc, cur, mem, at>>
    PROVE  ResidueInv'
BY DEF ResidueInv, JournalOK, FilesOK, CleanedOK, NoResidue, Last, ThisOp

(***************************************************************************)
(* Steps that take up a changeset.                                         *)
(***************************************************************************)
LEMMA TakeUpResidue ==
    ASSUME ResidueInv, PlaceInv', NEW c \in Changesets,
           Apply(c) \/ Recover(c)
    PROVE  ResidueInv'
<1> USE DEF ResidueInv, PlaceInv, Forward, FinalSteps, RollbackSteps, ApplySteps, Last
<1>0. cur \in Changesets => /\ Last \in Nat \ {0}
                            /\ OpPaths(cur) \subseteq Paths
                            /\ \A i \in 1..Last : Order[cur][i] \in OpPaths(cur)
                            /\ \A p \in OpPaths(cur) : \E i \in 1..Last : p = Order[cur][i]
  BY RecordFacts DEF OpPaths
<1>1. CASE Apply(c)
  <2>1. FilesOK' /\ NoResidue'
    BY <1>1 DEF FilesOK, NoResidue, Apply, Serving, files, world
  <2>2. JournalOK'
    BY <1>0, <1>1 DEF TypeOK, PlaceOK, Journal, NoJournal, JournalOK, FilesOK,
         Apply, Serving, files, world
  <2>3. CleanedOK'
    BY <1>0, <1>1 DEF TypeOK, PlaceOK, JournalOK, FilesOK, CleanedOK, ThisOp, NextOp,
         Kind,
         Apply, Serving, files, world
  <2> QED
    BY <2>1, <2>2, <2>3
<1>2. CASE Recover(c)
  <2>1. FilesOK' /\ NoResidue'
    BY <1>2 DEF FilesOK, NoResidue, Recover, rows, files, world
  <2>2. JournalOK'
    BY RecordFacts, <1>2 DEF TypeOK, PlaceOK, Journal, NoJournal, JournalOK, FilesOK,
         Recover, rows, files, world
  <2>3. CleanedOK'
    <3>0. Len(Order[c]) \in Nat /\ UNCHANGED <<stage, keep>>
      BY RecordFacts, <1>2 DEF Recover, files
    <3>1. CASE pc' = "finalizing" /\ cur' = c /\ journal[c].state = "files_committed"
      BY <3>0, <3>1 DEF FilesOK, CleanedOK
    <3>2. CASE pc' = "rb_target" /\ cur' = c /\ at' = Len(Order[c])
      BY <3>0, <3>2 DEF CleanedOK
    <3> QED
      BY <1>2, <3>1, <3>2 DEF Recover
  <2> QED
    BY <2>1, <2>2, <2>3
<1> QED
  BY <1>1, <1>2

(***************************************************************************)
(* Other steps that move the service and leave the journals and the        *)
(* temporary files alone.                                                  *)
(***************************************************************************)
LEMMA MoveResidue ==
    ASSUME ResidueInv, PlaceInv',
           \/ Prepare \/ AllStaged \/ UnlinkBase \/ DeleteDone \/ LinkTarget
           \/ AllOperationsDone \/ Finalize \/ RollbackTarget \/ Release
           \/ Crash \/ Start \/ Serve
    PROVE  ResidueInv'
<1> USE DEF ResidueInv, PlaceInv, Forward, FinalSteps, RollbackSteps, ApplySteps, Last
<1>0. cur \in Changesets => /\ Last \in Nat \ {0}
                            /\ OpPaths(cur) \subseteq Paths
                            /\ \A i \in 1..Last : Order[cur][i] \in OpPaths(cur)
                            /\ \A p \in OpPaths(cur) : \E i \in 1..Last : p = Order[cur][i]
  BY RecordFacts DEF OpPaths
<1>1. CASE Prepare
  <2>1. FilesOK' /\ NoResidue'
    BY <1>1 DEF FilesOK, NoResidue, Prepare, Goto, rows, files, world
  <2>2. JournalOK'
    BY <1>0, <1>1 DEF TypeOK, PlaceOK, Journal, NoJournal, JournalOK, FilesOK,
         Prepare, Goto, rows, files, world
  <2>3. CleanedOK'
    BY <1>0, <1>1 DEF TypeOK, PlaceOK, JournalOK, FilesOK, CleanedOK, ThisOp, NextOp,
         Kind,
         Prepare, Goto, rows, files, world
  <2> QED
    BY <2>1, <2>2, <2>3
<1>2. CASE AllStaged
  <2>1. FilesOK' /\ NoResidue'
    BY <1>2 DEF FilesOK, NoResidue, AllStaged, Goto, rows, files, world
  <2>2. JournalOK'
    BY <1>0, <1>2 DEF TypeOK, PlaceOK, Journal, NoJournal, JournalOK, FilesOK,
         AllStaged, Goto, rows, files, world
  <2>3. CleanedOK'
    BY <1>0, <1>2 DEF TypeOK, PlaceOK, JournalOK, FilesOK, CleanedOK, ThisOp, NextOp,
         Kind,
         AllStaged, Goto, rows, files, world
  <2> QED
    BY <2>1, <2>2, <2>3
<1>3. CASE UnlinkBase
  <2>1. FilesOK' /\ NoResidue'
    BY <1>3 DEF FilesOK, NoResidue, UnlinkBase, Goto, rows, world
  <2>2. JournalOK'
    BY <1>0, <1>3 DEF TypeOK, PlaceOK, Journal, NoJournal, JournalOK, FilesOK,
         UnlinkBase, Goto, rows, world
  <2>3. CleanedOK'
    BY <1>0, <1>3 DEF TypeOK, PlaceOK, JournalOK, FilesOK, CleanedOK, ThisOp, NextOp,
         Kind,
         UnlinkBase, Goto, rows, world
  <2> QED
    BY <2>1, <2>2, <2>3
<1>4. CASE DeleteDone
  <2>1. FilesOK' /\ NoResidue'
    BY <1>4 DEF FilesOK, NoResidue, DeleteDone, OperationDone, Goto, rows, files, world
  <2>2. JournalOK'
    BY <1>0, <1>4 DEF TypeOK, PlaceOK, Journal, NoJournal, JournalOK, FilesOK,
         DeleteDone, OperationDone, Goto, rows, files, world
  <2>3. CleanedOK'
    BY <1>0, <1>4 DEF TypeOK, PlaceOK, JournalOK, FilesOK, CleanedOK, ThisOp, NextOp,
         Kind,
         DeleteDone, OperationDone, Goto, rows, files, world
  <2> QED
    BY <2>1, <2>2, <2>3
<1>5. CASE LinkTarget
  <2>1. FilesOK' /\ NoResidue'
    BY <1>5 DEF FilesOK, NoResidue, LinkTarget, Goto, rows, world
  <2>2. JournalOK'
    BY <1>0, <1>5 DEF TypeOK, PlaceOK, Journal, NoJournal, JournalOK, FilesOK,
         LinkTarget, Goto, rows, world
  <2>3. CleanedOK'
    BY <1>0, <1>5 DEF TypeOK, PlaceOK, JournalOK, FilesOK, CleanedOK, ThisOp, NextOp,
         Kind,
         LinkTarget, Goto, rows, world
  <2> QED
    BY <2>1, <2>2, <2>3
<1>6. CASE AllOperationsDone
  <2>1. FilesOK' /\ NoResidue'
    BY <1>6 DEF FilesOK, NoResidue, AllOperationsDone, Goto, rows, files, world
  <2>2. JournalOK'
    BY <1>0, <1>6 DEF TypeOK, PlaceOK, Journal, NoJournal, JournalOK, FilesOK,
         AllOperationsDone, Goto, rows, files, world
  <2>3. CleanedOK'
    <3>1. \A i \in 1..Last : stage[cur][Order[cur][i]] = "absent"
      BY <1>6 DEF CleanedOK, AllOperationsDone
    <3>2. cur \in Changesets
      BY <1>6 DEF PlaceOK, AllOperationsDone
    <3>3. \A p \in Paths : stage[cur][p] = "absent"
      BY <1>0, <3>1, <3>2 DEF FilesOK
    <3> QED
      BY <1>6, <3>1, <3>3 DEF CleanedOK, AllOperationsDone, Goto, files
  <2> QED
    BY <2>1, <2>2, <2>3
<1>7. CASE Finalize
  <2>1. FilesOK' /\ NoResidue'
    BY <1>7 DEF FilesOK, NoResidue, Finalize, Abandon, Goto, files, world
  <2>2. JournalOK'
    BY <1>0, <1>7 DEF TypeOK, PlaceOK, Journal, NoJournal, JournalOK, FilesOK,
         Finalize, Abandon, Goto, files, world
  <2>3. CleanedOK'
    <3>1. UNCHANGED <<stage, keep>> /\ \A p \in Paths : stage[cur][p] = "absent"
      BY <1>7 DEF CleanedOK, Finalize, files
    <3>2. CASE pc' = "cleaning" /\ cur' = cur /\ at' = 0
      BY <3>1, <3>2 DEF CleanedOK
    <3>3. CASE pc' = "idle"
      BY <3>3 DEF CleanedOK
    <3> QED
      BY <1>7, <3>2, <3>3 DEF Finalize, Abandon, Goto
  <2> QED
    BY <2>1, <2>2, <2>3
<1>8. CASE RollbackTarget
  <2>1. FilesOK' /\ NoResidue'
    BY <1>8 DEF FilesOK, NoResidue, RollbackTarget, Abandon, Goto, rows, world
  <2>2. JournalOK'
    BY <1>0, <1>8 DEF TypeOK, PlaceOK, Journal, NoJournal, JournalOK, FilesOK,
         RollbackTarget, Abandon, Goto, rows, world
  <2>3. CleanedOK'
    BY <1>0, <1>8 DEF TypeOK, PlaceOK, JournalOK, FilesOK, CleanedOK, ThisOp, NextOp,
         Kind,
         RollbackTarget, Abandon, Goto, rows, world
  <2> QED
    BY <2>1, <2>2, <2>3
<1>9. CASE Release
  <2>1. FilesOK' /\ NoResidue'
    BY <1>9 DEF FilesOK, NoResidue, Release, Done, files, world
  <2>2. JournalOK'
    BY <1>0, <1>9 DEF TypeOK, PlaceOK, Journal, NoJournal, JournalOK, FilesOK,
         Release, Done, files, world
  <2>3. CleanedOK'
    BY <1>0, <1>9 DEF TypeOK, PlaceOK, JournalOK, FilesOK, CleanedOK, ThisOp, NextOp,
         Kind,
         Release, Done, files, world
  <2> QED
    BY <2>1, <2>2, <2>3
<1>10. CASE Crash
  <2>1. FilesOK' /\ NoResidue'
    BY <1>10 DEF FilesOK, NoResidue, Crash, ServiceGone, rows, files, world
  <2>2. JournalOK'
    BY <1>0, <1>10 DEF TypeOK, PlaceOK, Journal, NoJournal, JournalOK, FilesOK,
         Crash, ServiceGone, rows, files, world
  <2>3. CleanedOK'
    BY <1>0, <1>10 DEF TypeOK, PlaceOK, JournalOK, FilesOK, CleanedOK, ThisOp, NextOp,
         Kind,
         Crash, ServiceGone, rows, files, world
  <2> QED
    BY <2>1, <2>2, <2>3
<1>11. CASE Start
  <2>1. FilesOK' /\ NoResidue'
    BY <1>11 DEF FilesOK, NoResidue, Start, rows, files
  <2>2. JournalOK'
    BY <1>0, <1>11 DEF TypeOK, PlaceOK, Journal, NoJournal, JournalOK, FilesOK,
         Start, rows, files
  <2>3. CleanedOK'
    BY <1>0, <1>11 DEF TypeOK, PlaceOK, JournalOK, FilesOK, CleanedOK, ThisOp, NextOp,
         Kind,
         Start, rows, files
  <2> QED
    BY <2>1, <2>2, <2>3
<1>12. CASE Serve
  <2>1. FilesOK' /\ NoResidue'
    BY <1>12 DEF FilesOK, NoResidue, Serve, rows, files, world
  <2>2. JournalOK'
    BY <1>0, <1>12 DEF TypeOK, PlaceOK, Journal, NoJournal, JournalOK, FilesOK,
         Serve, rows, files, world
  <2>3. CleanedOK'
    BY <1>0, <1>12 DEF TypeOK, PlaceOK, JournalOK, FilesOK, CleanedOK, ThisOp, NextOp,
         Kind,
         Serve, rows, files, world
  <2> QED
    BY <2>1, <2>2, <2>3
<1> QED
  BY <1>1, <1>2, <1>3, <1>4, <1>5, <1>6, <1>7, <1>8, <1>9, <1>10, <1>11, <1>12

(***************************************************************************)
(* Steps that write or remove the journal.                                 *)
(***************************************************************************)
LEMMA JournalResidue ==
    ASSUME ResidueInv, PlaceInv',
           \/ WriteJournal \/ WriteCommit \/ RetireJournal \/ RollbackJournal \/ Fault
    PROVE  ResidueInv'
<1> USE DEF ResidueInv, PlaceInv, Forward, FinalSteps, RollbackSteps, ApplySteps, Last
<1>0. cur \in Changesets => /\ Last \in Nat \ {0}
                            /\ OpPaths(cur) \subseteq Paths
                            /\ \A i \in 1..Last : Order[cur][i] \in OpPaths(cur)
                            /\ \A p \in OpPaths(cur) : \E i \in 1..Last : p = Order[cur][i]
  BY RecordFacts DEF OpPaths
<1>1. CASE WriteJournal
  <2>0. cur \in Changesets
    BY <1>1 DEF PlaceOK, WriteJournal
  <2>1. FilesOK'
    BY <1>0, <2>0, <1>1 DEF TypeOK, JournalOK, CleanedOK, FilesOK, NoJournal,
         WriteJournal, Goto, files, rows, world
  <2>2. NoResidue'
    <3>1. \A d \in Changesets \ {cur} : journal'[d] = journal[d]
      BY <1>1 DEF TypeOK, WriteJournal, Goto, files, rows, world
    <3>2. journal'[cur] = NoJournal =>
             \A p \in Paths : stage[cur][p] = "absent" /\ keep[cur][p] = Absent
    BY <1>0, <2>0, <1>1 DEF TypeOK, NoResidue, JournalOK, CleanedOK, FilesOK, NoJournal,
         WriteJournal, Goto, files, rows, world
    <3> QED
      BY <1>1, <3>1, <3>2 DEF NoResidue, WriteJournal, Goto, files, rows, world
  <2>3. JournalOK'
    BY <1>0, <2>0, <1>1 DEF TypeOK, PlaceOK, Journal, JournalOK, NoJournal,
         WriteJournal,
         Goto, files, rows, world
  <2>4. CleanedOK'
    BY <1>0, <2>0, <1>1 DEF TypeOK, PlaceOK, JournalOK, CleanedOK, WriteJournal, Goto,
         files, rows, world
  <2> QED
    BY <2>1, <2>2, <2>3, <2>4
<1>2. CASE WriteCommit
  <2>0. cur \in Changesets
    BY <1>2 DEF PlaceOK, WriteCommit
  <2>1. FilesOK'
    BY <1>0, <2>0, <1>2 DEF TypeOK, JournalOK, CleanedOK, FilesOK, NoJournal,
         WriteCommit, Goto, files, rows, world
  <2>2. NoResidue'
    <3>1. \A d \in Changesets \ {cur} : journal'[d] = journal[d]
      BY <1>2 DEF TypeOK, WriteCommit, Goto, files, rows, world
    <3>2. journal'[cur] = NoJournal =>
             \A p \in Paths : stage[cur][p] = "absent" /\ keep[cur][p] = Absent
    BY <1>0, <2>0, <1>2 DEF TypeOK, NoResidue, JournalOK, CleanedOK, FilesOK, NoJournal,
         WriteCommit, Goto, files, rows, world
    <3> QED
      BY <1>2, <3>1, <3>2 DEF NoResidue, WriteCommit, Goto, files, rows, world
  <2>3. JournalOK'
    BY <1>0, <2>0, <1>2 DEF TypeOK, PlaceOK, Journal, JournalOK, NoJournal, WriteCommit,
         Goto, files, rows, world
  <2>4. CleanedOK'
    BY <1>0, <2>0, <1>2 DEF TypeOK, PlaceOK, JournalOK, CleanedOK, WriteCommit, Goto,
         files, rows, world
  <2> QED
    BY <2>1, <2>2, <2>3, <2>4
<1>3. CASE RetireJournal
  <2>0. cur \in Changesets
    BY <1>3 DEF PlaceOK, RetireJournal
  <2>1. FilesOK'
    BY <1>0, <2>0, <1>3 DEF TypeOK, JournalOK, CleanedOK, FilesOK, NoJournal,
         RetireJournal, Done, files, rows, world
  <2>2. NoResidue'
    <3>1. \A d \in Changesets \ {cur} : journal'[d] = journal[d]
      BY <1>3 DEF TypeOK, RetireJournal, Done, files, rows, world
    <3>2. \A p \in Paths : stage[cur][p] = "absent" /\ keep[cur][p] = Absent
      <4>1. \A i \in 1..Last : /\ stage[cur][Order[cur][i]] = "absent"
                              /\ keep[cur][Order[cur][i]] = Absent
        BY <1>0, <2>0, <1>3 DEF PlaceOK, CleanedOK, RetireJournal
      <4> QED
        BY <1>0, <2>0, <4>1 DEF FilesOK
    <3> QED
      BY <1>3, <3>1, <3>2 DEF NoResidue, RetireJournal, Done, files, rows, world
  <2>3. JournalOK'
    BY <1>0, <2>0, <1>3 DEF TypeOK, PlaceOK, Journal, JournalOK, NoJournal,
         RetireJournal, Done, files, rows, world
  <2>4. CleanedOK'
    BY <1>0, <2>0, <1>3 DEF TypeOK, PlaceOK, JournalOK, CleanedOK, RetireJournal, Done,
         files, rows, world
  <2> QED
    BY <2>1, <2>2, <2>3, <2>4
<1>4. CASE RollbackJournal
  <2>0. cur \in Changesets
    BY <1>4 DEF PlaceOK, RollbackJournal
  <2>1. FilesOK'
    BY <1>0, <2>0, <1>4 DEF TypeOK, JournalOK, CleanedOK, FilesOK, NoJournal,
         RollbackJournal, Goto, files, rows, world
  <2>2. NoResidue'
    <3>1. \A d \in Changesets \ {cur} : journal'[d] = journal[d]
      BY <1>4 DEF TypeOK, RollbackJournal, Goto, files, rows, world
    <3>2. \A p \in Paths : stage[cur][p] = "absent" /\ keep[cur][p] = Absent
      <4>1. \A i \in 1..Last : /\ stage[cur][Order[cur][i]] = "absent"
                              /\ keep[cur][Order[cur][i]] = Absent
        BY <1>0, <2>0, <1>4 DEF PlaceOK, CleanedOK, RollbackJournal
      <4> QED
        BY <1>0, <2>0, <4>1 DEF FilesOK
    <3> QED
      BY <1>4, <3>1, <3>2 DEF NoResidue, RollbackJournal, Goto, files, rows, world
  <2>3. JournalOK'
    BY <1>0, <2>0, <1>4 DEF TypeOK, PlaceOK, Journal, JournalOK, NoJournal,
         RollbackJournal, Goto, files, rows, world
  <2>4. CleanedOK'
    BY <1>0, <2>0, <1>4 DEF TypeOK, PlaceOK, JournalOK, CleanedOK, RollbackJournal,
         Goto,
         files, rows, world
  <2> QED
    BY <2>1, <2>2, <2>3, <2>4
<1>5. CASE Fault
  <2>1. CASE UNCHANGED journal
    <3>1. FilesOK' /\ NoResidue'
      BY <1>5, <2>1 DEF FilesOK, NoResidue, Fault, files
    <3>2. JournalOK'
      BY <1>5 DEF JournalOK, Fault, Fail, Abandon, Goto
    <3>3. CleanedOK'
      <4>1. CASE pc' = "idle"
        BY <4>1 DEF CleanedOK
      <4>2. CASE /\ pc' = "rb_target" /\ UNCHANGED <<cur, stage, keep>> /\ at' = Last
                 /\ cur \in Changesets
        BY <1>0, <4>2 DEF CleanedOK
      <4> QED
        BY <1>5, <4>1, <4>2 DEF PlaceOK, Fault, Fail, Abandon, Goto, files
    <3> QED
      BY <3>1, <3>2, <3>3
  <2>2. CASE pc \in {"writing", "committing"} /\ journal' = [journal EXCEPT ![cur] = mem]
    <3>0. cur \in Changesets
      BY <2>2 DEF PlaceOK
    <3>1. /\ journal'[cur] = mem /\ mem.state # "none"
          /\ mem.state = "files_committed" => \A p \in Paths : stage[cur][p] = "absent"
          /\ \A d \in Changesets \ {cur} : journal'[d] = journal[d]
      BY <2>2, <3>0 DEF TypeOK, JournalOK, CleanedOK
    <3>2. FilesOK'
      BY <1>5, <3>0, <3>1 DEF FilesOK, Fault, files
    <3>3. NoResidue'
      BY <1>5, <3>0, <3>1 DEF NoResidue, NoJournal, Fault, files
    <3>4. JournalOK'
      BY <1>5 DEF JournalOK, Fault, Fail, Abandon, Goto
    <3>5. CleanedOK'
      <4>1. CASE pc' = "idle"
        BY <4>1 DEF CleanedOK
      <4>2. CASE /\ pc' = "rb_target" /\ UNCHANGED <<cur, stage, keep>> /\ at' = Last
        BY <1>0, <3>0, <4>2 DEF CleanedOK
      <4> QED
        BY <1>5, <2>2, <4>1, <4>2 DEF Fault, Fail, Abandon, Goto, files
    <3> QED
      BY <3>2, <3>3, <3>4, <3>5
  <2> QED
    BY <1>5, <2>1, <2>2 DEF Fault
<1> QED
  BY <1>1, <1>2, <1>3, <1>4, <1>5

(***************************************************************************)
(* Steps that create, fill, link or unlink one temporary file.             *)
(***************************************************************************)
LEMMA FilesResidue ==
    ASSUME ResidueInv, PlaceInv',
           \/ CreateStage \/ FillStage \/ LinkRollback \/ UnlinkStage \/ CleanRollback
           \/ RollbackKeep \/ RollbackUnlink \/ RollbackStage
    PROVE  ResidueInv'
<1> USE DEF ResidueInv, PlaceInv, Forward, FinalSteps, RollbackSteps, ApplySteps, Last
<1>0. cur \in Changesets => /\ Last \in Nat \ {0}
                            /\ OpPaths(cur) \subseteq Paths
                            /\ \A i \in 1..Last : Order[cur][i] \in OpPaths(cur)
                            /\ \A p \in OpPaths(cur) : \E i \in 1..Last : p = Order[cur][i]
  BY RecordFacts DEF OpPaths
<1>1. CASE LinkRollback
  <2>0. pc = "operating" /\ at < Last
    BY <1>1 DEF LinkRollback
  <2>1. cur \in Changesets /\ NextOp \in OpPaths(cur)
    BY <1>0, <2>0 DEF PlaceOK, TypeOK, NextOp
  <2>2. UNCHANGED journal /\ UNCHANGED stage
    BY <1>1 DEF LinkRollback, Goto, rows, world
  <2>3. \A d \in Changesets, q \in Paths :
             keep'[d][q] = IF d = cur /\ q = NextOp THEN target[NextOp] ELSE keep[d][q]
    BY <1>0, <2>1, <1>1, OneKeep DEF LinkRollback, Contents
  <2>4. FilesOK'
    BY <2>1, <2>2, <2>3, <1>1 DEF FilesOK, JournalOK, Kind, Kinds, Contents,
         LinkRollback
  <2>5. NoResidue'
    BY <2>1, <2>2, <2>3, <1>1 DEF NoResidue, JournalOK, LinkRollback
  <2>6. JournalOK'
    BY <1>1, <2>2 DEF JournalOK, Journal, TypeOK, LinkRollback, Goto, rows, world
  <2>7. CleanedOK'
    BY <1>0, <2>1, <2>2, <2>3, <1>1 DEF PlaceOK, TypeOK, FilesOK, CleanedOK, ThisOp,
         NextOp, LinkRollback, Goto, rows, world
  <2> QED
    BY <2>4, <2>5, <2>6, <2>7
<1>2. CASE UnlinkStage
  <2>0. pc = "linked"
    BY <1>2 DEF UnlinkStage
  <2>1. cur \in Changesets /\ NextOp \in OpPaths(cur)
    BY <1>0, <2>0 DEF PlaceOK, TypeOK, NextOp
  <2>2. UNCHANGED journal /\ UNCHANGED keep
    BY <1>2 DEF UnlinkStage, OperationDone, Goto, rows, world
  <2>3. \A d \in Changesets, q \in Paths :
             stage'[d][q] = IF d = cur /\ q = NextOp THEN "absent" ELSE stage[d][q]
    BY <1>0, <2>1, <1>2, OneStage DEF UnlinkStage, Contents
  <2>4. FilesOK'
    BY <2>1, <2>2, <2>3, <1>2 DEF FilesOK, JournalOK, Kind, Kinds, Contents, UnlinkStage
  <2>5. NoResidue'
    BY <2>1, <2>2, <2>3, <1>2 DEF NoResidue, JournalOK, UnlinkStage
  <2>6. JournalOK'
    BY <1>2, <2>2 DEF JournalOK, Journal, TypeOK, UnlinkStage, OperationDone, Goto,
         rows,
         world
  <2>7. CleanedOK'
    BY <1>0, <2>1, <2>2, <2>3, <1>2 DEF PlaceOK, TypeOK, FilesOK, CleanedOK, ThisOp,
         NextOp, UnlinkStage, OperationDone, Goto, rows, world
  <2> QED
    BY <2>4, <2>5, <2>6, <2>7
<1>3. CASE CleanRollback
  <2>0. pc = "cleaning" /\ at < Last
    BY <1>3 DEF CleanRollback
  <2>1. cur \in Changesets /\ NextOp \in OpPaths(cur)
    BY <1>0, <2>0 DEF PlaceOK, TypeOK, NextOp
  <2>2. UNCHANGED journal /\ UNCHANGED stage
    BY <1>3 DEF CleanRollback, rows, world
  <2>3. \A d \in Changesets, q \in Paths :
             keep'[d][q] = IF d = cur /\ q = NextOp THEN Absent ELSE keep[d][q]
    BY <1>0, <2>1, <1>3, OneKeep DEF CleanRollback, Contents
  <2>4. FilesOK'
    BY <2>1, <2>2, <2>3, <1>3 DEF FilesOK, JournalOK, Kind, Kinds, Contents,
         CleanRollback
  <2>5. NoResidue'
    BY <2>1, <2>2, <2>3, <1>3 DEF NoResidue, JournalOK, CleanRollback
  <2>6. JournalOK'
    BY <1>3, <2>2 DEF JournalOK, Journal, TypeOK, CleanRollback, rows, world
  <2>7. CleanedOK'
    BY <1>0, <2>1, <2>2, <2>3, <1>3 DEF PlaceOK, TypeOK, FilesOK, CleanedOK, ThisOp,
         NextOp, CleanRollback, rows, world
  <2> QED
    BY <2>4, <2>5, <2>6, <2>7
<1>4. CASE RollbackUnlink
  <2>0. pc = "rb_unlink" /\ at \in 1..Last
    BY <1>4 DEF RollbackUnlink, PlaceOK, TypeOK
  <2>1. cur \in Changesets /\ ThisOp \in OpPaths(cur)
    BY <1>0, <2>0 DEF PlaceOK, TypeOK, ThisOp
  <2>2. UNCHANGED journal /\ UNCHANGED stage
    BY <1>4 DEF RollbackUnlink, Goto, rows, world
  <2>3. \A d \in Changesets, q \in Paths :
             keep'[d][q] = IF d = cur /\ q = ThisOp THEN Absent ELSE keep[d][q]
    BY <1>0, <2>1, <1>4, OneKeep DEF RollbackUnlink, Contents
  <2>4. FilesOK'
    BY <2>1, <2>2, <2>3, <1>4 DEF FilesOK, JournalOK, Kind, Kinds, Contents,
         RollbackUnlink
  <2>5. NoResidue'
    BY <2>1, <2>2, <2>3, <1>4 DEF NoResidue, JournalOK, RollbackUnlink
  <2>6. JournalOK'
    BY <1>4, <2>2 DEF JournalOK, Journal, TypeOK, RollbackUnlink, Goto, rows, world
  <2>7. CleanedOK'
    BY <1>0, <2>1, <2>2, <2>3, <1>4 DEF PlaceOK, TypeOK, FilesOK, CleanedOK, ThisOp,
         NextOp, RollbackUnlink, Goto, rows, world
  <2> QED
    BY <2>4, <2>5, <2>6, <2>7
<1>5. CASE CreateStage \/ FillStage
  <2>0. PICK p \in OpPaths(cur), v \in {"partial", "full"} :
             stage' = [stage EXCEPT ![cur][p] = v] /\ Kind(p) # "delete"
    <3>1. CASE CreateStage
      BY <3>1 DEF CreateStage, ToStage
    <3>2. CASE FillStage
      BY <1>0, <3>2 DEF FillStage, FilesOK, PlaceOK, Kind
    <3> QED
      BY <1>5, <3>1, <3>2
  <2>1. /\ UNCHANGED <<journal, keep, cur, at>> /\ pc \in {"staging", "filling"} /\ at = 0
        /\ pc = "staging" => pc' = "filling" /\ UNCHANGED mem
        /\ pc = "filling" => pc' = "writing" /\ mem'.state = mem.state
    <3>1. CASE CreateStage
      BY <3>1 DEF CreateStage, PlaceOK, Goto, rows, world
    <3>2. CASE FillStage
      BY <3>2 DEF FillStage, PlaceOK, TypeOK, Journal, Goto, rows, world
    <3> QED
      BY <1>5, <3>1, <3>2
  <2>2. cur \in Changesets
    BY <2>1 DEF PlaceOK
  <2>3. \A d \in Changesets, q \in Paths :
             stage'[d][q] = IF d = cur /\ q = p THEN v ELSE stage[d][q]
    BY <1>0, <2>0, <2>2, OneStage
  <2>4. FilesOK'
    BY <2>0, <2>1, <2>2, <2>3 DEF FilesOK, JournalOK, Kind
  <2>5. NoResidue'
    BY <2>0, <2>1, <2>2, <2>3 DEF NoResidue, JournalOK
  <2>6. JournalOK'
    BY <2>1 DEF JournalOK, TypeOK, Journal
  <2>7. CleanedOK'
    BY <2>1 DEF CleanedOK
  <2> QED
    BY <2>4, <2>5, <2>6, <2>7
<1>6. CASE RollbackStage
  <2>0. /\ cur \in Changesets /\ ThisOp \in OpPaths(cur) /\ at \in 1..Last
        /\ UNCHANGED <<journal, keep>>
    BY <1>0, <1>6 DEF PlaceOK, TypeOK, ThisOp, RollbackStage, rows, world
  <2>1. CASE UNCHANGED stage /\ pc' = "idle"
    BY <2>0, <2>1 DEF FilesOK, NoResidue, JournalOK, CleanedOK
  <2>2. CASE /\ stage' = [stage EXCEPT ![cur][ThisOp] = "absent"]
             /\ UNCHANGED <<cur, mem>> /\ at' = at - 1 /\ pc' \in {"rb_target", "rb_journal"}
    <3>1. \A d \in Changesets, q \in Paths :
             stage'[d][q] = IF d = cur /\ q = ThisOp THEN "absent" ELSE stage[d][q]
      BY <1>0, <2>0, <2>2, OneStage
    <3>2. FilesOK' /\ NoResidue'
      BY <2>0, <3>1 DEF FilesOK, NoResidue
    <3>3. JournalOK'
      BY <2>2 DEF JournalOK
    <3>4. keep[cur][ThisOp] = Absent
      BY <1>6 DEF CleanedOK, RollbackStage
    <3>5. \A i \in at..Last : /\ stage'[cur][Order[cur][i]] = "absent"
                              /\ keep'[cur][Order[cur][i]] = Absent
      <4>1. \A i \in (at + 1)..Last : /\ stage[cur][Order[cur][i]] = "absent"
                                      /\ keep[cur][Order[cur][i]] = Absent
        BY <1>6 DEF CleanedOK, RollbackStage
      <4> QED
        BY <1>0, <2>0, <3>1, <3>4, <4>1 DEF ThisOp
    <3>6. CleanedOK'
      BY <2>0, <2>2, <3>5 DEF CleanedOK
    <3> QED
      BY <3>2, <3>3, <3>6
  <2> QED
    BY <1>6, <2>1, <2>2 DEF RollbackStage, Abandon, Goto
<1>7. CASE RollbackKeep
  <2>0. /\ cur \in Changesets /\ ThisOp \in OpPaths(cur) /\ at \in 1..Last
        /\ UNCHANGED <<journal, stage>>
    BY <1>0, <1>7 DEF PlaceOK, TypeOK, ThisOp, RollbackKeep, rows, world
  <2>1. pc' \in {"idle", "rb_unlink", "rb_stage"}
    BY <1>7 DEF RollbackKeep, Abandon, Goto
  <2>2. pc' # "idle" => UNCHANGED <<cur, at>>
    BY <1>7 DEF RollbackKeep, Abandon, Goto
  <2>3. CASE UNCHANGED keep
    <3>1. pc' = "rb_stage" => keep[cur][ThisOp] = Absent
      <4>1. [keep EXCEPT ![cur][ThisOp] = Absent][cur][ThisOp] = Absent
        BY <1>0, <2>0, OneKeep DEF Contents
      <4>2. CASE Kind(ThisOp) = "create"
        BY <1>0, <2>0, <4>2 DEF FilesOK, Kind
      <4>3. CASE pc' = "rb_stage" /\ Kind(ThisOp) # "create" /\ keep[cur][ThisOp] # Absent
        <5>1. keep' = [keep EXCEPT ![cur][ThisOp] = Absent]
          BY <1>7, <4>3 DEF RollbackKeep, Goto
        <5> QED
          BY <2>3, <4>1, <5>1
      <4> QED
        BY <4>2, <4>3
    <3>2. FilesOK' /\ NoResidue' /\ JournalOK'
      BY <2>0, <2>1, <2>3 DEF FilesOK, NoResidue, JournalOK
    <3>3. CleanedOK'
      BY <2>0, <2>1, <2>2, <2>3, <3>1, <1>7 DEF CleanedOK, RollbackKeep, ThisOp
    <3> QED
      BY <3>2, <3>3
  <2>4. CASE keep' = [keep EXCEPT ![cur][ThisOp] = Absent]
    <3>1. \A d \in Changesets, q \in Paths :
             keep'[d][q] = IF d = cur /\ q = ThisOp THEN Absent ELSE keep[d][q]
      BY <1>0, <2>0, <2>4, OneKeep DEF Contents
    <3>2. FilesOK' /\ NoResidue' /\ JournalOK'
      BY <2>0, <2>1, <3>1 DEF FilesOK, NoResidue, JournalOK
    <3>3. CleanedOK'
      BY <1>0, <2>0, <2>1, <2>2, <3>1, <1>7 DEF CleanedOK, RollbackKeep, ThisOp
    <3> QED
      BY <3>2, <3>3
  <2> QED
    BY <1>7, <2>3, <2>4 DEF RollbackKeep
<1> QED
  BY <1>1, <1>2, <1>3, <1>4, <1>5, <1>6, <1>7

(***************************************************************************)
(* Every step keeps what the journals say of the temporary files ...       *)
(***************************************************************************)
LEMMA NextResidue == ResidueInv /\ [Next]_vars => ResidueInv'
<1> SUFFICES ASSUME ResidueInv, [Next]_vars PROVE ResidueInv'
  OBVIOUS
<1>1. PlaceInv'
  BY NextPlace DEF ResidueInv
<1>2. CASE \E c \in Changesets :
             Create(c) \/ Approve(c) \/ Reject(c) \/ ReleaseOrphan(c)
  BY <1>1, <1>2, QuietResidue DEF Create, Approve, Reject, ReleaseOrphan, control, files
<1>3. CASE (\E p \in Paths : Edit(p)) \/ UNCHANGED vars
  BY <1>1, <1>3, QuietResidue DEF Edit, vars, control, files
<1>4. CASE \/ \E c \in Changesets : Apply(c) \/ Recover(c)
           \/ Crash \/ Start
  BY <1>1, <1>4, TakeUpResidue, MoveResidue
<1>5. CASE Fault
  BY <1>1, <1>5, JournalResidue
<1>6. CASE \/ Prepare \/ AllStaged \/ UnlinkBase \/ DeleteDone \/ LinkTarget
           \/ AllOperationsDone \/ Finalize \/ RollbackTarget \/ Release \/ Serve
  BY <1>1, <1>6, MoveResidue
<1>7. CASE WriteJournal \/ WriteCommit \/ RetireJournal \/ RollbackJournal
  BY <1>1, <1>7, JournalResidue
<1>8. CASE \/ CreateStage \/ FillStage \/ LinkRollback \/ UnlinkStage \/ CleanRollback
           \/ RollbackKeep \/ RollbackUnlink \/ RollbackStage
  BY <1>1, <1>8, FilesResidue
<1> QED
  BY <1>2, <1>3, <1>4, <1>5, <1>6, <1>7, <1>8 DEF Next, ServiceStep

(***************************************************************************)
(* ... and so a changeset without a journal never has a stage or rollback  *)
(* file left in the world, whichever steps fail and wherever the service   *)
(* is killed: apply, roll-back and recovery remove every file before they  *)
(* remove the journal.                                                     *)
(***************************************************************************)
THEOREM NoResidueLeft == Spec => []NoResidue
<1>1. ResidueInv => NoResidue
  BY DEF ResidueInv
<1> QED
  BY <1>1, InitResidue, NextResidue, PTL DEF Spec

-----------------------------------------------------------------------------
(* Originals are kept: what the links and the journal say of each other     *)

(* The operations from the k-th on have no rollback file. *)
Untouched(k) == \A i \in k..Last : keep[cur][Order[cur][i]] = Absent

(* Before a name goes the other one is there, and clean-up comes after the  *)
(* commit, roll-back of what was staged before it.                          *)
KeptOK ==
    /\ pc \in {"writing", "staging", "filling", "operating"} => Untouched(at + 1)
    /\ pc \in {"moving", "vacant", "linked"} => Untouched(at + 2)
    /\ pc = "moving" => keep[cur][NextOp] = target[NextOp]
    /\ pc = "rb_unlink" => target[ThisOp] = keep[cur][ThisOp]
    /\ pc \in FinalSteps => journal[cur].state = "files_committed"
    /\ pc \in {"writing"} \cup RollbackSteps /\ mem.staged # {} => Uncommitted(cur)
    /\ \A c \in Changesets : journal[c].state = "none" => journal[c] = NoJournal

KeptInv == ResidueInv /\ KeptOK

(***************************************************************************)
(* At first nothing is linked and there is no journal.                     *)
(***************************************************************************)
LEMMA InitKept == Init => KeptInv
<1>1. Init => KeptOK
  BY DEF Init, KeptOK, RollbackSteps, FinalSteps, NoJournal
<1> QED
  BY <1>1, InitResidue DEF KeptInv

(***************************************************************************)
(* Steps that leave journals, files and the service's place alone.         *)
(***************************************************************************)
LEMMA QuietKept ==
    ASSUME KeptInv, ResidueInv', UNCHANGED <<journal, keep, pc, cur, mem, at>>,
           UNCHANGED target \/ LockFree
    PROVE  KeptInv'
BY DEF KeptInv, KeptOK, Untouched, Last, LockFree, ThisOp, NextOp, Uncommitted,
     FinalSteps,
   RollbackSteps

(***************************************************************************)
(* Steps that take up a changeset.                                         *)
(***************************************************************************)
LEMMA TakeUpKept ==
    ASSUME KeptInv, ResidueInv', NEW c \in Changesets,
           Apply(c) \/ Recover(c)
    PROVE  KeptInv'
<1> USE DEF KeptInv, ResidueInv, PlaceInv, Forward, FinalSteps, RollbackSteps, ApplySteps
<1>1. CASE Apply(c)
  BY <1>1 DEF TypeOK, PlaceOK, JournalOK, KeptOK, Untouched, Last, Uncommitted,
       NoJournal, Apply, Serving, files, world
<1>2. CASE Recover(c)
  BY <1>2 DEF TypeOK, PlaceOK, JournalOK, KeptOK, Untouched, Last, Uncommitted,
       NoJournal, Recover, rows, files, world
<1> QED
  BY <1>1, <1>2

(***************************************************************************)
(* apply() forward.                                                        *)
(***************************************************************************)
LEMMA ApplyKept ==
    ASSUME KeptInv, ResidueInv',
           \/ Prepare \/ WriteJournal \/ CreateStage \/ FillStage \/ AllStaged
           \/ LinkRollback \/ UnlinkBase \/ DeleteDone \/ LinkTarget \/ UnlinkStage
           \/ AllOperationsDone \/ WriteCommit
    PROVE  KeptInv'
<1> USE DEF KeptInv, ResidueInv, PlaceInv, Forward, FinalSteps, RollbackSteps, ApplySteps
<1>1. CASE Prepare
  <2>1. UNCHANGED <<journal, target, keep, cur, at>> /\ cur \in Changesets
    BY <1>1 DEF PlaceOK, Prepare, Goto, files
  <2>2. Untouched(at + 1)
    <3>1. \A p \in Paths : keep[cur][p] = Absent
      BY <1>1, <2>1 DEF JournalOK, NoResidue, Prepare
    <3>2. \A i \in (at + 1)..Last : Order[cur][i] \in Paths
      BY <1>1, <2>1, RecordFacts DEF TypeOK, Last
    <3> QED
      BY <3>1, <3>2 DEF Untouched
  <2>3. \/ pc' = "writing" /\ mem'.staged = {}
        \/ pc' = "release"
    BY <1>1 DEF Prepare, Goto
  <2> QED
    BY <2>1, <2>2, <2>3 DEF KeptOK, Untouched, Last
<1>2. CASE WriteJournal
  BY <1>2 DEF TypeOK, PlaceOK, JournalOK, KeptOK, Untouched, Last, Uncommitted,
       NoJournal, WriteJournal, Goto, rows, files, world
<1>3. CASE CreateStage
  BY <1>3 DEF TypeOK, PlaceOK, JournalOK, KeptOK, Untouched, Last, Uncommitted,
       NoJournal, CreateStage, Goto, rows, world
<1>4. CASE FillStage
  BY <1>4 DEF TypeOK, PlaceOK, JournalOK, KeptOK, Untouched, Last, Uncommitted,
       NoJournal, FillStage, Goto, rows, world
<1>5. CASE AllStaged
  BY <1>5 DEF TypeOK, PlaceOK, JournalOK, KeptOK, Untouched, Last, Uncommitted,
       NoJournal, AllStaged, Goto, rows, files, world
<1>6. CASE LinkRollback
  <2>1. /\ UNCHANGED <<journal, target, cur, mem, at>> /\ pc' = "moving"
        /\ pc = "operating" /\ cur \in Changesets /\ at \in Nat /\ at < Last
    BY <1>6 DEF TypeOK, PlaceOK, LinkRollback, Goto, rows
  <2>2. NextOp \in Paths /\ NextOp = Order[cur][at + 1]
        /\ \A i \in (at + 2)..Last : Order[cur][i] \in Paths \ {NextOp}
    <3>1. Last \in Nat /\ \A i \in 1..Last : Order[cur][i] \in Paths
      BY <2>1, RecordFacts DEF Last
    <3>2. \A i, j \in 1..Last : Order[cur][i] = Order[cur][j] => i = j
      BY <2>1, ChangesetsAssumption DEF Last
    <3> QED
      BY <2>1, <3>1, <3>2 DEF NextOp
  <2>3. \A q \in Paths : keep'[cur][q] = IF q = NextOp THEN target[q] ELSE keep[cur][q]
    BY <1>6, <2>1, <2>2 DEF TypeOK, LinkRollback
  <2>4. Untouched(at + 2)'
    BY <2>1, <2>2, <2>3 DEF KeptOK, Untouched, Last
  <2>5. keep'[cur][NextOp] = target[NextOp]
    BY <2>2, <2>3
  <2> QED
    BY <2>1, <2>4, <2>5 DEF KeptOK, NextOp
<1>7. CASE UnlinkBase
  BY <1>7 DEF TypeOK, PlaceOK, JournalOK, KeptOK, Untouched, Last, Uncommitted,
       NoJournal, UnlinkBase, NextOp, Goto, rows, world
<1>8. CASE DeleteDone
  BY <1>8 DEF TypeOK, PlaceOK, JournalOK, KeptOK, Untouched, Last, Uncommitted,
       NoJournal, DeleteDone, OperationDone, Goto, rows, files, world
<1>9. CASE LinkTarget
  BY <1>9 DEF TypeOK, PlaceOK, JournalOK, KeptOK, Untouched, Last, Uncommitted,
       NoJournal, LinkTarget, Goto, rows, world
<1>10. CASE UnlinkStage
  BY <1>10 DEF TypeOK, PlaceOK, JournalOK, KeptOK, Untouched, Last, Uncommitted,
       NoJournal, UnlinkStage, OperationDone, Goto, rows, world
<1>11. CASE AllOperationsDone
  BY <1>11 DEF TypeOK, PlaceOK, JournalOK, KeptOK, Untouched, Last, Uncommitted,
       NoJournal, AllOperationsDone, Goto, rows, files, world
<1>12. CASE WriteCommit
  BY <1>12 DEF TypeOK, PlaceOK, JournalOK, KeptOK, Untouched, Last, Uncommitted,
       NoJournal, WriteCommit, Goto, rows, files, world
<1> QED
  BY <1>1, <1>2, <1>3, <1>4, <1>5, <1>6, <1>7, <1>8, <1>9, <1>10, <1>11, <1>12

(***************************************************************************)
(* Completion, roll-back, errors and restarts.                             *)
(***************************************************************************)
LEMMA SettleKept ==
    ASSUME KeptInv, ResidueInv',
           \/ Finalize \/ CleanRollback \/ RetireJournal \/ RollbackTarget \/ RollbackKeep
           \/ RollbackUnlink \/ RollbackStage \/ RollbackJournal \/ Release \/ Serve
           \/ Crash \/ Start \/ Fault
    PROVE  KeptInv'
<1> USE DEF KeptInv, ResidueInv, PlaceInv, Forward, FinalSteps, RollbackSteps, ApplySteps
<1>1. CASE Finalize
  BY <1>1 DEF TypeOK, PlaceOK, JournalOK, KeptOK, Untouched, Last, Uncommitted,
       NoJournal, Finalize, Abandon, Goto, files, world
<1>2. CASE CleanRollback
  BY <1>2 DEF TypeOK, PlaceOK, JournalOK, KeptOK, Untouched, Last, Uncommitted,
       NoJournal, CleanRollback, rows, world
<1>3. CASE RetireJournal
  BY <1>3 DEF TypeOK, PlaceOK, JournalOK, KeptOK, Untouched, Last, Uncommitted,
       NoJournal, RetireJournal, Done, rows, files, world
<1>4. CASE RollbackTarget
  BY <1>4 DEF TypeOK, PlaceOK, JournalOK, KeptOK, Untouched, Last, Uncommitted,
       NoJournal, RollbackTarget, Abandon, Goto, rows, world
<1>5. CASE RollbackKeep
  <2>1. ThisOp \in Paths
    BY <1>5, RecordFacts DEF TypeOK, PlaceOK, RollbackKeep, ThisOp, Last
  <2>2. UNCHANGED journal /\ \/ pc' = "idle"
                             \/ pc' = "rb_stage" /\ UNCHANGED <<cur, mem, at>>
                             \/ /\ pc' = "rb_unlink" /\ UNCHANGED <<cur, mem, at, keep>>
                                /\ target' = [target EXCEPT ![ThisOp] = keep[cur][ThisOp]]
    BY <1>5 DEF RollbackKeep, Abandon, Goto, rows, world
  <2> QED
    BY <1>5, <2>1, <2>2 DEF TypeOK, KeptOK, Uncommitted, RollbackKeep, ThisOp
<1>6. CASE RollbackUnlink
  BY <1>6 DEF TypeOK, PlaceOK, JournalOK, KeptOK, Untouched, Last, Uncommitted,
       NoJournal, RollbackUnlink, Goto, rows, world
<1>7. CASE RollbackStage
  BY <1>7 DEF TypeOK, PlaceOK, JournalOK, KeptOK, Untouched, Last, Uncommitted,
       NoJournal, RollbackStage, Abandon, Goto, rows, world
<1>8. CASE RollbackJournal
  BY <1>8 DEF TypeOK, PlaceOK, JournalOK, KeptOK, Untouched, Last, Uncommitted,
       NoJournal, RollbackJournal, Goto, rows, files, world
<1>9. CASE Release \/ Serve
  BY <1>9 DEF TypeOK, PlaceOK, JournalOK, KeptOK, Untouched, Last, Uncommitted,
       NoJournal, Release, Done, Serve, files, rows, world
<1>10. CASE Crash \/ Start
  BY <1>10 DEF TypeOK, PlaceOK, JournalOK, KeptOK, Untouched, Last, Uncommitted,
       NoJournal, Crash, Start, ServiceGone, rows, files, world
<1>11. CASE Fault
  <2>1. pc' = "idle" \/ (pc' = "rb_target" /\ UNCHANGED <<cur, mem>> /\ cur \in Changesets)
    BY <1>11 DEF PlaceOK, Fault, Fail, Abandon, Goto
  <2>2. CASE UNCHANGED journal
    <3>1. pc' = "rb_target" /\ mem.staged # {} => Uncommitted(cur)
      <4>1. pc' = "rb_target" => pc \in ApplySteps \ {"committing"} /\ cur \in Changesets
        BY <1>11 DEF PlaceOK, JournalOK, Fault, Fail, Abandon, Goto
      <4> QED
        BY <4>1 DEF JournalOK, KeptOK, Uncommitted
    <3> QED
      BY <2>1, <2>2, <3>1 DEF KeptOK, Uncommitted
  <2>3. CASE pc \in {"writing", "committing"} /\ journal' = [journal EXCEPT ![cur] = mem]
    <3>1. cur \in Changesets
      BY <2>3 DEF PlaceOK
    <3>2. mem.state # "none" /\ journal'[cur] = mem
          /\ \A d \in Changesets \ {cur} : journal'[d] = journal[d]
      BY <2>3, <3>1 DEF TypeOK, JournalOK
    <3>3. pc' = "rb_target" => mem.state # "files_committed"
      BY <1>11, <2>3 DEF Fault, Fail, Abandon
    <3> QED
      BY <2>1, <3>1, <3>2, <3>3 DEF KeptOK, Uncommitted
  <2> QED
    BY <1>11, <2>2, <2>3 DEF Fault
<1> QED
  BY <1>1, <1>2, <1>3, <1>4, <1>5, <1>6, <1>7, <1>8, <1>9, <1>10, <1>11

(***************************************************************************)
(* Every step keeps what the originals' names rest on.                     *)
(***************************************************************************)
LEMMA NextKept == KeptInv /\ [Next]_vars => KeptInv'
<1> SUFFICES ASSUME KeptInv, [Next]_vars PROVE KeptInv'
  OBVIOUS
<1>1. ResidueInv'
  BY NextResidue DEF KeptInv
<1>2. CASE \E c \in Changesets :
             Create(c) \/ Approve(c) \/ Reject(c) \/ ReleaseOrphan(c)
  BY <1>1, <1>2, QuietKept DEF Create, Approve, Reject, ReleaseOrphan, control, files
<1>3. CASE (\E p \in Paths : Edit(p)) \/ UNCHANGED vars
  BY <1>1, <1>3, QuietKept DEF Edit, vars, control, files
<1>4. CASE \E c \in Changesets : Apply(c) \/ Recover(c)
  BY <1>1, <1>4, TakeUpKept
<1>5. CASE \/ Prepare \/ WriteJournal \/ CreateStage \/ FillStage \/ AllStaged
           \/ LinkRollback \/ UnlinkBase \/ DeleteDone \/ LinkTarget \/ UnlinkStage
           \/ AllOperationsDone \/ WriteCommit
  BY <1>1, <1>5, ApplyKept
<1>6. CASE \/ Finalize \/ CleanRollback \/ RetireJournal \/ RollbackTarget \/ RollbackKeep
           \/ RollbackUnlink \/ RollbackStage \/ RollbackJournal \/ Release \/ Serve
           \/ Crash \/ Start \/ Fault
  BY <1>1, <1>6, SettleKept
<1> QED
  BY <1>2, <1>3, <1>4, <1>5, <1>6 DEF Next, ServiceStep

(***************************************************************************)
(* A file leaves its path only with a rollback name to its name, or        *)
(* because it is the changeset's own.                                      *)
(***************************************************************************)
LEMMA StepKeepsTargets ==
    ASSUME KeptInv, [Next]_vars, NEW p \in Paths \ (edited' \ edited),
           target[p] # Absent, target'[p] # target[p]
    PROVE  \/ \E c \in Changesets : keep'[c][p] = target[p]
           \/ \E c \in Changesets : target[p] = c /\ Uncommitted(c)
<1> USE DEF KeptInv, ResidueInv, PlaceInv
<1>1. CASE UnlinkBase
  <2>1. cur \in Changesets /\ p = NextOp /\ UNCHANGED keep
    BY <1>1 DEF UnlinkBase, TypeOK, PlaceOK
  <2> QED
    BY <1>1, <2>1 DEF UnlinkBase, KeptOK
<1>2. CASE RollbackTarget
  <2>1. cur \in Changesets /\ p = ThisOp /\ target[p] = cur /\ p \in mem.staged
    BY <1>2 DEF RollbackTarget, TypeOK, PlaceOK
  <2> QED
    BY <1>2, <2>1 DEF RollbackTarget, KeptOK, RollbackSteps
<1>3. CASE LinkTarget \/ RollbackKeep
  <2>1. \E q, x : target[q] = Absent /\ target' = [target EXCEPT ![q] = x]
    BY <1>3 DEF LinkTarget, RollbackKeep
  <2> QED
    BY <2>1 DEF TypeOK
<1>4. CASE \E q \in Paths : Edit(q)
  BY <1>4 DEF Edit, TypeOK
<1>5. CASE UNCHANGED target
  BY <1>5
<1>6. CASE \/ \E c \in Changesets : \/ Create(c) \/ Approve(c) \/ Reject(c) \/ Apply(c)
                                    \/ Recover(c) \/ ReleaseOrphan(c)
           \/ Prepare \/ WriteJournal \/ CreateStage \/ FillStage \/ AllStaged
           \/ LinkRollback \/ DeleteDone \/ UnlinkStage \/ AllOperationsDone \/ WriteCommit
  BY <1>5, <1>6 DEF Create, Approve, Reject, Apply, Recover, ReleaseOrphan, Prepare,
     WriteJournal, CreateStage, FillStage, AllStaged, LinkRollback, DeleteDone,
     UnlinkStage, AllOperationsDone, WriteCommit, files
<1>7. CASE \/ Finalize \/ CleanRollback \/ RetireJournal \/ RollbackUnlink
           \/ RollbackStage \/ RollbackJournal \/ Release \/ Serve
           \/ Crash \/ Start \/ Fault \/ UNCHANGED vars
  BY <1>5, <1>7 DEF Finalize, CleanRollback, RetireJournal, RollbackUnlink,
     RollbackStage, RollbackJournal, Release, Serve, Crash, Start, Fault, vars, files
<1> QED
  BY <1>1, <1>2, <1>3, <1>4, <1>6, <1>7 DEF Next, ServiceStep

(***************************************************************************)
(* A rollback name goes only when its file is back under its own name, or  *)
(* the commit is durable.                                                  *)
(***************************************************************************)
LEMMA StepKeepsRollbacks ==
    ASSUME KeptInv, [Next]_vars, NEW c \in Changesets, NEW p \in Paths,
           keep[c][p] # Absent, keep'[c][p] = Absent
    PROVE  journal[c].state = "files_committed" \/ target[p] = keep[c][p]
<1> USE DEF KeptInv, ResidueInv, PlaceInv
<1>1. CASE CleanRollback
  <2>1. c = cur
    BY <1>1 DEF CleanRollback, TypeOK, PlaceOK
  <2> QED
    BY <1>1, <2>1 DEF CleanRollback, KeptOK, FinalSteps
<1>2. CASE RollbackKeep
  <2>1. c = cur /\ p = ThisOp
    BY <1>2 DEF RollbackKeep, TypeOK, PlaceOK
  <2> QED
    BY <1>2, <2>1 DEF RollbackKeep
<1>3. CASE RollbackUnlink
  <2>1. c = cur /\ p = ThisOp
    BY <1>3 DEF RollbackUnlink, TypeOK, PlaceOK
  <2> QED
    BY <1>3, <2>1 DEF RollbackUnlink, KeptOK
<1>4. CASE LinkRollback
  <2>1. pc = "operating" /\ at < Last /\ Kind(NextOp) # "create"
        /\ keep' = [keep EXCEPT ![cur][NextOp] = target[NextOp]]
    BY <1>4 DEF LinkRollback
  <2> QED
    <3>1. cur \in Changesets /\ NextOp \in Paths /\ keep[cur][NextOp] = Absent
      <4>1. cur \in Changesets /\ Untouched(at + 1)
        BY <2>1 DEF PlaceOK, KeptOK
      <4>2. at + 1 \in 1..Last /\ at + 1 \in (at + 1)..Last
        BY <2>1, <4>1, RecordFacts DEF TypeOK, Last
      <4> QED
        BY <4>1, <4>2, RecordFacts DEF Untouched, NextOp, Last
    <3>2. keep'[c][p] = IF c = cur /\ p = NextOp THEN target[p] ELSE keep[c][p]
      BY <2>1, <3>1 DEF TypeOK
    <3> QED
      BY <3>1, <3>2
<1>5. CASE UNCHANGED keep
  BY <1>5
<1>6. CASE \/ \E d \in Changesets : \/ Create(d) \/ Approve(d) \/ Reject(d) \/ Apply(d)
                                    \/ Recover(d) \/ ReleaseOrphan(d)
           \/ Prepare \/ WriteJournal \/ CreateStage \/ FillStage \/ AllStaged
           \/ UnlinkBase \/ DeleteDone \/ LinkTarget \/ UnlinkStage
           \/ AllOperationsDone \/ WriteCommit
  BY <1>5, <1>6 DEF Create, Approve, Reject, Apply, Recover, ReleaseOrphan, Prepare,
     WriteJournal, CreateStage, FillStage, AllStaged, UnlinkBase, DeleteDone, LinkTarget,
     UnlinkStage, AllOperationsDone, WriteCommit, files
<1>7. CASE \/ Finalize \/ RetireJournal \/ RollbackTarget \/ RollbackStage
           \/ RollbackJournal \/ Release \/ Serve \/ Crash \/ Start \/ Fault
           \/ (\E q \in Paths : Edit(q)) \/ UNCHANGED vars
  BY <1>5, <1>7 DEF Finalize, RetireJournal, RollbackTarget, RollbackStage,
     RollbackJournal, Release, Serve, Crash, Start, Fault, Edit, vars, files
<1> QED
  BY <1>1, <1>2, <1>3, <1>4, <1>6, <1>7 DEF Next, ServiceStep

(***************************************************************************)
(* No step of apply(), of a roll-back or of the recovery loses bytes that  *)
(* are not the changeset's own.                                            *)
(***************************************************************************)
THEOREM OriginalsKept == Spec => OriginalsAreKept
<1>1. KeptInv /\ [Next]_vars =>
        [/\ \A p \in Paths \ (edited' \ edited) :
              target[p] # Absent /\ target'[p] # target[p] =>
                  \/ \E c \in Changesets : keep'[c][p] = target[p]
                  \/ \E c \in Changesets : target[p] = c /\ Uncommitted(c)
         /\ \A c \in Changesets, p \in Paths :
              keep[c][p] # Absent /\ keep'[c][p] = Absent =>
                  journal[c].state = "files_committed" \/ target[p] = keep[c][p]]_vars
  BY StepKeepsTargets, StepKeepsRollbacks
<1> QED
  BY <1>1, InitKept, NextKept, PTL DEF Spec, OriginalsAreKept

=============================================================================
