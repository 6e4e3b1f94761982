----------------------- MODULE PersistenceSlotsProofs -----------------------
(***************************************************************************)
(* Proofs about PersistenceSlots for any machines, processes, documents    *)
(* and bounds.                                                             *)
(***************************************************************************)
EXTENDS PersistenceSlots, FiniteSetTheorems, TLAPS

-----------------------------------------------------------------------------
(* Chains: what a slot looks like when only its own writers touch it        *)

(* Every generation stands on a line of flushed ones down to the root. *)
Standing(F, D) ==
    \A g \in F :
        /\ g.sequence = 0 => g.parents = {}
        /\ g.sequence > 0 => \E h \in D : g.parents = {h} /\ g.sequence = h.sequence + 1
        /\ \A k \in Nat : k < g.sequence => \E h \in D : h.sequence = k

Linear(F) == \A g, h \in F : g.sequence = h.sequence => g = h

Sequenced(F) == \A g \in F : g.sequence \in Nat

Chain(F, D) == Sequenced(F) /\ D \subseteq F /\ Standing(F, D) /\ Linear(F)

(***************************************************************************)
(* A chain has one tip: whatever lies under the higher of two tips has a   *)
(* child that stands just above the lower one.                             *)
(***************************************************************************)
LEMMA ChainHasOneTip ==
    ASSUME NEW F, NEW D, Chain(F, D), NEW t \in Tips(F), NEW u \in Tips(F)
    PROVE  t = u
<1>1. t \in F /\ u \in F /\ t.sequence \in Nat /\ u.sequence \in Nat
  BY DEF Chain, Sequenced, Tips
<1>2. ASSUME NEW a \in Tips(F), NEW b \in Tips(F), a.sequence < b.sequence PROVE FALSE
  <2>1. a \in F /\ b \in F /\ a.sequence \in Nat /\ b.sequence \in Nat
    BY DEF Chain, Sequenced, Tips
  <2>2. PICK h \in F : h.sequence = a.sequence + 1
    <3>1. CASE b.sequence = a.sequence + 1
      BY <2>1, <3>1
    <3>2. CASE b.sequence # a.sequence + 1
      <4>1. a.sequence + 1 \in Nat /\ a.sequence + 1 < b.sequence
        BY <1>2, <2>1, <3>2
      <4>2. \E h \in D : h.sequence = a.sequence + 1
        BY <2>1, <4>1 DEF Chain, Standing
      <4> QED
        BY <4>2 DEF Chain
    <3> QED
      BY <3>1, <3>2
  <2>3. h.sequence > 0
    BY <2>1, <2>2
  <2>4. PICK x \in D : h.parents = {x} /\ h.sequence = x.sequence + 1
    BY <2>3 DEF Chain, Standing
  <2>5. x \in F /\ x.sequence \in Nat
    BY DEF Chain, Sequenced
  <2>6. x.sequence = a.sequence
    BY <2>1, <2>2, <2>4, <2>5
  <2>7. x = a
    BY <2>1, <2>5, <2>6 DEF Chain, Linear
  <2> QED
    BY <2>2, <2>4, <2>7 DEF Tips
<1>3. t.sequence = u.sequence
  BY <1>1, <1>2
<1> QED
  BY <1>1, <1>3 DEF Chain, Linear

(***************************************************************************)
(* A chain of at most MaxGenerations generations passes the scan and is    *)
(* not forked.                                                             *)
(***************************************************************************)
LEMMA ChainIsReadable ==
    ASSUME NEW F, NEW D, Chain(F, D), IsFiniteSet(F), Cardinality(F) <= MaxGenerations
    PROVE  VerifyDag(F) /\ ~(Cardinality(Tips(F)) > 1)
<1>1. VerifyDag(F)
  <2>1. ASSUME NEW g \in F
        PROVE  /\ g.parents \subseteq F
               /\ g.parents = {} => g.sequence = 0
               /\ g.parents # {} => /\ \E h \in g.parents : g.sequence = h.sequence + 1
                                    /\ \A h \in g.parents : g.sequence > h.sequence
    <3>1. g.sequence \in Nat
      BY DEF Chain, Sequenced
    <3>2. CASE g.sequence = 0
      BY <3>2 DEF Chain, Standing
    <3>3. CASE g.sequence > 0
      <4>1. PICK h \in D : g.parents = {h} /\ g.sequence = h.sequence + 1
        BY <3>3 DEF Chain, Standing
      <4>2. h \in F /\ h.sequence \in Nat
        BY DEF Chain, Sequenced
      <4> QED
        BY <3>3, <4>1, <4>2
    <3> QED
      BY <3>1, <3>2, <3>3
  <2> QED
    BY <2>1 DEF VerifyDag
<1>2. ~(Cardinality(Tips(F)) > 1)
  <2>1. CASE Tips(F) = {}
    BY <2>1, FS_EmptySet
  <2>2. CASE Tips(F) # {}
    <3>1. PICK t \in Tips(F) : TRUE
      BY <2>2
    <3>2. Tips(F) = {t}
      BY <3>1, ChainHasOneTip
    <3> QED
      BY <3>2, FS_Singleton
  <2> QED
    BY <2>1, <2>2
<1> QED
  BY <1>1, <1>2

(***************************************************************************)
(* Publishing above the only tip, when everything before it is flushed,    *)
(* gives a chain again.                                                    *)
(***************************************************************************)
LEMMA ChainGrows ==
    ASSUME NEW F, NEW D, Chain(F, D), NEW t, Tips(F) = {t},
           NEW g, g.sequence = t.sequence + 1, g.parents = {t}
    PROVE  Chain(F \cup {g}, F)
<1>1. t \in F /\ t.sequence \in Nat /\ \A h \in F : t \notin h.parents
  BY DEF Chain, Sequenced, Tips
<1>2. Sequenced(F \cup {g})
  BY <1>1 DEF Chain, Sequenced
<1>3. Standing(F, F)
  BY DEF Chain, Standing
<1>4. \A k \in Nat : k < g.sequence => \E h \in F : h.sequence = k
  <2> TAKE k \in Nat
  <2> HAVE k < g.sequence
  <2>1. k = t.sequence \/ k < t.sequence
    BY <1>1
  <2> QED
    BY <1>1, <1>3, <2>1 DEF Standing
<1>5. Standing(F \cup {g}, F)
  <2>1. g.sequence > 0
    BY <1>1
  <2> QED
    BY <1>1, <1>3, <1>4, <2>1 DEF Standing
<1>6. ASSUME NEW h \in F, h.sequence = g.sequence PROVE FALSE
  <2>1. h.sequence > 0
    BY <1>1, <1>6
  <2>2. PICK x \in D : h.parents = {x} /\ h.sequence = x.sequence + 1
    BY <2>1 DEF Chain, Standing
  <2>3. x \in F /\ x.sequence \in Nat
    BY DEF Chain, Sequenced
  <2>4. x = t
    BY <1>1, <1>6, <2>2, <2>3 DEF Chain, Linear
  <2> QED
    BY <1>1, <2>2, <2>4
<1>7. Linear(F \cup {g})
  BY <1>6 DEF Chain, Linear
<1> QED
  BY <1>2, <1>5, <1>7 DEF Chain

(***************************************************************************)
(* A power loss keeps the flushed generations and any of the others.       *)
(***************************************************************************)
LEMMA ChainSurvives ==
    ASSUME NEW F, NEW D, Chain(F, D), NEW K, D \subseteq K, K \subseteq F
    PROVE  Chain(K, K)
<1>1. Sequenced(K) /\ Linear(K)
  BY DEF Chain, Sequenced, Linear
<1>2. Standing(K, K)
  BY DEF Chain, Standing
<1> QED
  BY <1>1, <1>2 DEF Chain

-----------------------------------------------------------------------------
(* The invariant                                                            *)

(* Who is in a call past its start holds the lock, in finished directories. *)
LockOK ==
    /\ \A p \in Processes : pc[p] # "idle" => lock[Home[p]] = p
    /\ \A m \in Machines : files[m] # {} \/ lock[m] # NoProcess => layout[m] = "v1"

FilesOK == \A m \in Machines : IsFiniteSet(files[m])

(* The root of an older save's slot is its migration. *)
Rooted(m) ==
    Legacy[m] # NoPayload =>
        \A g \in files[m] : g.sequence = 0 => /\ g.operation = "legacy_migration"
                                             /\ g.payload = Legacy[m]

(* What p is about to publish fits the slot as it is. *)
PlanFits(p) ==
    LET F == files[Home[p]]
    IN  /\ Cardinality(F) < MaxGenerations - 1
        /\ \/ /\ F = {}
              /\ plan[p].sequence = 0
              /\ plan[p].parents = {}
              /\ Legacy[Home[p]] # NoPayload => /\ plan[p].operation = "legacy_migration"
                                              /\ plan[p].payload = Legacy[Home[p]]
           \/ \E t \in F : /\ Tips(F) = {t}
                           /\ plan[p].parents = {t}
                           /\ plan[p].sequence = t.sequence + 1

AloneOK ==
    /\ \A m \in Machines \ arrived :
          /\ Chain(files[m], durable[m])
          /\ Cardinality(files[m]) <= MaxGenerations
          /\ Rooted(m)
    /\ \A p \in Processes : pc[p] = "built" /\ Home[p] \notin arrived => PlanFits(p)

IInv == TypeOK /\ LockOK /\ FilesOK /\ AcknowledgedSavesStay /\ AloneOK

(***************************************************************************)
(* The empty slots satisfy the invariant.                                  *)
(***************************************************************************)
LEMMA InitIInv == Init => IInv
<1> SUFFICES ASSUME Init PROVE IInv
  OBVIOUS
<1> USE SlotsAssumption
<1>1. TypeOK
  BY DEF Init, TypeOK, Steps
<1>2. LockOK
  BY DEF Init, LockOK
<1>3. FilesOK
  BY FS_EmptySet DEF Init, FilesOK
<1>4. AcknowledgedSavesStay
  BY DEF Init, AcknowledgedSavesStay
<1>5. AloneOK
  <2>1. Cardinality({}) <= MaxGenerations
    BY FS_EmptySet
  <2> QED
    BY <2>1 DEF Init, AloneOK, Chain, Sequenced, Standing, Linear, Rooted
<1> QED
  BY <1>1, <1>2, <1>3, <1>4, <1>5 DEF IInv

(***************************************************************************)
(* Types are kept.                                                         *)
(***************************************************************************)
LEMMA NextTypeOK ==
    ASSUME TypeOK, LockOK, [Next]_vars
    PROVE  TypeOK'
<1> USE SlotsAssumption DEF TypeOK, Steps, Goto, stored, external
<1>1. ASSUME NEW p \in Processes, MakeDirectory(p) PROVE TypeOK'
  BY <1>1 DEF MakeDirectory
<1>2. ASSUME NEW p \in Processes, Acquire(p) PROVE TypeOK'
  BY <1>2 DEF Acquire
<1>3. ASSUME NEW p \in Processes, NEW s, NEW T, NEW o, NEW v, Build(p, s, T, o, v),
             Generation([sequence |-> s, parents |-> T, operation |-> o, payload |-> v])
      PROVE  TypeOK'
  BY <1>3 DEF Build
<1>4. ASSUME NEW p \in Processes, Write(p) PROVE TypeOK'
  <2>1. PICK v \in Payloads :
           \/ Build(p, 0, {}, "write", v)
           \/ \E t \in files[Home[p]] : Build(p, t.sequence + 1, {t}, "write", v)
    BY <1>4 DEF Write
  <2>2. CASE Build(p, 0, {}, "write", v)
    <3>1. Generation([sequence |-> 0, parents |-> {}, operation |-> "write", payload |-> v])
      BY DEF Generation, Operations
    <3> QED
      BY <1>3, <2>2, <3>1
  <2>3. ASSUME NEW t \in files[Home[p]], Build(p, t.sequence + 1, {t}, "write", v)
        PROVE  TypeOK'
    <3>1. t.sequence \in Nat
      BY DEF Generation
    <3>2. Generation([sequence |-> t.sequence + 1, parents |-> {t},
                      operation |-> "write", payload |-> v])
      BY <3>1 DEF Generation, Operations
    <3> QED
      BY <1>3, <2>3, <3>2
  <2> QED
    BY <2>1, <2>2, <2>3
<1>5. ASSUME NEW p \in Processes, Migrate(p) PROVE TypeOK'
  BY <1>3, <1>5 DEF Migrate, Generation, Operations
<1>6. ASSUME NEW p \in Processes, Rollback(p) PROVE TypeOK'
  <2>1. PICK t \in files[Home[p]], target \in files[Home[p]] :
           Build(p, t.sequence + 1, {t}, "rollback", target.payload)
    BY <1>6 DEF Rollback
  <2>2. t.sequence \in Nat /\ target.payload \in Payloads
    BY DEF Generation
  <2>3. Generation([sequence |-> t.sequence + 1, parents |-> {t},
                    operation |-> "rollback", payload |-> target.payload])
    BY <2>2 DEF Generation, Operations
  <2> QED
    BY <1>3, <2>1, <2>3
<1>7. ASSUME NEW p \in Processes, Resolve(p) PROVE TypeOK'
  <2> DEFINE T == Tips(files[Home[p]])
  <2>1. PICK newest \in T, v \in Payloads :
           Build(p, newest.sequence + 1, T, "conflict_resolution", v)
    BY <1>7 DEF Resolve
  <2>2. newest.sequence \in Nat
    BY DEF Generation, Tips
  <2>3. \E h, k \in T : h # k
    <3>1. CASE T = {newest}
      <4>1. Cardinality(T) = 1
        BY <3>1, FS_Singleton
      <4> QED
        BY <1>7, <4>1 DEF Resolve, Forked
    <3>2. CASE T # {newest}
      BY <3>2
    <3> QED
      BY <3>1, <3>2
  <2>4. Generation([sequence |-> newest.sequence + 1, parents |-> T,
                    operation |-> "conflict_resolution", payload |-> v])
    BY <2>2, <2>3 DEF Generation, Operations
  <2> QED
    BY <1>3, <2>1, <2>4
<1>8. ASSUME NEW p \in Processes, Link(p) PROVE TypeOK'
  BY <1>8 DEF Link
<1>9. ASSUME NEW p \in Processes, Acknowledge(p) PROVE TypeOK'
  BY <1>9 DEF Acknowledge
<1>10. ASSUME NEW p \in Processes, Abandon(p) PROVE TypeOK'
  BY <1>10 DEF Abandon
<1>11. ASSUME NEW m \in Machines, NEW n \in Machines, Arrive(m, n) PROVE TypeOK'
  BY <1>11 DEF Arrive
<1>12. ASSUME NEW m \in Unpowered, PowerLoss(m) PROVE TypeOK'
  BY <1>12 DEF PowerLoss
<1>13. CASE UNCHANGED vars
  BY <1>13 DEF vars
<1> QED
  BY <1>1, <1>2, <1>4, <1>5, <1>6, <1>7, <1>8, <1>9, <1>10, <1>11, <1>12, <1>13 DEF Next

(***************************************************************************)
(* The lock and the directories.                                           *)
(***************************************************************************)
LEMMA NextLockOK ==
    ASSUME TypeOK, LockOK, [Next]_vars
    PROVE  LockOK'
<1> USE SlotsAssumption DEF TypeOK, Steps, Goto, LockOK, stored, external
<1>1. ASSUME NEW p \in Processes, MakeDirectory(p) PROVE LockOK'
  BY <1>1 DEF MakeDirectory
<1>2. ASSUME NEW p \in Processes, Acquire(p) PROVE LockOK'
  BY <1>2 DEF Acquire
<1>3. ASSUME NEW p \in Processes, NEW s, NEW T, NEW o, NEW v, Build(p, s, T, o, v)
      PROVE  LockOK'
  BY <1>3 DEF Build
<1>4. ASSUME NEW p \in Processes, Write(p) \/ Migrate(p) \/ Rollback(p) \/ Resolve(p)
      PROVE  LockOK'
  BY <1>3, <1>4 DEF Write, Migrate, Rollback, Resolve
<1>5. ASSUME NEW p \in Processes, Link(p) PROVE LockOK'
  <2>1. lock[Home[p]] # NoProcess
    BY <1>5 DEF Link
  <2> QED
    BY <1>5, <2>1 DEF Link
<1>6. ASSUME NEW p \in Processes, Acknowledge(p) PROVE LockOK'
  BY <1>6 DEF Acknowledge
<1>7. ASSUME NEW p \in Processes, Abandon(p) PROVE LockOK'
  BY <1>7 DEF Abandon
<1>8. ASSUME NEW m \in Machines, NEW n \in Machines, Arrive(m, n) PROVE LockOK'
  BY <1>8 DEF Arrive
<1>9. ASSUME NEW m \in Unpowered, PowerLoss(m) PROVE LockOK'
  BY <1>9 DEF PowerLoss
<1>10. CASE UNCHANGED vars
  BY <1>10 DEF vars
<1> QED
  BY <1>1, <1>2, <1>4, <1>5, <1>6, <1>7, <1>8, <1>9, <1>10 DEF Next

(***************************************************************************)
(* A slot holds finitely many files.                                       *)
(***************************************************************************)
LEMMA NextFilesOK ==
    ASSUME TypeOK, FilesOK, [Next]_vars
    PROVE  FilesOK'
<1> USE SlotsAssumption DEF TypeOK, FilesOK, stored, external
<1>1. ASSUME NEW p \in Processes, Link(p) PROVE FilesOK'
  <2>1. IsFiniteSet(files[Home[p]] \cup {plan[p]})
    BY FS_AddElement
  <2> QED
    BY <1>1, <2>1 DEF Link
<1>2. ASSUME NEW m \in Machines, NEW n \in Machines, Arrive(m, n) PROVE FilesOK'
  <2>1. PICK g : files' = [files EXCEPT ![m] = @ \cup {g}]
    BY <1>2 DEF Arrive
  <2>2. IsFiniteSet(files[m] \cup {g})
    BY FS_AddElement
  <2> QED
    BY <2>1, <2>2
<1>3. ASSUME NEW m \in Unpowered, PowerLoss(m) PROVE FilesOK'
  <2>1. PICK kept \in SUBSET (files[m] \ durable[m]) :
           files' = [files EXCEPT ![m] = durable[m] \cup kept]
    BY <1>3 DEF PowerLoss
  <2>2. durable[m] \cup kept \in SUBSET files[m]
    OBVIOUS
  <2>3. IsFiniteSet(durable[m] \cup kept)
    BY <2>2, FS_Subset
  <2> QED
    BY <2>1, <2>3
<1>4. ASSUME UNCHANGED files PROVE FilesOK'
  BY <1>4
<1>5. ASSUME NEW p \in Processes,
             \/ MakeDirectory(p) \/ Acquire(p) \/ Write(p) \/ Migrate(p) \/ Rollback(p)
             \/ Resolve(p) \/ Acknowledge(p) \/ Abandon(p)
      PROVE  FilesOK'
  BY <1>4, <1>5 DEF MakeDirectory, Acquire, Write, Migrate, Rollback, Resolve, Build,
                    Acknowledge, Abandon
<1>6. CASE UNCHANGED vars
  BY <1>4, <1>6 DEF vars
<1> QED
  BY <1>1, <1>2, <1>3, <1>5, <1>6 DEF Next

(***************************************************************************)
(* What a caller was told is saved stays among the flushed files.          *)
(***************************************************************************)
LEMMA NextAcknowledged ==
    ASSUME TypeOK, AcknowledgedSavesStay, [Next]_vars
    PROVE  AcknowledgedSavesStay'
<1> USE SlotsAssumption DEF TypeOK, AcknowledgedSavesStay, stored, external
<1>1. ASSUME NEW p \in Processes, Link(p) PROVE AcknowledgedSavesStay'
  BY <1>1 DEF Link
<1>2. ASSUME NEW p \in Processes, Acknowledge(p) PROVE AcknowledgedSavesStay'
  BY <1>2 DEF Acknowledge
<1>3. ASSUME NEW m \in Unpowered, PowerLoss(m) PROVE AcknowledgedSavesStay'
  BY <1>3 DEF PowerLoss
<1>4. ASSUME UNCHANGED <<durable, acked>> PROVE AcknowledgedSavesStay'
  BY <1>4
<1>5. ASSUME NEW p \in Processes,
             \/ MakeDirectory(p) \/ Acquire(p) \/ Write(p) \/ Migrate(p) \/ Rollback(p)
             \/ Resolve(p) \/ Abandon(p)
      PROVE  AcknowledgedSavesStay'
  BY <1>4, <1>5 DEF MakeDirectory, Acquire, Write, Migrate, Rollback, Resolve, Build, Abandon
<1>6. ASSUME NEW m \in Machines, NEW n \in Machines, Arrive(m, n)
      PROVE  AcknowledgedSavesStay'
  BY <1>4, <1>6 DEF Arrive
<1>7. CASE UNCHANGED vars
  BY <1>4, <1>7 DEF vars
<1> QED
  BY <1>1, <1>2, <1>3, <1>5, <1>6, <1>7 DEF Next

(***************************************************************************)
(* The first generation is a chain of one.                                 *)
(***************************************************************************)
LEMMA ChainStarts ==
    ASSUME NEW g, g.sequence = 0, g.parents = {}
    PROVE  Chain({g}, {})
BY DEF Chain, Sequenced, Standing, Linear

(***************************************************************************)
(* While a slot is left alone it is a chain, and what the lock's holder    *)
(* planned under the lock still fits when it is linked.                    *)
(***************************************************************************)
LEMMA NextAloneOK ==
    ASSUME IInv, [Next]_vars
    PROVE  AloneOK'
<1> USE SlotsAssumption DEF IInv, stored, external
<1>1. ASSUME UNCHANGED <<files, durable, arrived>>,
             \A p \in Processes : /\ pc'[p] = "built" => pc[p] = "built"
                                  /\ pc'[p] = "built" => plan'[p] = plan[p]
      PROVE  AloneOK'
  BY <1>1 DEF AloneOK, PlanFits, Rooted
<1>2. ASSUME NEW p \in Processes,
             MakeDirectory(p) \/ Acquire(p) \/ Abandon(p)
      PROVE  AloneOK'
  <2>1. UNCHANGED <<files, durable, arrived>>
    BY <1>2 DEF MakeDirectory, Acquire, Abandon
  <2>2. \A q \in Processes : /\ pc'[q] = "built" => pc[q] = "built"
                             /\ pc'[q] = "built" => plan'[q] = plan[q]
    BY <1>2 DEF MakeDirectory, Acquire, Abandon, Goto, TypeOK
  <2> QED
    BY <1>1, <2>1, <2>2
<1>3. ASSUME NEW p \in Processes, NEW s, NEW T, NEW o, NEW v, Build(p, s, T, o, v),
             Home[p] \notin arrived => PlanFits(p)'
      PROVE  AloneOK'
  <2>1. UNCHANGED <<files, durable, arrived>>
    BY <1>3 DEF Build
  <2>2. \A m \in Machines \ arrived : /\ Chain(files[m], durable[m])'
                                      /\ (Cardinality(files[m]) <= MaxGenerations)'
                                      /\ Rooted(m)'
    BY <2>1 DEF AloneOK, Rooted
  <2>3. ASSUME NEW q \in Processes, q # p, pc'[q] = "built", Home[q] \notin arrived
        PROVE  PlanFits(q)'
    <3>1. pc[q] = "built" /\ plan'[q] = plan[q]
      BY <1>3, <2>3 DEF Build, Goto, TypeOK
    <3>2. PlanFits(q)
      BY <2>3, <3>1 DEF AloneOK
    <3> QED
      BY <2>1, <3>1, <3>2 DEF PlanFits
  <2> QED
    BY <1>3, <2>1, <2>2, <2>3 DEF AloneOK
<1>4. ASSUME NEW p \in Processes, Write(p) PROVE AloneOK'
  <2> DEFINE F == files[Home[p]]
  <2>1. PICK v \in Payloads :
           \/ F = {} /\ Build(p, 0, {}, "write", v)
           \/ \E t \in F : Tips(F) = {t} /\ Build(p, t.sequence + 1, {t}, "write", v)
    BY <1>4 DEF Write
  <2>2. F = {} => Legacy[Home[p]] = NoPayload
    BY <1>4 DEF Write
  <2>3. CASE F = {} /\ Build(p, 0, {}, "write", v)
    <3>1. PlanFits(p)'
      BY <2>2, <2>3 DEF PlanFits, Build, Capacity, TypeOK
    <3> QED
      BY <1>3, <2>3, <3>1
  <2>4. ASSUME NEW t \in F, Tips(F) = {t}, Build(p, t.sequence + 1, {t}, "write", v)
        PROVE  AloneOK'
    <3>1. PlanFits(p)'
      BY <2>4 DEF PlanFits, Build, Capacity, TypeOK
    <3> QED
      BY <1>3, <2>4, <3>1
  <2> QED
    BY <2>1, <2>3, <2>4
<1>5. ASSUME NEW p \in Processes, Migrate(p) PROVE AloneOK'
  <2>1. Build(p, 0, {}, "legacy_migration", Legacy[Home[p]]) /\ files[Home[p]] = {}
    BY <1>5 DEF Migrate
  <2>2. PlanFits(p)'
    BY <2>1 DEF PlanFits, Build, Capacity, TypeOK
  <2> QED
    BY <1>3, <2>1, <2>2
<1>6. ASSUME NEW p \in Processes, Rollback(p) PROVE AloneOK'
  <2> DEFINE F == files[Home[p]]
  <2>1. PICK t \in F, target \in F :
           Tips(F) = {t} /\ Build(p, t.sequence + 1, {t}, "rollback", target.payload)
    BY <1>6 DEF Rollback
  <2>2. PlanFits(p)'
    BY <2>1 DEF PlanFits, Build, Capacity, TypeOK
  <2> QED
    BY <1>3, <2>1, <2>2
<1>7. ASSUME NEW p \in Processes, Resolve(p) PROVE AloneOK'
  <2>1. PICK s, T, v : Build(p, s, T, "conflict_resolution", v)
    BY <1>7 DEF Resolve
  <2>2. Home[p] \in arrived
    <3>1. SUFFICES ASSUME Home[p] \notin arrived PROVE FALSE
      OBVIOUS
    <3>2. /\ Chain(files[Home[p]], durable[Home[p]])
          /\ IsFiniteSet(files[Home[p]])
          /\ Cardinality(files[Home[p]]) <= MaxGenerations
      BY <3>1 DEF AloneOK, FilesOK
    <3>3. ~Forked(Home[p])
      BY <3>2, ChainIsReadable DEF Forked
    <3> QED
      BY <1>7, <3>3 DEF Resolve
  <2> QED
    BY <1>3, <2>1, <2>2
<1>8. ASSUME NEW p \in Processes, Link(p) PROVE AloneOK'
  <2> DEFINE F == files[Home[p]]
  <2>1. /\ files' = [files EXCEPT ![Home[p]] = F \cup {plan[p]}]
        /\ durable' = [durable EXCEPT ![Home[p]] = F]
        /\ UNCHANGED <<arrived, plan, lock>>
        /\ pc[p] = "built" /\ pc' = [pc EXCEPT ![p] = "linked"]
        /\ DOMAIN files = Machines /\ DOMAIN durable = Machines /\ DOMAIN pc = Processes
        /\ IsFiniteSet(F) /\ Cardinality(F) \in Nat
    BY <1>8, FS_CardinalityType DEF Link, Goto, TypeOK, FilesOK
  <2>2. ASSUME Home[p] \notin arrived
        PROVE  /\ Chain(F \cup {plan[p]}, F)
               /\ Cardinality(F \cup {plan[p]}) <= MaxGenerations
               /\ Rooted(Home[p])'
    <3>1. PlanFits(p) /\ Chain(F, durable[Home[p]]) /\ Rooted(Home[p])
      BY <2>1, <2>2 DEF AloneOK
    <3>2. Cardinality(F \cup {plan[p]}) <= MaxGenerations
      <4>1. Cardinality(F \cup {plan[p]}) \in {Cardinality(F), Cardinality(F) + 1}
        BY <2>1, FS_AddElement
      <4>2. Cardinality(F) < MaxGenerations - 1
        BY <3>1 DEF PlanFits
      <4> QED
        BY <2>1, <4>1, <4>2
    <3>3. CASE F = {}
      <4>1. plan[p].sequence = 0 /\ plan[p].parents = {}
        BY <3>1, <3>3 DEF PlanFits
      <4>2. Chain({plan[p]}, {})
        BY <4>1, ChainStarts
      <4>3. Rooted(Home[p])'
        BY <2>1, <3>1, <3>3 DEF PlanFits, Rooted
      <4> QED
        BY <3>2, <3>3, <4>2, <4>3
    <3>4. CASE F # {}
      <4>1. PICK t \in F : /\ Tips(F) = {t}
                           /\ plan[p].parents = {t}
                           /\ plan[p].sequence = t.sequence + 1
        BY <3>1, <3>4 DEF PlanFits
      <4>2. Chain(F \cup {plan[p]}, F)
        BY <3>1, <4>1, ChainGrows
      <4>3. plan[p].sequence # 0
        BY <3>1, <4>1 DEF Chain, Sequenced
      <4>4. Rooted(Home[p])'
        BY <2>1, <3>1, <4>3 DEF Rooted
      <4> QED
        BY <3>2, <4>2, <4>4
    <3> QED
      BY <3>3, <3>4
  <2>3. ASSUME NEW m \in Machines \ arrived
        PROVE  /\ Chain(files[m], durable[m])'
               /\ (Cardinality(files[m]) <= MaxGenerations)'
               /\ Rooted(m)'
    <3>1. CASE m = Home[p]
      BY <2>1, <2>2, <3>1
    <3>2. CASE m # Home[p]
      BY <2>1, <3>2 DEF AloneOK, Rooted
    <3> QED
      BY <3>1, <3>2
  <2>4. ASSUME NEW q \in Processes, pc'[q] = "built", Home[q] \notin arrived
        PROVE  PlanFits(q)'
    <3>1. q # p /\ pc[q] = "built"
      BY <2>1, <2>4
    <3>2. Home[q] # Home[p]
      BY <2>1, <3>1 DEF LockOK
    <3>3. files'[Home[q]] = files[Home[q]] /\ plan'[q] = plan[q]
      BY <2>1, <3>2
    <3>4. PlanFits(q)
      BY <2>4, <3>1 DEF AloneOK
    <3> QED
      BY <3>3, <3>4 DEF PlanFits
  <2> QED
    BY <2>1, <2>3, <2>4 DEF AloneOK
<1>9. ASSUME NEW p \in Processes, Acknowledge(p) PROVE AloneOK'
  <2>1. /\ UNCHANGED <<files, arrived>>
        /\ durable' = [durable EXCEPT ![Home[p]] = files[Home[p]]]
        /\ DOMAIN durable = Machines
    BY <1>9 DEF Acknowledge, TypeOK
  <2>2. ASSUME NEW m \in Machines \ arrived
        PROVE  /\ Chain(files[m], durable[m])'
               /\ (Cardinality(files[m]) <= MaxGenerations)'
               /\ Rooted(m)'
    <3>1. Chain(files[m], durable[m])
      BY DEF AloneOK
    <3>2. Chain(files[m], files[m])
      BY <3>1, ChainSurvives DEF Chain
    <3>3. durable'[m] \in {durable[m], files[m]}
      BY <2>1
    <3>4. Chain(files[m], durable'[m])
      BY <3>1, <3>2, <3>3
    <3> QED
      BY <2>1, <3>4 DEF AloneOK, Rooted
  <2>3. ASSUME NEW q \in Processes, pc'[q] = "built", Home[q] \notin arrived
        PROVE  PlanFits(q)'
    <3>1. pc[q] = "built" /\ plan'[q] = plan[q]
      BY <1>9, <2>3 DEF Acknowledge, Goto, TypeOK
    <3>2. PlanFits(q)
      BY <2>3, <3>1 DEF AloneOK
    <3> QED
      BY <2>1, <3>1, <3>2 DEF PlanFits
  <2> QED
    BY <2>1, <2>2, <2>3 DEF AloneOK
<1>10. ASSUME NEW m \in Machines, NEW n \in Machines, Arrive(m, n) PROVE AloneOK'
  <2>1. /\ arrived' = arrived \cup {m}
        /\ UNCHANGED <<durable, lock, pc, plan>>
        /\ \A k \in Machines : k # m => files'[k] = files[k]
    BY <1>10 DEF Arrive, TypeOK
  <2> QED
    BY <2>1 DEF AloneOK, PlanFits, Rooted
<1>11. ASSUME NEW m \in Unpowered, PowerLoss(m) PROVE AloneOK'
  <2>1. PICK kept \in SUBSET (files[m] \ durable[m]) :
           files' = [files EXCEPT ![m] = durable[m] \cup kept]
    BY <1>11 DEF PowerLoss
  <2> DEFINE K == durable[m] \cup kept
  <2>2. /\ durable' = [durable EXCEPT ![m] = K]
        /\ UNCHANGED arrived
        /\ DOMAIN files = Machines /\ DOMAIN durable = Machines
        /\ durable[m] \subseteq K /\ K \subseteq files[m]
    BY <1>11, <2>1 DEF PowerLoss, TypeOK
  <2>3. ASSUME NEW k \in Machines \ arrived
        PROVE  /\ Chain(files[k], durable[k])'
               /\ (Cardinality(files[k]) <= MaxGenerations)'
               /\ Rooted(k)'
    <3>1. CASE k = m
      <4>1. Chain(K, K)
        BY <2>2, <3>1, ChainSurvives DEF AloneOK
      <4>2. Cardinality(K) <= MaxGenerations
        <5>1. /\ Cardinality(K) <= Cardinality(files[m])
              /\ IsFiniteSet(K)
              /\ IsFiniteSet(files[m])
          BY <2>2, FS_Subset DEF FilesOK
        <5>2. Cardinality(K) \in Nat /\ Cardinality(files[m]) \in Nat
          BY <5>1, FS_CardinalityType
        <5> QED
          BY <3>1, <5>1, <5>2 DEF AloneOK
      <4> QED
        BY <2>1, <2>2, <3>1, <4>1, <4>2 DEF AloneOK, Rooted
    <3>2. CASE k # m
      BY <2>1, <2>2, <3>2 DEF AloneOK, Rooted
    <3> QED
      BY <3>1, <3>2
  <2>4. ASSUME NEW q \in Processes, pc'[q] = "built", Home[q] \notin arrived
        PROVE  PlanFits(q)'
    <3>1. Home[q] # m /\ pc[q] = "built" /\ plan'[q] = plan[q]
      BY <1>11, <2>4 DEF PowerLoss
    <3>2. files'[Home[q]] = files[Home[q]] /\ PlanFits(q)
      BY <2>1, <2>2, <2>4, <3>1 DEF AloneOK
    <3> QED
      BY <3>1, <3>2 DEF PlanFits
  <2> QED
    BY <2>2, <2>3, <2>4 DEF AloneOK
<1>12. CASE UNCHANGED vars
  BY <1>1, <1>12 DEF vars
<1> QED
  BY <1>2, <1>4, <1>5, <1>6, <1>7, <1>8, <1>9, <1>10, <1>11, <1>12 DEF Next

(***************************************************************************)
(* The invariant holds in every reachable state.                           *)
(***************************************************************************)
LEMMA Invariance == Spec => []IInv
<1>1. IInv /\ [Next]_vars => IInv'
  BY NextTypeOK, NextLockOK, NextFilesOK, NextAcknowledged, NextAloneOK DEF IInv
<1> QED
  BY InitIInv, <1>1, PTL DEF Spec

(***************************************************************************)
(* Every state of the slot has its type.                                   *)
(***************************************************************************)
THEOREM TypeCorrect == Spec => []TypeOK
<1>1. IInv => TypeOK
  BY DEF IInv
<1> QED
  BY Invariance, <1>1, PTL

(***************************************************************************)
(* A save whose call returned survives every crash and power loss.         *)
(***************************************************************************)
THEOREM SavesStay == Spec => []AcknowledgedSavesStay
<1>1. IInv => AcknowledgedSavesStay
  BY DEF IInv
<1> QED
  BY Invariance, <1>1, PTL

(***************************************************************************)
(* A slot no foreign file reaches is never invalid and never forked.       *)
(***************************************************************************)
THEOREM StaysReadable == Spec => []AloneIsReadable
<1>1. IInv => AloneIsReadable
  <2> SUFFICES ASSUME IInv, NEW m \in Machines \ arrived, layout[m] # "slot"
               PROVE  ScanOK(m) /\ ~Forked(m)
    BY DEF AloneIsReadable
  <2>1. /\ Chain(files[m], durable[m])
        /\ IsFiniteSet(files[m])
        /\ Cardinality(files[m]) <= MaxGenerations
        /\ Rooted(m)
    BY DEF IInv, AloneOK, FilesOK
  <2>2. VerifyDag(files[m]) /\ ~Forked(m)
    BY <2>1, ChainIsReadable DEF Forked
  <2>3. Anchored(m, files[m])
    <3>1. SUFFICES ASSUME Legacy[m] # NoPayload, files[m] # {} PROVE Anchored(m, files[m])
      BY DEF Anchored
    <3> DEFINE R == {g \in files[m] : g.sequence = 0}
    <3>2. PICK g \in files[m] : TRUE
      BY <3>1
    <3>3. g.sequence \in Nat
      BY <2>1 DEF Chain, Sequenced
    <3>4. PICK r \in files[m] : r.sequence = 0
      <4>1. CASE g.sequence = 0
        BY <4>1
      <4>2. CASE g.sequence > 0
        BY <2>1, <4>2 DEF Chain, Standing
      <4> QED
        BY <3>3, <4>1, <4>2
    <3>5. R = {r}
      BY <2>1, <3>4 DEF Chain, Linear
    <3>6. Cardinality(R) = 1
      BY <3>5, FS_Singleton
    <3> QED
      BY <2>1, <3>1, <3>6 DEF Anchored, Rooted
  <2> QED
    BY <2>2, <2>3 DEF ScanOK
<1> QED
  BY Invariance, <1>1, PTL

(***************************************************************************)
(* The root of a migrated slot is the older document.                      *)
(***************************************************************************)
THEOREM MigrationIsFaithful == Spec => []MigrationKeepsDocument
<1>1. IInv => MigrationKeepsDocument
  BY DEF IInv, AloneOK, Rooted, MigrationKeepsDocument
<1> QED
  BY Invariance, <1>1, PTL

-----------------------------------------------------------------------------
(* The place kept for a resolution                                          *)

(* What is about to be linked has room; what takes the last place covers    *)
(* every tip.                                                               *)
PlanHasRoom(p) ==
    LET F == files[Home[p]]
    IN  /\ Cardinality(F) < MaxGenerations
        /\ Cardinality(F) = MaxGenerations - 1 => plan[p].parents = Tips(F)

RoomOK ==
    \A m \in Machines \ crowded :
        /\ Cardinality(files[m]) <= MaxGenerations
        /\ Forked(m) => Cardinality(files[m]) < MaxGenerations
        /\ \A p \in Processes : Home[p] = m /\ pc[p] = "built" => PlanHasRoom(p)

(***************************************************************************)
(* A generation above every tip leaves no fork.                            *)
(***************************************************************************)
LEMMA ResolutionJoins ==
    ASSUME NEW F, NEW g, g.parents = Tips(F)
    PROVE  ~(Cardinality(Tips(F \cup {g})) > 1)
<1>1. Tips(F \cup {g}) \subseteq {g}
  BY DEF Tips
<1>2. Tips(F \cup {g}) = {} \/ Tips(F \cup {g}) = {g}
  BY <1>1
<1> QED
  BY <1>2, FS_EmptySet, FS_Singleton

(***************************************************************************)
(* The processes between their scan and their link: the lock admits one.   *)
(***************************************************************************)
LEMMA BuildersCounted ==
    ASSUME LockOK, NEW p \in Processes, pc[p] = "built"
    PROVE  Cardinality({q \in Processes : Home[q] = Home[p] /\ pc[q] = "built"}) = 1
<1>1. {q \in Processes : Home[q] = Home[p] /\ pc[q] = "built"} = {p}
  BY DEF LockOK
<1> QED
  BY <1>1, FS_Singleton

(***************************************************************************)
(* Every step leaves the place.  An arrival may use it only where it marks *)
(* the machine as crowded; with room, it leaves one place to the call that *)
(* is about to link and one above it.                                      *)
(***************************************************************************)
LEMMA NextRoomOK ==
    ASSUME IInv, RoomOK, [Next]_vars
    PROVE  RoomOK'
<1> USE SlotsAssumption DEF IInv, stored, external
<1>a. \A m \in Machines : IsFiniteSet(files[m]) /\ Cardinality(files[m]) \in Nat
  BY FS_CardinalityType DEF FilesOK
<1>1. ASSUME UNCHANGED <<files, crowded>>,
             \A p \in Processes : /\ pc'[p] = "built" => pc[p] = "built"
                                  /\ pc'[p] = "built" => plan'[p] = plan[p]
      PROVE  RoomOK'
  BY <1>1 DEF RoomOK, PlanHasRoom, Forked
<1>2. ASSUME NEW p \in Processes,
             MakeDirectory(p) \/ Acquire(p) \/ Acknowledge(p) \/ Abandon(p)
      PROVE  RoomOK'
  <2>1. UNCHANGED <<files, crowded>>
    BY <1>2 DEF MakeDirectory, Acquire, Acknowledge, Abandon
  <2>2. \A q \in Processes : /\ pc'[q] = "built" => pc[q] = "built"
                             /\ pc'[q] = "built" => plan'[q] = plan[q]
    BY <1>2 DEF MakeDirectory, Acquire, Acknowledge, Abandon, Goto, TypeOK
  <2> QED
    BY <1>1, <2>1, <2>2
<1>3. ASSUME NEW p \in Processes, NEW s, NEW T, NEW o, NEW v, Build(p, s, T, o, v),
             o = "conflict_resolution" => T = Tips(files[Home[p]])
      PROVE  RoomOK'
  <2>1. UNCHANGED <<files, crowded>>
    BY <1>3 DEF Build
  <2>2. ASSUME NEW q \in Processes, pc'[q] = "built", Home[q] \notin crowded
        PROVE  PlanHasRoom(q)'
    <3>1. CASE q = p
      <4>1. plan'[p].parents = T
        BY <1>3 DEF Build, TypeOK
      <4>2. Cardinality(files[Home[p]]) \in Nat
        BY <1>a
      <4>3. CASE o = "conflict_resolution"
        BY <1>3, <2>1, <3>1, <4>1, <4>2, <4>3 DEF PlanHasRoom, Build, Capacity
      <4>4. CASE o # "conflict_resolution"
        BY <1>3, <2>1, <3>1, <4>2, <4>4 DEF PlanHasRoom, Build, Capacity
      <4> QED
        BY <4>3, <4>4
    <3>2. CASE q # p
      <4>1. pc[q] = "built" /\ plan'[q] = plan[q]
        BY <1>3, <2>2, <3>2 DEF Build, Goto, TypeOK
      <4>2. PlanHasRoom(q)
        BY <2>2, <4>1 DEF RoomOK
      <4> QED
        BY <2>1, <4>1, <4>2 DEF PlanHasRoom
    <3> QED
      BY <3>1, <3>2
  <2> QED
    BY <2>1, <2>2 DEF RoomOK, Forked
<1>4. ASSUME NEW p \in Processes, Write(p) \/ Migrate(p) \/ Rollback(p) \/ Resolve(p)
      PROVE  RoomOK'
  <2>1. ASSUME NEW s, NEW T, NEW o, NEW v, Build(p, s, T, o, v),
               o \in {"write", "legacy_migration", "rollback"}
        PROVE  RoomOK'
    BY <1>3, <2>1
  <2>2. CASE Write(p)
    BY <2>1, <2>2 DEF Write
  <2>3. CASE Migrate(p)
    BY <2>1, <2>3 DEF Migrate
  <2>4. CASE Rollback(p)
    BY <2>1, <2>4 DEF Rollback
  <2>5. CASE Resolve(p)
    <3>1. PICK s, v : Build(p, s, Tips(files[Home[p]]), "conflict_resolution", v)
      BY <2>5 DEF Resolve
    <3> QED
      BY <1>3, <3>1
  <2> QED
    BY <1>4, <2>2, <2>3, <2>4, <2>5
<1>5. ASSUME NEW p \in Processes, Link(p) PROVE RoomOK'
  <2> DEFINE F == files[Home[p]]
  <2>1. /\ files' = [files EXCEPT ![Home[p]] = F \cup {plan[p]}]
        /\ UNCHANGED <<crowded, plan>>
        /\ pc[p] = "built" /\ pc' = [pc EXCEPT ![p] = "linked"]
        /\ DOMAIN files = Machines /\ DOMAIN pc = Processes
    BY <1>5 DEF Link, Goto, TypeOK
  <2>2. ASSUME Home[p] \notin crowded
        PROVE  /\ Cardinality(F \cup {plan[p]}) <= MaxGenerations
               /\ Cardinality(Tips(F \cup {plan[p]})) > 1 =>
                     Cardinality(F \cup {plan[p]}) < MaxGenerations
    <3>1. PlanHasRoom(p)
      BY <2>1, <2>2 DEF RoomOK
    <3>2. /\ Cardinality(F \cup {plan[p]}) \in {Cardinality(F), Cardinality(F) + 1}
          /\ Cardinality(F) \in Nat
      BY <1>a, FS_AddElement
    <3>3. CASE Cardinality(F) = MaxGenerations - 1
      <4>1. ~(Cardinality(Tips(F \cup {plan[p]})) > 1)
        BY <3>1, <3>3, ResolutionJoins DEF PlanHasRoom
      <4> QED
        BY <3>2, <3>3, <4>1
    <3>4. CASE Cardinality(F) # MaxGenerations - 1
      BY <3>1, <3>2, <3>4 DEF PlanHasRoom
    <3> QED
      BY <3>3, <3>4
  <2>3. ASSUME NEW m \in Machines \ crowded
        PROVE  /\ (Cardinality(files[m]) <= MaxGenerations)'
               /\ (Forked(m) => Cardinality(files[m]) < MaxGenerations)'
    <3>1. CASE m = Home[p]
      BY <2>1, <2>2, <3>1 DEF Forked
    <3>2. CASE m # Home[p]
      BY <2>1, <3>2 DEF RoomOK, Forked
    <3> QED
      BY <3>1, <3>2
  <2>4. ASSUME NEW q \in Processes, pc'[q] = "built", Home[q] \notin crowded
        PROVE  PlanHasRoom(q)'
    <3>1. q # p /\ pc[q] = "built"
      BY <2>1, <2>4
    <3>2. Home[q] # Home[p]
      BY <2>1, <3>1 DEF LockOK
    <3>3. files'[Home[q]] = files[Home[q]] /\ plan'[q] = plan[q]
      BY <2>1, <3>2
    <3>4. PlanHasRoom(q)
      BY <2>4, <3>1 DEF RoomOK
    <3> QED
      BY <3>3, <3>4 DEF PlanHasRoom
  <2> QED
    BY <2>1, <2>3, <2>4 DEF RoomOK
<1>6. ASSUME NEW m \in Machines, NEW n \in Machines, Arrive(m, n) PROVE RoomOK'
  <2> DEFINE B == Cardinality({q \in Processes : Home[q] = m /\ pc[q] = "built"})
  <2>1. PICK g \in files[n] \ files[m] : files' = [files EXCEPT ![m] = @ \cup {g}]
    BY <1>6 DEF Arrive
  <2>2. /\ UNCHANGED <<pc, plan>>
        /\ m \notin crowded' => ~(Cardinality(files[m]) + B >= MaxGenerations - 1)
        /\ crowded \subseteq crowded'
        /\ DOMAIN files = Machines
    BY <1>6 DEF Arrive, TypeOK
  <2>3. Cardinality(files[m] \cup {g}) = Cardinality(files[m]) + 1
    BY <1>a, <2>1, FS_AddElement
  <2>4. ASSUME m \notin crowded', NEW q \in Processes, Home[q] = m, pc[q] = "built"
        PROVE  Cardinality(files[m]) + 1 < MaxGenerations - 1
    <3>1. B = 1
      BY <2>4, BuildersCounted
    <3>2. Cardinality(files[m]) \in Nat /\ ~(Cardinality(files[m]) + 1 >= MaxGenerations - 1)
      BY <1>a, <2>2, <2>4, <3>1
    <3> QED
      BY <3>2
  <2>5. ASSUME m \notin crowded'
        PROVE  Cardinality(files[m]) + 1 < MaxGenerations
    <3>1. CASE \E q \in Processes : Home[q] = m /\ pc[q] = "built"
      BY <1>a, <2>4, <2>5, <3>1
    <3>2. CASE ~\E q \in Processes : Home[q] = m /\ pc[q] = "built"
      <4>1. {q \in Processes : Home[q] = m /\ pc[q] = "built"} = {}
        BY <3>2
      <4>2. B = 0
        BY <4>1, FS_EmptySet
      <4>3. Cardinality(files[m]) \in Nat /\ ~(Cardinality(files[m]) + 0 >= MaxGenerations - 1)
        BY <1>a, <2>2, <2>5, <4>2
      <4> QED
        BY <4>3
    <3> QED
      BY <3>1, <3>2
  <2>6. ASSUME NEW k \in Machines \ crowded'
        PROVE  /\ (Cardinality(files[k]) <= MaxGenerations)'
               /\ (Forked(k) => Cardinality(files[k]) < MaxGenerations)'
    <3>1. CASE k = m
      <4>1. files'[k] = files[m] \cup {g}
        BY <2>1, <2>2, <3>1
      <4> QED
        BY <1>a, <2>3, <2>5, <3>1, <4>1
    <3>2. CASE k # m
      BY <2>1, <2>2, <3>2 DEF RoomOK, Forked
    <3> QED
      BY <3>1, <3>2
  <2>7. ASSUME NEW q \in Processes, pc'[q] = "built", Home[q] \notin crowded'
        PROVE  PlanHasRoom(q)'
    <3>1. CASE Home[q] = m
      <4>1. files'[Home[q]] = files[m] \cup {g}
        BY <2>1, <2>2, <3>1
      <4>2. Cardinality(files'[Home[q]]) < MaxGenerations - 1
        BY <2>2, <2>3, <2>4, <2>7, <3>1, <4>1
      <4>3. Cardinality(files'[Home[q]]) \in Nat
        BY <1>a, <2>3, <4>1
      <4> QED
        BY <4>2, <4>3 DEF PlanHasRoom
    <3>2. CASE Home[q] # m
      <4>1. files'[Home[q]] = files[Home[q]] /\ plan'[q] = plan[q]
        BY <2>1, <2>2, <3>2
      <4>2. PlanHasRoom(q)
        BY <2>2, <2>7 DEF RoomOK
      <4> QED
        BY <4>1, <4>2 DEF PlanHasRoom
    <3> QED
      BY <3>1, <3>2
  <2> QED
    BY <2>6, <2>7 DEF RoomOK
<1>7. ASSUME NEW m \in Unpowered, PowerLoss(m) PROVE RoomOK'
  <2>1. PICK kept \in SUBSET (files[m] \ durable[m]) :
           files' = [files EXCEPT ![m] = durable[m] \cup kept]
    BY <1>7 DEF PowerLoss
  <2> DEFINE K == durable[m] \cup kept
  <2>2. /\ UNCHANGED crowded
        /\ DOMAIN files = Machines
        /\ K \in SUBSET files[m]
        /\ m \in Machines
    BY <1>7, <2>1 DEF PowerLoss, TypeOK
  <2>3. /\ Cardinality(K) <= Cardinality(files[m])
        /\ Cardinality(files[m]) = Cardinality(K) => files[m] = K
        /\ Cardinality(K) \in Nat
    BY <1>a, <2>2, FS_Subset, FS_CardinalityType
  <2>4. ASSUME NEW k \in Machines \ crowded
        PROVE  /\ (Cardinality(files[k]) <= MaxGenerations)'
               /\ (Forked(k) => Cardinality(files[k]) < MaxGenerations)'
    <3>1. CASE k = m /\ K = files[m]
      BY <2>1, <2>2, <3>1 DEF RoomOK, Forked
    <3>2. CASE k = m /\ K # files[m]
      <4>1. Cardinality(K) < MaxGenerations
        BY <1>a, <2>2, <2>3, <3>2 DEF RoomOK
      <4>2. files'[k] = K
        BY <2>1, <2>2, <3>2
      <4> QED
        BY <2>3, <4>1, <4>2
    <3>3. CASE k # m
      BY <2>1, <2>2, <3>3 DEF RoomOK, Forked
    <3> QED
      BY <3>1, <3>2, <3>3
  <2>5. ASSUME NEW q \in Processes, pc'[q] = "built", Home[q] \notin crowded
        PROVE  PlanHasRoom(q)'
    <3>1. Home[q] # m /\ pc[q] = "built" /\ plan'[q] = plan[q]
      BY <1>7, <2>5 DEF PowerLoss
    <3>2. files'[Home[q]] = files[Home[q]] /\ PlanHasRoom(q)
      BY <2>1, <2>2, <2>5, <3>1 DEF RoomOK
    <3> QED
      BY <3>1, <3>2 DEF PlanHasRoom
  <2> QED
    BY <2>2, <2>4, <2>5 DEF RoomOK
<1>8. CASE UNCHANGED vars
  BY <1>1, <1>8 DEF vars
<1> QED
  BY <1>2, <1>4, <1>5, <1>6, <1>7, <1>8 DEF Next

(***************************************************************************)
(* A forked slot always has a place for the resolution that joins its      *)
(* tips, unless a foreign file came when ordinary calls had no room left:  *)
(* for any number of machines, writers and generations.                    *)
(***************************************************************************)
THEOREM ForkHasRoom == Spec => []ForkIsResolvable
<1>1. Init => RoomOK
  <2> SUFFICES ASSUME Init PROVE RoomOK
    OBVIOUS
  <2>1. \A m \in Machines : files[m] = {} /\ Tips(files[m]) = {}
    BY DEF Init, Tips
  <2>2. \A p \in Processes : pc[p] # "built"
    BY DEF Init
  <2>3. \A m \in Machines : Cardinality(files[m]) = 0 /\ ~Forked(m)
    BY <2>1, FS_EmptySet DEF Forked
  <2> QED
    BY <2>2, <2>3, SlotsAssumption DEF RoomOK
<1>2. IInv /\ RoomOK /\ [Next]_vars => RoomOK'
  BY NextRoomOK
<1>3. RoomOK => ForkIsResolvable
  BY DEF RoomOK, ForkIsResolvable
<1> QED
  BY Invariance, <1>1, <1>2, <1>3, PTL DEF Spec

=============================================================================
