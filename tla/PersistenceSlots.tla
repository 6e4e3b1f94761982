-------------------------- MODULE PersistenceSlots --------------------------
(***************************************************************************)
(* One logical save slot of a game (gamepack_runtime/                      *)
(* persistence_generation.py over persistence_io.py): an append-only       *)
(* directory of immutable generation files, written by cooperating         *)
(* processes under an advisory file lock, read without it.                 *)
(*                                                                         *)
(* The slot exists on several machines.  What carries generation files     *)
(* from one to another (a synchronised folder, a copy by hand) is not part *)
(* of the program: Arrive stands for it.                                   *)
(*                                                                         *)
(* A generation is named by the hash of its content, which embeds the      *)
(* hashes of its parents.  Here a generation is that content, with its     *)
(* parents in place of their hashes: equal content is the same file.       *)
(***************************************************************************)
EXTENDS Naturals, FiniteSets

CONSTANTS
    Machines,        \* where the slot is stored
    Processes,       \* processes that write the slot
    Home,            \* Home[p]: the machine p runs on
    NoProcess,       \* a lock nobody holds
    Payloads,        \* save documents
    NoPayload,       \* no legacy document
    Legacy,          \* Legacy[m]: document of the older one-file format on m
    MaxGenerations,  \* MAX_PERSISTENCE_GENERATIONS
    Unpowered,       \* machines that may lose power
    MaxArrivals      \* bound on the files carried between machines

ASSUME SlotsAssumption ==
    /\ Home \in [Processes -> Machines]
    /\ NoProcess \notin Processes
    /\ NoPayload \notin Payloads
    /\ Legacy \in [Machines -> Payloads \cup {NoPayload}]
    /\ MaxGenerations \in Nat \ {0}
    /\ Unpowered \subseteq Machines
    /\ MaxArrivals \in Nat

VARIABLES
    files,     \* files[m]: generations visible in the slot on m
    durable,   \* durable[m]: those a power loss cannot take back
    layout,    \* layout[m]: directories of the slot: "none", "slot", "v1"
    lock,      \* lock[m]: the process that holds v1/.write.lock
    pc,        \* pc[p]: where p's call stands
    plan,      \* plan[p]: the generation p publishes
    acked,     \* acked[m]: generations whose call returned to its caller
    arrivals,  \* number of files carried so far
    arrived,   \* machines some foreign generation reached
    crowded    \* machines one reached with no room left for a resolution

vars == <<files, durable, layout, lock, pc, plan, acked, arrivals, arrived, crowded>>

-----------------------------------------------------------------------------
(* Generations and what a scan of the slot finds                            *)

Operations == {"write", "legacy_migration", "rollback", "conflict_resolution"}

NoGeneration == [sequence |-> 0, parents |-> {}, operation |-> "none", payload |-> NoPayload]

(* The generations in F that none of F names as a parent *)
Tips(F) == {g \in F : \A h \in F : g \notin h.parents}

(* _verify_dag: nothing is missing and sequences count the steps from the root. *)
VerifyDag(F) ==
    /\ Cardinality(F) <= MaxGenerations
    /\ \A g \in F :
          /\ g.parents \subseteq F
          /\ g.parents = {} => g.sequence = 0
          /\ g.parents # {} => /\ \E h \in g.parents : g.sequence = h.sequence + 1
                               /\ \A h \in g.parents : g.sequence > h.sequence

(* While the older file is there too, the only root is its migration. *)
Anchored(m, F) ==
    \/ Legacy[m] = NoPayload
    \/ F = {}
    \/ /\ Cardinality({g \in F : g.sequence = 0}) = 1
       /\ \A g \in F : g.sequence = 0 => /\ g.operation = "legacy_migration"
                                         /\ g.payload = Legacy[m]

(* _scan_slot succeeds.  A slot directory without its v1 is refused. *)
ScanOK(m) ==
    /\ layout[m] # "slot"
    /\ VerifyDag(files[m])
    /\ Anchored(m, files[m])

Forked(m) == Cardinality(Tips(files[m])) > 1

(* _ensure_publication_capacity: the last place is kept for a resolution. *)
Capacity(m, operation) ==
    Cardinality(files[m]) <
        IF operation = "conflict_resolution" THEN MaxGenerations ELSE MaxGenerations - 1

Steps == {"idle", "locked", "built", "linked"}

(* The rules of _validate_operation, which join sequence, operation and     *)
(* number of parents.  Bounds on parents, depth and bytes are left out.     *)
Generation(g) ==
    /\ g.sequence \in Nat
    /\ g.operation \in Operations
    /\ g.payload \in Payloads
    /\ g.parents = {} <=> g.sequence = 0
    /\ g.operation = "legacy_migration" => g.sequence = 0
    /\ g.operation = "rollback" => g.sequence > 0
    /\ g.operation = "conflict_resolution" => /\ g.sequence > 0
                                              /\ \E h, k \in g.parents : h # k
    /\ g.operation \in {"write", "rollback"} => \A h, k \in g.parents : h = k

TypeOK ==
    /\ DOMAIN files = Machines
    /\ \A m \in Machines : \A g \in files[m] : Generation(g)
    /\ DOMAIN durable = Machines
    /\ \A m \in Machines : durable[m] \subseteq files[m]
    /\ layout \in [Machines -> {"none", "slot", "v1"}]
    /\ lock \in [Machines -> Processes \cup {NoProcess}]
    /\ pc \in [Processes -> Steps]
    /\ DOMAIN plan = Processes
    /\ \A p \in Processes :
          IF pc[p] \in {"built", "linked"} THEN Generation(plan[p])
                                                     ELSE plan[p] = NoGeneration
    /\ DOMAIN acked = Machines
    /\ arrivals \in 0..MaxArrivals
    /\ arrived \subseteq Machines
    /\ crowded \subseteq arrived

Init ==
    /\ files = [m \in Machines |-> {}]
    /\ durable = [m \in Machines |-> {}]
    /\ layout = [m \in Machines |-> "none"]
    /\ lock = [m \in Machines |-> NoProcess]
    /\ pc = [p \in Processes |-> "idle"]
    /\ plan = [p \in Processes |-> NoGeneration]
    /\ acked = [m \in Machines |-> {}]
    /\ arrivals = 0
    /\ arrived = {}
    /\ crowded = {}

-----------------------------------------------------------------------------
(* A call of write_, migrate_legacy_, resolve_ or rollback_game_save_slot   *)

Goto(p, step) == pc' = [pc EXCEPT ![p] = step]

external == <<arrivals, arrived, crowded>>
stored   == <<files, durable>>

(* A call starts with held_persistence_lock, which creates the directories  *)
(* above the lock file one by one before it locks anything.                 *)
MakeDirectory(p) ==
    /\ pc[p] = "idle"
    /\ layout[Home[p]] # "v1"
    /\ layout' = [layout EXCEPT ![Home[p]] = IF @ = "none" THEN "slot" ELSE "v1"]
    /\ UNCHANGED <<stored, lock, pc, plan, acked, external>>

Acquire(p) ==
    /\ pc[p] = "idle"
    /\ layout[Home[p]] = "v1"
    /\ lock[Home[p]] = NoProcess
    /\ lock' = [lock EXCEPT ![Home[p]] = p]
    /\ Goto(p, "locked")
    /\ UNCHANGED <<stored, layout, plan, acked, external>>

(* Under the lock: scan, check the capacity and build the generation. *)
Build(p, sequence, parents, operation, payload) ==
    /\ pc[p] = "locked"
    /\ ScanOK(Home[p])
    /\ Capacity(Home[p], operation)
    /\ plan' = [plan EXCEPT ![p] = [sequence |-> sequence, parents |-> parents,
                                    operation |-> operation, payload |-> payload]]
    /\ Goto(p, "built")
    /\ UNCHANGED <<stored, layout, lock, acked, external>>

(* Mutant: the older document is ignored. *)
WriteOverLegacy(p) ==
    LET F == files[Home[p]]
    IN  \E v \in Payloads :
           \/ F = {} /\ Build(p, 0, {}, "write", v)
           \/ \E t \in F : Tips(F) = {t} /\ Build(p, t.sequence + 1, {t}, "write", v)

(* _write_slot *)
Write(p) ==
    LET F == files[Home[p]]
    IN  /\ F = {} => Legacy[Home[p]] = NoPayload
        /\ \E v \in Payloads :
              \/ F = {} /\ Build(p, 0, {}, "write", v)
              \/ \E t \in F : /\ Tips(F) = {t}
                              /\ Build(p, t.sequence + 1, {t}, "write", v)

(* _migrate_legacy_slot *)
Migrate(p) ==
    /\ files[Home[p]] = {}
    /\ Legacy[Home[p]] # NoPayload
    /\ Build(p, 0, {}, "legacy_migration", Legacy[Home[p]])

(* _rollback_slot: the payload of an earlier generation, appended *)
Rollback(p) ==
    LET F == files[Home[p]]
    IN  \E t, target \in F : /\ Tips(F) = {t}
                             /\ Build(p, t.sequence + 1, {t}, "rollback", target.payload)

(* Mutant: a resolution stands as high as the newest tip. *)
ResolveAtSameHeight(p) ==
    LET T == Tips(files[Home[p]])
    IN  /\ Forked(Home[p])
        /\ \E newest \in T, v \in Payloads :
              /\ \A t \in T : t.sequence <= newest.sequence
              /\ Build(p, newest.sequence, T, "conflict_resolution", v)

(* Mutant: a resolution stands above the newest tip only. *)
ResolveNewestOnly(p) ==
    LET T == Tips(files[Home[p]])
    IN  /\ Forked(Home[p])
        /\ \E newest \in T, v \in Payloads :
              /\ \A t \in T : t.sequence <= newest.sequence
              /\ Build(p, newest.sequence + 1, {newest}, "conflict_resolution", v)

(* _resolve_slot_conflict: one generation above every tip *)
Resolve(p) ==
    LET T == Tips(files[Home[p]])
    IN  /\ Forked(Home[p])
        /\ \E newest \in T, v \in Payloads :
              /\ \A t \in T : t.sequence <= newest.sequence
              /\ Build(p, newest.sequence + 1, T, "conflict_resolution", v)

(* Mutant: the directory is not flushed before the new entry is made. *)
LinkUnflushed(p) ==
    /\ pc[p] = "built"
    /\ files' = [files EXCEPT ![Home[p]] = @ \cup {plan[p]}]
    /\ Goto(p, "linked")
    /\ UNCHANGED <<durable, layout, lock, plan, acked, external>>

(* publish_json_noreplace: the directory is flushed when it is opened, then *)
(* the written and flushed file gets its name.  A file of that name already *)
(* holds the same bytes and stays.                                          *)
Link(p) ==
    /\ pc[p] = "built"
    /\ durable' = [durable EXCEPT ![Home[p]] = files[Home[p]]]
    /\ files' = [files EXCEPT ![Home[p]] = @ \cup {plan[p]}]
    /\ Goto(p, "linked")
    /\ UNCHANGED <<layout, lock, plan, acked, external>>

(* Mutant: the call returns before the entry is flushed. *)
AcknowledgeUnflushed(p) ==
    /\ pc[p] = "linked"
    /\ ScanOK(Home[p])
    /\ acked' = [acked EXCEPT ![Home[p]] = @ \cup {plan[p]}]
    /\ lock' = [lock EXCEPT ![Home[p]] = NoProcess]
    /\ plan' = [plan EXCEPT ![p] = NoGeneration]
    /\ Goto(p, "idle")
    /\ UNCHANGED <<files, durable, layout, external>>

(* _complete_publication_durability flushes the directory, _publish scans   *)
(* again and finds the generation, and the call returns.                    *)
Acknowledge(p) ==
    /\ pc[p] = "linked"
    /\ ScanOK(Home[p])
    /\ plan[p] \in files[Home[p]]
    /\ durable' = [durable EXCEPT ![Home[p]] = files[Home[p]]]
    /\ acked' = [acked EXCEPT ![Home[p]] = @ \cup {plan[p]}]
    /\ lock' = [lock EXCEPT ![Home[p]] = NoProcess]
    /\ plan' = [plan EXCEPT ![p] = NoGeneration]
    /\ Goto(p, "idle")
    /\ UNCHANGED <<files, layout, external>>

(* The call raises (a refused operation, an I/O error, a second scan that   *)
(* fails) or its process dies.  Either way the lock is released and what    *)
(* was linked stays.                                                        *)
Abandon(p) ==
    /\ pc[p] # "idle"
    /\ lock' = IF lock[Home[p]] = p THEN [lock EXCEPT ![Home[p]] = NoProcess] ELSE lock
    /\ plan' = [plan EXCEPT ![p] = NoGeneration]
    /\ Goto(p, "idle")
    /\ UNCHANGED <<stored, layout, acked, external>>

-----------------------------------------------------------------------------
(* The environment                                                          *)

(* A generation file of machine n turns up on m, in no particular order. *)
Arrive(m, n) ==
    /\ arrivals < MaxArrivals
    /\ \E g \in files[n] \ files[m] :
          files' = [files EXCEPT ![m] = @ \cup {g}]
    /\ layout' = [layout EXCEPT ![m] = "v1"]
    /\ arrivals' = arrivals + 1
    /\ arrived' = arrived \cup {m}
    /\ crowded' = IF Cardinality(files[m])
                       + Cardinality({p \in Processes : Home[p] = m /\ pc[p] = "built"})
                     >= MaxGenerations - 1
                  THEN crowded \cup {m} ELSE crowded
    /\ UNCHANGED <<durable, lock, pc, plan, acked>>

(* The machine stops at once.  Which of the entries nobody flushed are      *)
(* there afterwards is up to the file system.                               *)
PowerLoss(m) ==
    /\ \E kept \in SUBSET (files[m] \ durable[m]) :
          files' = [files EXCEPT ![m] = durable[m] \cup kept]
    /\ durable' = [durable EXCEPT ![m] = files'[m]]
    /\ lock' = [lock EXCEPT ![m] = NoProcess]
    /\ pc' = [p \in Processes |-> IF Home[p] = m THEN "idle" ELSE pc[p]]
    /\ plan' = [p \in Processes |-> IF Home[p] = m THEN NoGeneration ELSE plan[p]]
    /\ UNCHANGED <<layout, acked, external>>

Next ==
    \/ \E p \in Processes :
          \/ MakeDirectory(p) \/ Acquire(p)
          \/ Write(p) \/ Migrate(p) \/ Rollback(p) \/ Resolve(p)
          \/ Link(p) \/ Acknowledge(p) \/ Abandon(p)
    \/ \E m, n \in Machines : Arrive(m, n)
    \/ \E m \in Unpowered : PowerLoss(m)

Spec == Init /\ [][Next]_vars

-----------------------------------------------------------------------------
(* Properties                                                               *)

(***************************************************************************)
(* A save whose call returned is still in the slot, whatever processes die *)
(* and whenever the machine loses power.                                   *)
(***************************************************************************)
AcknowledgedSavesStay == \A m \in Machines : acked[m] \subseteq durable[m]

(***************************************************************************)
(* As long as no foreign file reaches the slot, its own writers leave it   *)
(* readable: they are serialised, a writer that died left at most a        *)
(* complete newest generation, and a power loss takes only the newest.     *)
(* The one exception is a slot directory nobody has completed yet.         *)
(***************************************************************************)
AloneIsReadable ==
    \A m \in Machines \ arrived :
        layout[m] # "slot" => ScanOK(m) /\ ~Forked(m)

(***************************************************************************)
(* A fork can be resolved: writers, which check the room before the file   *)
(* that makes the fork arrives, and resolutions, which must cover every    *)
(* tip, leave the place the resolution needs, unless the foreign file came *)
(* when ordinary operations had no room left.                              *)
(***************************************************************************)
ForkIsResolvable ==
    \A m \in Machines \ crowded :
        Forked(m) => Cardinality(files[m]) < MaxGenerations

(***************************************************************************)
(* Once the older one-file save has been migrated, nothing but a later     *)
(* save changes what the slot reads as: generation zero is that document.  *)
(***************************************************************************)
MigrationKeepsDocument ==
    \A m \in Machines \ arrived :
        Legacy[m] # NoPayload =>
            \A g \in files[m] : g.sequence = 0 => g.payload = Legacy[m]

=============================================================================
