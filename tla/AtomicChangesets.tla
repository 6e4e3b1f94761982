-------------------------- MODULE AtomicChangesets --------------------------
(***************************************************************************)
(* What Studio promises of a changeset (docs/decisions/0011 and 0015): its *)
(* operations reach the world's source files together or not at all, only  *)
(* when it was approved, and only on top of the very files it was reviewed *)
(* against.  There are no journals, no temporary files and no crashes      *)
(* here; Changesets implements this specification.                         *)
(***************************************************************************)
CONSTANTS
    Changesets,   \* changeset identifiers
    Paths,        \* source paths of one world
    Contents,     \* what a path may hold
    Proposal      \* Proposal[c]: a function from the paths of c's operations
                  \* to what c leaves there

VARIABLES
    world,    \* world[p]: what is at path p
    verdict,  \* verdict[c]: none, staged, approved, rejected, applied
    base,     \* base[c]: the content c was reviewed against
    edited    \* paths somebody has edited outside Studio

vars == <<world, verdict, base, edited>>

Init ==
    /\ world \in [Paths -> Contents]
    /\ verdict = [c \in Changesets |-> "none"]
    /\ base = [c \in Changesets |-> world]
    /\ edited = {}

(* A review starts from whatever somebody saw. *)
Stage(c) ==
    /\ verdict[c] = "none"
    /\ verdict' = [verdict EXCEPT ![c] = "staged"]
    /\ \E b \in [Paths -> Contents] : base' = [base EXCEPT ![c] = b]
    /\ UNCHANGED <<world, edited>>

Approve(c) ==
    /\ verdict[c] = "staged"
    /\ verdict' = [verdict EXCEPT ![c] = "approved"]
    /\ UNCHANGED <<world, base, edited>>

Reject(c) ==
    /\ verdict[c] \in {"staged", "approved"}
    /\ verdict' = [verdict EXCEPT ![c] = "rejected"]
    /\ UNCHANGED <<world, base, edited>>

(* All operations at once, each on its reviewed base. *)
Apply(c) ==
    /\ verdict[c] = "approved"
    /\ \A p \in DOMAIN Proposal[c] : world[p] = base[c][p]
    /\ verdict' = [verdict EXCEPT ![c] = "applied"]
    /\ world' = [p \in Paths |-> IF p \in DOMAIN Proposal[c] THEN Proposal[c][p] ELSE world[p]]
    /\ UNCHANGED <<base, edited>>

Edit(p) ==
    /\ p \notin edited
    /\ edited' = edited \cup {p}
    /\ \E x \in Contents : world' = [world EXCEPT ![p] = x]
    /\ UNCHANGED <<verdict, base>>

Next ==
    \/ \E c \in Changesets : Stage(c) \/ Approve(c) \/ Reject(c) \/ Apply(c)
    \/ \E p \in Paths : Edit(p)

Spec == Init /\ [][Next]_vars

=============================================================================
