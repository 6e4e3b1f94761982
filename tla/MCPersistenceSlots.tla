------------------------- MODULE MCPersistenceSlots -------------------------
(***************************************************************************)
(* A machine with two writers and an older one-file save, and a second     *)
(* machine with one writer and none.                                       *)
(***************************************************************************)
EXTENDS PersistenceSlots, TLC

CONSTANTS desk, laptop, p1, p2, p3, v1, v2

MCHome == (p1 :> desk) @@ (p2 :> desk) @@ (p3 :> laptop)

MCLegacy == (desk :> v1) @@ (laptop :> NoPayload)

(* The two writers on the desk run the same code. *)
MCSymmetry == Permutations({p1, p2})

=============================================================================
