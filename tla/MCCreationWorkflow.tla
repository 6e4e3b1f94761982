------------------------- MODULE MCCreationWorkflow -------------------------
(***************************************************************************)
(* Small instances of CreationWorkflow: two snapshots of the project, two  *)
(* versions of an artifact built from the first and one from the second.   *)
(***************************************************************************)
EXTENDS CreationWorkflow, TLC

CONSTANTS s1, s2, b1, b2, b3

MCBuildsOf == [s \in Snapshots |-> IF s = s1 THEN {b1, b2} ELSE {b3}]

MCSymmetry == Permutations({b1, b2})
=============================================================================
