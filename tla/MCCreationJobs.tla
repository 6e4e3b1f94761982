--------------------------- MODULE MCCreationJobs ---------------------------
(***************************************************************************)
(* Small instances of CreationJobs: m1 and m2 publish games to one         *)
(* destination, c1 and c2 publish nothing.                                 *)
(***************************************************************************)
EXTENDS CreationJobs

CONSTANTS m1, m2, c1, c2, g1

MCGrantOf == [j \in Publishing |-> g1]
=============================================================================
