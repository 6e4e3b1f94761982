---------------------------- MODULE MCStudioJobs ----------------------------
(***************************************************************************)
(* Small instances of StudioJobs: external jobs x1 and x2 compete for one  *)
(* destination with different sources, m1 is a read-only job, old a legacy *)
(* row.  A .cfg picks the jobs and the operation of the destination (all   *)
(* jobs of one target grant have its operation).                           *)
(***************************************************************************)
EXTENDS StudioJobs

CONSTANTS x1, x2, m1, old, s1, s2, t1

MCKind == [j \in Jobs |-> IF j = m1 THEN "managed"
                          ELSE IF j = old THEN "legacy" ELSE "external"]
MCSource == [j \in Jobs |-> IF j = x2 THEN s2 ELSE s1]
MCTarget == [j \in Jobs |-> t1]

Materialize == [j \in Jobs |-> "game.materialize"]
Extract     == [j \in Jobs |-> "game.package.extract"]
Package     == [j \in Jobs |-> "game.package"]
=============================================================================
