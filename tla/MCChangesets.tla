---------------------------- MODULE MCChangesets ----------------------------
(***************************************************************************)
(* A changeset a with one operation of every kind, and a changeset b that  *)
(* replaces a file which exists from the start and one that a creates.     *)
(***************************************************************************)
EXTENDS Changesets, TLC

CONSTANTS a, b, p1, p2, p3

MCOrder == (a :> <<p1, p2, p3>>) @@ (b :> <<p2, p1>>)

MCKindOf ==
    (a :> ((p1 :> "replace") @@ (p2 :> "create") @@ (p3 :> "delete")))
      @@ (b :> ((p1 :> "replace") @@ (p2 :> "replace")))

=============================================================================
