--------------------------- MODULE ArtifactLeases ---------------------------
(***************************************************************************)
(* What Studio promises of an external artifact job                        *)
(* (docs/decisions/0022-studio-external-artifact-jobs.md): a destination   *)
(* is leased to one job at a time, only its holder writes there, nothing   *)
(* visible is ever replaced, and the lease ends either with the holder's   *)
(* own artifact in place or with nothing of the holder left.  There are no *)
(* rows, threads, workers or restarts here; StudioJobs implements this     *)
(* specification.                                                          *)
(***************************************************************************)
CONSTANTS
    Jobs,           \* jobs that publish an artifact
    Destinations,
    DestinationOf,  \* DestinationOf[j]: where j publishes
    ArtifactOf,     \* ArtifactOf[j]: the bytes j publishes
    Nobody,         \* no holder
    Nothing,        \* no bytes
    Strange         \* bytes of somebody outside Studio

VARIABLES
    holder,   \* holder[d]: the job d is leased to
    bytes,    \* bytes[d]: what is visible at d
    residue,  \* destinations beside which unfinished work lies
    verdict   \* verdict[j]: none, open, published, withdrawn

vars == <<holder, bytes, residue, verdict>>

Init ==
    /\ holder = [d \in Destinations |-> Nobody]
    /\ bytes = [d \in Destinations |-> Nothing]
    /\ residue = {}
    /\ verdict = [j \in Jobs |-> "none"]

(* Nothing of any job is left at d. *)
Vacant(d) == d \notin residue /\ bytes[d] \in {Nothing, Strange}

Holds(j) == verdict[j] = "open" /\ holder[DestinationOf[j]] = j

Lease(j) ==
    /\ verdict[j] = "none"
    /\ holder[DestinationOf[j]] = Nobody
    /\ Vacant(DestinationOf[j])
    /\ holder' = [holder EXCEPT ![DestinationOf[j]] = j]
    /\ verdict' = [verdict EXCEPT ![j] = "open"]
    /\ UNCHANGED <<bytes, residue>>

(* The holder works: it may show its artifact where nothing is visible.     *)
Work(j) ==
    /\ Holds(j)
    /\ residue' \in {residue \cup {DestinationOf[j]}, residue \ {DestinationOf[j]}}
    /\ \/ UNCHANGED bytes
       \/ /\ bytes[DestinationOf[j]] = Nothing
          /\ bytes' = [bytes EXCEPT ![DestinationOf[j]] = ArtifactOf[j]]
    /\ UNCHANGED <<holder, verdict>>

(* Success: the destination is the holder's for good, and complete.         *)
Publish(j) ==
    /\ Holds(j)
    /\ bytes[DestinationOf[j]] \in {Nothing, ArtifactOf[j]}
    /\ bytes' = [bytes EXCEPT ![DestinationOf[j]] = ArtifactOf[j]]
    /\ residue' = residue \ {DestinationOf[j]}
    /\ verdict' = [verdict EXCEPT ![j] = "published"]
    /\ UNCHANGED holder

(* Failure or cancellation: the unfinished work goes with the lease.        *)
Withdraw(j) ==
    /\ Holds(j)
    /\ bytes[DestinationOf[j]] \in {Nothing, Strange}
    /\ residue' = residue \ {DestinationOf[j]}
    /\ holder' = [holder EXCEPT ![DestinationOf[j]] = Nobody]
    /\ verdict' = [verdict EXCEPT ![j] = "withdrawn"]
    /\ UNCHANGED bytes

(* Somebody else takes the name. *)
Appear(d) ==
    /\ bytes[d] = Nothing
    /\ bytes' = [bytes EXCEPT ![d] = Strange]
    /\ UNCHANGED <<holder, residue, verdict>>

Next ==
    \/ \E j \in Jobs : Lease(j) \/ Work(j) \/ Publish(j) \/ Withdraw(j)
    \/ \E d \in Destinations : Appear(d)

Spec == Init /\ [][Next]_vars

=============================================================================
