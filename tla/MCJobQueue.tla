----------------------------- MODULE MCJobQueue -----------------------------
(***************************************************************************)
(* Instances of JobQueue for TLC.                                          *)
(***************************************************************************)
EXTENDS JobQueue, TLC

\* Two nodes of one runtime: either may lease any job.
SameFleet == [w \in Workers |-> Jobs]

\* One node runs every workflow, the other only the newest job's.
MixedFleet ==
    LET general == CHOOSE w \in Workers : TRUE
        newest  == {j \in Jobs : \A k \in Jobs : k <= j}
    IN  [w \in Workers |-> IF w = general THEN Jobs ELSE newest]

\* Workers that serve the same jobs, and cancel requests, are interchangeable.
Symmetric == Permutations(Workers) \cup Permutations(Requests)
=============================================================================
