--------------------------- MODULE MCWorkerRunner ---------------------------
(***************************************************************************)
(* Instances of WorkerRunner for TLC.                                      *)
(***************************************************************************)
EXTENDS WorkerRunner

SameFleet == [w \in Workers |-> Jobs]

\* The runner's own report, then two of the adapter's.
TwoStages == <<[status |-> "preparing",  progress |-> 0],
               [status |-> "generating", progress |-> 1]>>
=============================================================================
