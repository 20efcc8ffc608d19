--------------------------- MODULE MCEventStream ---------------------------
(***************************************************************************)
(* Instances of EventStream for TLC: one job, watched by every page.       *)
(***************************************************************************)
EXTENDS EventStream

AllServe == [w \in Workers |-> Jobs]
AllWatch == [v \in Watchers |-> CHOOSE j \in Jobs : TRUE]
=============================================================================
