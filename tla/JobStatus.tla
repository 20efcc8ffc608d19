----------------------------- MODULE JobStatus -----------------------------
(***************************************************************************)
(* The lifecycle of a generation job: the statuses a row may carry, the    *)
(* order the working ones come in and which moves a worker may report.     *)
(* Translated from apps/api/app/core/enums.py.                             *)
(***************************************************************************)
EXTENDS Naturals

\* JobStatus, by what the code tells apart: the statuses of _PROGRESSION a
\* leased job goes through, and the three it never leaves.
Working  == {"assigned", "preparing", "generating", "post_processing", "uploading"}
Terminal == {"completed", "failed", "cancelled"}
Status   == {"queued"} \cup Working \cup Terminal

\* A job id no row exists for yet.
Absent == "absent"

\* _RANK: the place of a status in _PROGRESSION; -1 there, 0 here, for a
\* status that has none.
Rank(s) == CASE s = "queued"          -> 1
             [] s = "assigned"        -> 2
             [] s = "preparing"       -> 3
             [] s = "generating"      -> 4
             [] s = "post_processing" -> 5
             [] s = "uploading"       -> 6
             [] OTHER                 -> 0

IsTerminal(s) == s \in Terminal

\* can_transition: staying is a move, nothing leaves a terminal status, every
\* live status may become terminal, and otherwise only forward.
CanTransition(current, target) ==
    \/ current = target
    \/ /\ ~IsTerminal(current)
       /\ IsTerminal(target) \/ Rank(target) > Rank(current)

=============================================================================
