--------------------------- MODULE LeaseContract ---------------------------
(***************************************************************************)
(* What the generation queue promises about a job, whoever works on it: it *)
(* waits, it is in the hands of one holder at a time, each time it is      *)
(* handed out costs one of its tries, and once it is over it stays over,   *)
(* with its result delivered or not at all.                                *)
(***************************************************************************)
EXTENDS Naturals

CONSTANTS Jobs, MaxTries

VARIABLES
    state,     \* state[j]: where j is
    tries,     \* tries[j]: how often j has been handed out
    delivered  \* delivered[j]: whether j's result has been delivered

cvars == <<state, tries, delivered>>

States == {"absent", "waiting", "held", "over"}

CInit ==
    /\ state     = [j \in Jobs |-> "absent"]
    /\ tries     = [j \in Jobs |-> 0]
    /\ delivered = [j \in Jobs |-> FALSE]

\* One job's part in a step, from before to after.
Offer(s, t)  == s = "absent"  /\ t = "waiting"
Take(s, t)   == s = "waiting" /\ t = "held"
Return(s, t) == s = "held"    /\ t = "waiting"
Finish(s, t) == s \in {"waiting", "held"} /\ t = "over"

JobStep(j) ==
    \/ /\ \/ Offer(state[j], state'[j])
          \/ Return(state[j], state'[j]) /\ tries[j] < MaxTries
          \/ Finish(state[j], state'[j])
       /\ tries'[j] = tries[j]
       /\ delivered'[j] => state[j] = "held" /\ state'[j] = "over"
    \/ /\ Take(state[j], state'[j])
       /\ tries[j] < MaxTries
       /\ tries'[j] = tries[j] + 1
       /\ ~delivered'[j]
    \/ <<state'[j], tries'[j], delivered'[j]>> = <<state[j], tries[j], delivered[j]>>

\* Several jobs may move at once: the reaper takes back every job it finds.
CNext ==
    /\ state'     \in [Jobs -> States]
    /\ tries'     \in [Jobs -> Nat]
    /\ delivered' \in [Jobs -> BOOLEAN]
    /\ \A j \in Jobs : JobStep(j)

CSpec == CInit /\ [][CNext]_cvars
=============================================================================
