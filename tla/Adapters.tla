------------------------------- MODULE Adapters --------------------------------
(***************************************************************************)
(* What a worker runs a claimed job with: the video adapter, which lets    *)
(* Director plan a directed job before it renders anything, or the music   *)
(* adapter.  A worker runs one at a time here; two jobs share nothing but  *)
(* the machine.                                                            *)
(***************************************************************************)
EXTENDS Director, VideoRender, MusicRender

adapterVars == <<directorVars, videoVars, musicVars>>

\* get_adapter: the job's workflow decides.
AdaptersInit ==
    /\ DirectorIdle
    /\ \/ VideoInit /\ MusicIdle
       \/ MusicInit /\ VideoIdle

Directing == video.at = "directing"

\* The adapter asks for a plan: from the idea, or from the picture as well where
\* there is one; a video that is extended may be one that Director made.
BeginPlanning ==
    /\ Directing /\ director.at = "idle"
    /\ \E chain \in Chains, lineage \in BOOLEAN :
         /\ lineage => video.job.kind = "extension"
         /\ director' = [Planning("looking", video.job.still \/ video.job.kind = "extension",
                                  lineage, chain) EXCEPT !.cancelled = video.cancelled]
    /\ UNCHANGED <<planner, videoVars, musicVars>>

\* The plan, or why there is none, is the adapter's again.
PlanningEnds ==
    /\ Directed(director.at)
    /\ director.at \in {"ready", "failed", "stopped"}
    /\ director' = Planning("idle", FALSE, FALSE, <<>>)
    /\ UNCHANGED <<planner, musicVars>>

\* The adapter by itself, one task and one step of it at a time.
AdapterStep ==
    \/ BeginPlanning
    \/ PlanningEnds
    \/ DirectorStep /\ UNCHANGED <<videoVars, musicVars>>
    \/ VideoStep /\ UNCHANGED <<directorVars, musicVars>>
    \/ MusicStep /\ UNCHANGED <<directorVars, videoVars>>

\* A job that dies while it is planned is one flag for the adapter and Director.
CancelVideo ==
    /\ VideoCancel
    /\ IF Directing /\ director.at \in {"looking", "next", "asking"} THEN DirectorCancelled
       ELSE UNCHANGED directorVars
    /\ UNCHANGED musicVars

\* The task is cancelled, in whichever of its awaits it is.
Abort ==
    \/ DirectorAborted /\ UNCHANGED <<videoVars, musicVars>>
    \/ VideoAborted /\ UNCHANGED <<directorVars, musicVars>>
    \/ MusicAborted /\ UNCHANGED <<directorVars, videoVars>>

\* What the processes it started do, and how their ends are met.
RenderActs ==
    /\ \/ PreparationCancelled \/ Marker \/ LeaderDies \/ CloseOutput \/ Exit
       \/ KillGraceRunsOut \/ ToolCancelled \/ StrayEnds
    /\ UNCHANGED <<directorVars, musicVars>>

AdaptersNext ==
    \/ AdapterStep \/ RenderActs \/ CancelVideo \/ Abort
    \/ MusicCancel /\ UNCHANGED <<directorVars, videoVars>>

\* A step of the adapter's own is taken eventually.  Nothing is assumed of a render.
AdaptersSpec == AdaptersInit /\ [][AdaptersNext]_adapterVars /\ WF_adapterVars(AdapterStep)

-----------------------------------------------------------------------------
(***************************************************************************)
(* Properties.                                                             *)
(***************************************************************************)
AdaptersTypeOK ==
    /\ DirectorTypeOK /\ VideoTypeOK /\ MusicTypeOK
    /\ director.at # "idle" => Directing

\* An outage of the hosted planner slows the feature down "instead of taking it out"
\* (director/provider.py:460): planning fails only after the local one was asked; and
\* a song in a language the local writer knows never fails for the hosted one's
\* failures, in whichever round and try they come (music/fallback.py:148).
LocalIsAsked ==
    /\ FailureAskedLocal
    /\ music.ends = "no words" =>
         ~("template" \in ToSet(music.job.writers) /\ CanWrite("template", Language(music.job)))

\* A job that is cancelled ends, whatever it is doing: planning, writing, waiting
\* for a service, rendering (base.py:242, ltx.py:2898).
CancelledEnds == VideoCancelledEnds /\ MusicCancelledEnds

=============================================================================
