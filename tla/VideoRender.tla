------------------------------ MODULE VideoRender ------------------------------
(***************************************************************************)
(* The LTX adapter: one video job as a chain of GPU passes.                *)
(*                                                                         *)
(* A job's length is cut into windows no pass may exceed, each window is   *)
(* rendered by a process of its own that continues from the last frame of  *)
(* the window before, and the parts are joined under one soundtrack or     *)
(* with their own.  Frame counts matter one by one: the decoder dies on    *)
(* some of them.  Time is counted in ticks of 1/240 second, of which a     *)
(* frame of the model (24 a second) takes ten.                             *)
(***************************************************************************)
EXTENDS Timing, SequencesExt

CONSTANTS
    VideoJobs,  \* what may be asked of the adapter
    MaxFaulty   \* bound: how many renders of a job come back with a wrong length

Grids == {"wide", "tall", "square", "portrait", "half", "other"}

\* A job: its length and its source's in ticks, its delivery rate (kept between ten
\* and sixty by _delivery_fps), the workflow's own limit on a pass in seconds, the
\* onsets of its music, and the spans that the actions of its prompt are pinned to.
VideoRequest ==
    [kind : {"generation", "extension", "restyle", "transform", "music"},
     total : Nat \ {0}, source : Nat, fps : 10..60, max : Nat \ {0}, grid : Grids,
     option : BOOLEAN, still : BOOLEAN, directed : BOOLEAN,
     onsets : SUBSET Nat, story : Seq({<<>>} \cup (Nat \X Nat))]

ASSUME VideoAssumption ==
    /\ VideoJobs # {} /\ VideoJobs \subseteq VideoRequest
    /\ MaxFaulty \in Nat

VARIABLES
    video,  \* the job and how far its handler is
    gpu     \* the renders on the card: one whose leader, the process that was
            \* launched, lives ("render"), and ones that outlived theirs ("stray")

videoVars == <<video, gpu>>

Second == 240
Frame  == 10

-----------------------------------------------------------------------------
(***************************************************************************)
(* Which pipeline renders, how long a pass of it may be, and what else the *)
(* handler of each workflow asks of the machinery they share.              *)
(***************************************************************************)
\* LtxPipeline.conforming_only and .measured_landings
Landings == [ic_lora |-> {193}, a2v |-> {121, 241, 385, 481}, guided |-> {121}]

GridCeiling == [wide |-> 60, tall |-> 60, square |-> 60, portrait |-> 60, half |-> 30, other |-> 10]

\* _per_pass_seconds: the workflow's own override only lowers what was measured.
PerPass(job) == AtMost(job.max, GridCeiling[job.grid]) * Second

Asks(tier, ceiling) ==
    [tier |-> tier, ceiling |-> ceiling,
     seeded   |-> FALSE,  \* the first section continues a picture
     keeps    |-> FALSE,  \* every section looks back at the customer's still
     stills   |-> 0,      \* pictures of its own window a section is shown
     measures |-> FALSE,  \* reads its source before the chain, abandoned on cancel
     prepares |-> FALSE,  \* makes control material for each pass, likewise
     oneTrack |-> FALSE,  \* one soundtrack under all sections, not one each
     checked  |-> FALSE,  \* each part is measured on its own
     floor    |-> 240]    \* tolerance of the result

\* _run_generation
Generation(job) ==
    [(IF job.option THEN Asks("guided", 5 * Second) ELSE Asks("distilled", PerPass(job)))
     EXCEPT !.keeps = job.still, !.checked = TRUE, !.floor = 180]

\* _run_extension: the source's last frame opens it; a directed one takes 30 s passes.
Extension(job) ==
    [Asks("distilled", IF job.directed THEN AtMost(PerPass(job), 30 * Second) ELSE PerPass(job))
     EXCEPT !.seeded = TRUE, !.keeps = job.still, !.measures = TRUE, !.floor = 360]

\* _run_restyle
Restyle(job) ==
    [Asks("distilled", PerPass(job)) EXCEPT !.stills = 3, !.prepares = TRUE, !.oneTrack = TRUE]

\* _run_transform: an edge map of the source drives each pass.
Transform(job) ==
    [Asks("ic_lora", AtMost(PerPass(job), 8 * Second))
     EXCEPT !.measures = TRUE, !.prepares = TRUE, !.oneTrack = TRUE]

\* _run_music_video: the track decides the length and the cuts, and may drive the picture.
MusicVideo(job) ==
    [(IF job.option THEN Asks("a2v", 481 * Frame) ELSE Asks("distilled", PerPass(job)))
     EXCEPT !.measures = TRUE, !.oneTrack = TRUE]

\* run: the workflow decides the handler.
Handler(job) ==
    CASE job.kind = "generation" -> Generation(job)
      [] job.kind = "extension"  -> Extension(job)
      [] job.kind = "restyle"    -> Restyle(job)
      [] job.kind = "transform"  -> Transform(job)
      [] job.kind = "music"      -> MusicVideo(job)

Tier(job)        == Handler(job).tier
PassCeiling(job) == Handler(job).ceiling

(***************************************************************************)
(* A plan: cut points in fractions of a tick, `den` to a tick, from 0 to   *)
(* the total.  Section i runs from cuts[i] to cuts[i + 1].                 *)
(***************************************************************************)
Sections(plan) == Len(plan.cuts) - 1
Window(plan, i) == plan.cuts[i + 1] - plan.cuts[i]

PassCount(job) == CeilDiv(job.total, PassCeiling(job))

\* plan_segments
EvenPlan(job) ==
    LET n == PassCount(job)
    IN  [den |-> n, cuts |-> [i \in 1..(n + 1) |-> job.total * (i - 1)]]

\* _minimum_window: two seconds, or half a pass.
MinimumWindow(job) == AtMost(2 * Second, PassCeiling(job) \div 2)

\* Mutation: a cut may be pulled so far back that the last window is too long.
EarliestByPull(job, position, latest, i) ==
    AtMost(latest, AtLeast(position + MinimumWindow(job) * 5 * PassCount(job), latest - job.total))

\* How far back of its nominal place the music may pull the i-th cut -- a fifth of the
\* nominal window, job.total in its fractions -- leaving to the passes that remain no
\* more than they can hold.
Earliest(job, position, latest, i) ==
    LET den == 5 * PassCount(job)
    IN  AtMost(latest, AtLeast(AtLeast(position + MinimumWindow(job) * den, latest - job.total),
                               job.total * den - PassCeiling(job) * den * (PassCount(job) - i)))

\* The i-th cut, after one at a position: the last onset within reach of its place.
NextCut(job, i) ==
    [position \in Nat |->
        LET den      == 5 * PassCount(job)
            latest   == AtMost(job.total * 5 * i, position + PassCeiling(job) * den)
            earliest == Earliest(job, position, latest, i)
            within   == {t \in job.onsets : earliest <= t * den /\ t * den <= latest}
        IN  IF within = {} THEN latest ELSE Max(within) * den]

\* plan_musical_boundaries
MusicalCuts(job) ==
    LET n == PassCount(job)
        cut[i \in 0..(n - 1)] == IF i = 0 THEN 0 ELSE NextCut(job, i)[cut[i - 1]]
    IN  {cut[i] : i \in 0..(n - 1)}

\* The numbers of a set, the smallest first.
Ascending(S) ==
    [i \in 1..Cardinality(S) |-> CHOOSE x \in S : Cardinality({y \in S : y < x}) = i - 1]

\* plan_chain_segments: the cuts in order, a window of no length dropped.
Plan(job) ==
    IF job.kind # "music" \/ PassCount(job) = 1 THEN EvenPlan(job)
    ELSE LET den == 5 * PassCount(job)
         IN  [den  |-> den,
              cuts |-> Ascending(MusicalCuts(job) \cup {job.total * den})]

\* Every job's plan, worked out once.
PlanOf == [job \in VideoJobs |-> Plan(job)]

TooLong(job, plan) ==
    \E i \in 1..Sections(plan) : Window(plan, i) > PassCeiling(job) * plan.den

\* _frame_count of a section
FramesOf(plan, i) == AtLeast(1, Rounded(Window(plan, i), Frame * plan.den))

\* _planned_section_frames: rounded at the cuts, so that no error accumulates.
SectionFrames(job, plan, i) ==
    AtLeast(1, Rounded(plan.cuts[i + 1] * job.fps, Second * plan.den)
               - Rounded(plan.cuts[i] * job.fps, Second * plan.den))

\* plan_section_prompts: which section each action of the prompt goes to; a
\* prompt that pins some to times keeps the others for every section.
SectionsOfAction(job, n, k) ==
    LET timed == {a \in DOMAIN job.story : job.story[a] # <<>>}
        width == CeilDiv(Len(job.story), n)
        at    == job.story[k]
    IN  IF n = 1 THEN {1}
        ELSE IF timed = {} THEN {i \in 1..n : (i - 1) * width < k /\ k <= i * width}
        ELSE IF k \notin timed THEN 1..n
        ELSE {AtMost(n, 1 + ((at[1] + at[2]) * n) \div (2 * job.total))}

-----------------------------------------------------------------------------
(***************************************************************************)
(* The frame counts a pass is rendered with.                               *)
(***************************************************************************)
MeasuredSafe  == {120, 240, 360, 720, 1289, 1385, 1441, 1528}
TwoImageSafe  == {120, 240, 360}

ConditionedBands == {<<361, 719, 720>>, <<721, 1288, 1289>>, <<1290, 1384, 1385>>,
                     <<1386, 1440, 1441>>, <<1442, 1527, 1528>>}

UnconditionedBands(grid) ==
    CASE grid \in {"wide", "tall"} -> {<<233, 247, 248>>, <<714, 735, 736>>}
      [] grid = "square"           -> {<<714, 735, 736>>}
      [] OTHER                     -> {}

\* conforming_frames: the smallest 8k + 1 that is enough.
Conforming(frames) == frames + ((1 - frames) % 8)

\* Mutation: the lattice is trusted to be enough.
LatticeFrameCount(grid, frames, conditioned) == Conforming(frames)

\* safe_frame_count
SafeFrameCount(grid, frames, conditioned) ==
    LET proven == {c \in MeasuredSafe : frames <= c /\ c <= Conforming(frames)}
        bands  == IF conditioned THEN ConditionedBands ELSE UnconditionedBands(grid)
        hit    == {b \in bands : b[1] <= Conforming(frames) /\ Conforming(frames) <= b[2]}
    IN  IF conditioned /\ proven # {} THEN Min(proven)
        ELSE IF hit # {} THEN (CHOOSE b \in hit : TRUE)[3]
        ELSE Conforming(frames)

\* _renderer: the images a section starts from -- its predecessor's last frame,
\* and the original picture beside it where two images are known to decode.
Images(job, plan, i) ==
    LET seam   == IF i > 1 \/ Handler(job).seeded THEN 1 ELSE 0
        anchor == IF Handler(job).keeps /\ (seam = 0 \/ FramesOf(plan, i) \in TwoImageSafe)
                  THEN 1 ELSE 0
    IN  IF Handler(job).stills > 0 THEN Handler(job).stills + 1 ELSE seam + anchor

\* A control clip or a soundtrack conditions a pass as much as an image does.
Conditioned(job, plan, i) ==
    Images(job, plan, i) > 0 \/ Tier(job) \in {"ic_lora", "a2v"}

RenderedFrames(job, plan, i) ==
    LET wanted == FramesOf(plan, i)
        proven == {c \in Landings[Tier(job)] : c >= Conforming(wanted)}
    IN  IF Tier(job) = "distilled"
        THEN SafeFrameCount(job.grid, wanted, Conditioned(job, plan, i))
        ELSE IF proven # {} THEN Min(proven) ELSE Conforming(wanted)

\* The pipeline: counts its decoder was seen to die on.
Deadly(job, images) ==
    IF Tier(job) # "distilled"
    THEN [ic_lora |-> {360, 361}, a2v |-> {289, 337, 361, 409, 457, 601, 841, 1081},
          guided  |-> {241}][Tier(job)]
    ELSE IF images = 2 THEN {720, 736}
    ELSE IF images > 0 THEN {361, 721, 1381, 1437, 1440, 1464}
    ELSE IF job.grid \in {"wide", "tall"} THEN {240} ELSE {}

-----------------------------------------------------------------------------
(***************************************************************************)
(* Progress: a section's markers sweep its slice of the bar.               *)
(***************************************************************************)
Markers == <<20, 40, 55, 70, 80, 85>>

\* Mutation: a section's slice stops one short of the next one's.
GappedBand(i, n) == <<15 + (70 * (i - 1)) \div n, 14 + (70 * i) \div n>>

\* band_for, with sections counted from 1.
Band(i, n) == <<15 + (70 * (i - 1)) \div n, 15 + (70 * i) \div n>>

Reported(i, n, mark) ==
    LET band == Band(i, n) IN band[1] + ((Markers[mark] - 15) * (band[2] - band[1])) \div 70

-----------------------------------------------------------------------------
(***************************************************************************)
(* The handler.                                                            *)
(***************************************************************************)
NoPlanYet == [den |-> 1, cuts |-> <<0>>]

VideoStarting(at, job) ==
    [at |-> at, job |-> job, plan |-> NoPlanYet, i |-> 1, frames |-> 0, mark |-> 0, bar |-> 0,
     parts |-> <<>>, faulty |-> 0, seam |-> 0, cancelled |-> FALSE, ends |-> "none", retry |-> TRUE]

VideoInit == video \in {VideoStarting("checking", job) : job \in VideoJobs} /\ gpu = {}
VideoIdle == video = VideoStarting("idle", CHOOSE job \in VideoJobs : TRUE) /\ gpu = {}

VideoOver == {"delivered", "failed", "cancelled"}

VideoTo(v) == video' = v
Failing(v, retry) == [v EXCEPT !.at = "failed", !.retry = retry]

\* Weights, shape, source and stills are looked at before anything is rendered;
\* what is wrong with them is wrong on every attempt.
CheckRequest ==
    /\ video.at = "checking"
    /\ \/ VideoTo([video EXCEPT !.at = IF video.job.directed THEN "directing" ELSE "planning",
                                !.bar = 12])
       \/ VideoTo(Failing(video, FALSE))
    /\ UNCHANGED gpu

\* create_director_plan: a plan, a failure that is not retried, or the end.
Directed(outcome) ==
    /\ video.at = "directing"
    /\ VideoTo(CASE outcome = "ready"  -> [video EXCEPT !.at = "planning", !.bar = 14]
                 [] outcome = "failed" -> Failing(video, FALSE)
                 [] OTHER              -> [video EXCEPT !.at = "cancelled"])
    /\ UNCHANGED gpu

PlanSections ==
    /\ video.at = "planning"
    /\ LET plan == PlanOf[video.job] IN
       VideoTo(IF TooLong(video.job, plan) THEN Failing([video EXCEPT !.ends = "plan"], TRUE)
               ELSE [video EXCEPT !.at = "section", !.plan = plan])
    /\ UNCHANGED gpu

\* render_chain between passes: the cheapest place to stop.
StartSection ==
    /\ video.at = "section"
    /\ VideoTo(IF video.cancelled THEN [video EXCEPT !.at = "cancelled"]
               ELSE [video EXCEPT !.at = "preparing"])
    /\ UNCHANGED gpu

\* Stills of the source, an edge map, a matte: work that a cancellation ends.
\* Then the pass's process is launched.
LaunchPass ==
    /\ video.at = "preparing"
    /\ \/ /\ VideoTo([video EXCEPT !.at = "rendering", !.mark = 0,
                                   !.frames = RenderedFrames(video.job, video.plan, video.i)])
          /\ gpu' = gpu \cup {"render"}
       \/ /\ \E retry \in BOOLEAN : VideoTo(Failing(video, retry))
          /\ UNCHANGED gpu

PreparationCancelled ==
    /\ video.cancelled
    /\ \/ video.at = "planning" /\ Handler(video.job).measures
       \/ video.at = "preparing" /\ Handler(video.job).prepares
    /\ VideoTo([video EXCEPT !.at = "cancelled"])
    /\ UNCHANGED gpu

\* A line of the process's output announces a milestone ahead of the last.
Marker ==
    /\ video.at = "rendering"
    /\ \E m \in (video.mark + 1)..Len(Markers) :
         VideoTo([video EXCEPT !.mark = m,
                               !.bar = AtLeast(@, Reported(video.i, Sections(video.plan), m))])
    /\ UNCHANGED gpu

\* The leader is gone and its child, which holds the output, is not: the adapter
\* goes on reading.
LeaderDies ==
    /\ video.at = "rendering" /\ "render" \in gpu
    /\ gpu' = (gpu \ {"render"}) \cup {"stray"}
    /\ UNCHANGED video

\* The output ends; what is left is to wait for the leader's exit.
CloseOutput ==
    /\ video.at = "rendering"
    /\ VideoTo([video EXCEPT !.at = "awaiting"])
    /\ UNCHANGED gpu

\* Every path out of the loop that is not the leader's own exit kills its group.
Kill(v) == [v EXCEPT !.at = "killing"]

\* Mutation: cancellation is looked at when the process prints a line.
PollOnOutput ==
    /\ video.at = "rendering" /\ video.cancelled /\ video.mark = Len(Markers)
    /\ VideoTo(Kill([video EXCEPT !.ends = "cancelled"]))
    /\ UNCHANGED gpu

\* Looked at within two seconds even while the process is silent, as long as it
\* may still print.
PollCancelled ==
    /\ video.at = "rendering" /\ video.cancelled
    /\ VideoTo(Kill([video EXCEPT !.ends = "cancelled"]))
    /\ UNCHANGED gpu

\* How the leader exited: by a decoder that cannot do this count, which it will not
\* do next time either, by something that may pass, or with a file of some length.
Exited ==
    LET n == video.frames IN
    IF n \in Deadly(video.job, Images(video.job, video.plan, video.i))
    THEN VideoTo(Failing([video EXCEPT !.ends = "shape"], FALSE))
    ELSE \/ VideoTo(Failing(video, TRUE))
         \/ \E length \in IF video.faulty < MaxFaulty THEN {n, n \div 2, 2 * n} ELSE {n} :
              VideoTo([video EXCEPT !.at = "rendered", !.frames = length,
                                    !.faulty = IF length = n THEN @ ELSE @ + 1])

\* The leader exits, with its child or before it.
Exit ==
    /\ video.at = "awaiting" /\ "render" \in gpu
    /\ gpu' \in {gpu \ {"render"}, (gpu \ {"render"}) \cup {"stray"}}
    /\ Exited

\* The leader had died while its child still printed: nothing is left to wait for.
FindExited ==
    /\ video.at = "awaiting" /\ "render" \notin gpu
    /\ Exited
    /\ UNCHANGED gpu

\* _terminate_render: the group is signalled and empties; a leader that is gone
\* already has no group any more, whoever outlived it.
KillLands ==
    /\ video.at = "killing"
    /\ VideoTo([video EXCEPT !.at = video.ends])
    /\ gpu' = gpu \ {"render"}

\* Thirty seconds pass, or the wait is cancelled in its turn, and the group is not
\* empty.
KillGraceRunsOut ==
    /\ video.at = "killing" /\ "render" \in gpu
    /\ VideoTo([video EXCEPT !.at = video.ends])
    /\ gpu' = (gpu \ {"render"}) \cup {"stray"}

\* _trim_to: what snapping to a safe count added, and no more than it, is cut.
TrimmedTo(came, wanted, rendered) ==
    LET overshoot == 3 * (rendered - wanted)
        allowed   == wanted + AtLeast(12, overshoot)
    IN  IF rendered = wanted \/ came > allowed THEN came ELSE AtMost(came, wanted)

\* The part is trimmed, and verified where its own sound is delivered.
FinishPass ==
    /\ video.at = "rendered"
    /\ LET wanted   == FramesOf(video.plan, video.i)
           rendered == RenderedFrames(video.job, video.plan, video.i)
           part     == TrimmedTo(video.frames, wanted, rendered)
           faulty   == Handler(video.job).checked
                         /\ ~Within(Drift(part, wanted) * Frame, wanted * Frame, 180)
           more     == video.i < Sections(video.plan)
       IN  \/ VideoTo(IF faulty THEN Failing(video, TRUE)
                      ELSE [video EXCEPT !.parts = Append(@, part),
                                         !.at = IF more THEN "frame" ELSE "assembling"])
           \/ VideoTo(Failing(video, TRUE))
    /\ UNCHANGED gpu

\* The part's last frame is where the next section starts.
TakeFinalFrame ==
    /\ video.at = "frame"
    /\ \/ VideoTo([video EXCEPT !.at = "section", !.i = @ + 1, !.seam = video.i])
       \/ VideoTo(Failing(video, TRUE))
    /\ UNCHANGED gpu

\* normalize_clip: retimed to the delivery rate, and under one soundtrack pinned
\* to the section's frames -- cut to them, or padded to them by two at most.
Delivered(v, i) ==
    LET own == Rounded(v.parts[i] * v.job.fps, 24)
        pin == SectionFrames(v.job, v.plan, i)
    IN  IF Handler(v.job).oneTrack THEN AtMost(pin, own + 2) ELSE own

DeliveredFrames(v) == SumTo(Len(v.parts), [i \in DOMAIN v.parts |-> Delivered(v, i)])

\* Joined, given its sound, measured against what was promised.
Assemble ==
    /\ video.at = "assembling"
    /\ LET length == (DeliveredFrames(video) * Second) \div video.job.fps
           good   == Within(Drift(length, video.job.total), video.job.total + video.job.source,
                            Handler(video.job).floor)
       IN  \/ VideoTo(IF good THEN [video EXCEPT !.at = "delivered", !.bar = 96]
                      ELSE Failing(video, TRUE))
           \/ VideoTo(Failing(video, TRUE))
    /\ UNCHANGED gpu

\* Reading a frame and joining parts are abandoned the moment the job dies.
ToolCancelled ==
    /\ video.at \in {"rendered", "frame", "assembling"} /\ video.cancelled
    /\ VideoTo([video EXCEPT !.at = "cancelled"])
    /\ UNCHANGED gpu

\* The lease is lost, the user cancels, or the job's time is up.
VideoCancel ==
    /\ video.at \notin VideoOver \cup {"idle"} /\ ~video.cancelled
    /\ VideoTo([video EXCEPT !.cancelled = TRUE])
    /\ UNCHANGED gpu

\* The runner cancels the task itself.
VideoAborted ==
    /\ video.at \in {"checking", "preparing", "rendering", "awaiting", "rendered", "frame",
                    "assembling"}
    /\ VideoTo(IF video.at \in {"rendering", "awaiting"} THEN Kill([video EXCEPT !.ends = "cancelled"])
               ELSE [video EXCEPT !.at = "cancelled"])
    /\ UNCHANGED gpu

\* A render that outlived its leader is gone at last.
StrayEnds == "stray" \in gpu /\ gpu' = gpu \ {"stray"} /\ UNCHANGED video

\* What the adapter does by itself, whatever the processes it started do.
VideoStep ==
    \/ CheckRequest \/ PlanSections \/ StartSection \/ LaunchPass \/ PollCancelled
    \/ FindExited \/ KillLands \/ FinishPass \/ TakeFinalFrame \/ Assemble

VideoNext ==
    \/ VideoStep \/ PreparationCancelled \/ Marker \/ LeaderDies \/ CloseOutput \/ Exit
    \/ KillGraceRunsOut \/ ToolCancelled \/ VideoCancel \/ VideoAborted \/ StrayEnds

-----------------------------------------------------------------------------
(***************************************************************************)
(* Properties.                                                             *)
(***************************************************************************)
VideoTypeOK ==
    /\ video.at \in VideoOver \cup {"idle", "checking", "directing", "planning", "section",
                    "preparing", "rendering", "awaiting", "killing", "rendered", "frame", "assembling"}
    /\ video.job \in VideoJobs /\ Len(video.parts) <= video.i
    /\ video.bar \in 0..96 /\ gpu \subseteq {"render", "stray"}

\* No pass is asked of the decoder at a frame count it was seen to die on in that
\* pipeline, on that grid, with that conditioning; and never fewer frames than the
\* section is long (ltx.py:392, 2432, 2541).
DecoderSurvives ==
    /\ video.ends # "shape"
    /\ video.at \in {"rendering", "awaiting"} => video.frames >= FramesOf(video.plan, video.i)

\* The plan a chain follows is the whole video and nothing else: windows tile the
\* length, none beyond the pass ceiling, as many as even windows would take; the
\* delivered frames of a video under one soundtrack add up to the soundtrack's, with
\* every cut within half a frame of its place, where there is a frame at all; no
\* action of the prompt is shown twice or lost; and a music video never fails for the
\* cuts its own music suggested (segments.py:64, timing.py:45, ltx.py:2049,
\* prompts.py:75).
PlanIsWhole ==
    /\ video.ends # "plan"
    /\ video.at = "section" =>
        LET plan == video.plan
            job  == video.job
            n    == Sections(plan)
            upto(i) == SumTo(i, [k \in 1..n |-> SectionFrames(job, plan, k)])
        IN  /\ plan.cuts[1] = 0 /\ plan.cuts[n + 1] = job.total * plan.den
            /\ \A i \in 1..n : 0 < Window(plan, i)
            /\ n > 1 => \A i \in 1..n : Window(plan, i) >= MinimumWindow(job) * plan.den
            /\ ~TooLong(job, plan) /\ n <= PassCount(job)
            /\ Handler(job).oneTrack /\ job.total * job.fps >= Second =>
                 \A i \in 1..n : 2 * Drift(upto(i) * Second * plan.den, plan.cuts[i + 1] * job.fps)
                                   <= Second * plan.den
            /\ \A k \in DOMAIN job.story :
                 Cardinality(SectionsOfAction(job, n, k)) \in {1, n}

\* What a section reports is what the customer is shown: the bar never has to hold
\* a report back.  And a section's last marker leaves the bar where the next section's
\* slice begins, the last one's at the end of them all, so that N passes are one sweep
\* without a gap (progress.py:134, 142).
BarNeverHeldBack ==
    video.at \in {"rendering", "awaiting"} /\ video.mark > 0 =>
        LET n == Sections(video.plan) IN
        /\ video.bar = Reported(video.i, n, video.mark)
        /\ video.mark = Len(Markers) =>
             video.bar = IF video.i < n THEN Band(video.i + 1, n)[1] ELSE 85

\* A cancelled job ends, even when its render neither prints nor exits, and its render
\* is then dead, or one that outlived its leader or half a minute of waiting -- unless it
\* closed its output and lives on, whose exit the adapter awaits without looking at
\* the flag (ltx.py:2898, 2981, 3041).
VideoCancelledEnds ==
    video.cancelled ~> \/ video.at \in VideoOver /\ "render" \notin gpu
                       \/ [](video.at = "awaiting" /\ "render" \in gpu)

=============================================================================
