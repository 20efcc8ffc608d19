------------------------------- MODULE Director -------------------------------
(***************************************************************************)
(* Director mode: a user's idea becomes a validated plan before anything   *)
(* is rendered, and the plan becomes one caption per section.              *)
(*                                                                         *)
(* Planners are asked best first, twice each; the second time with what    *)
(* was wrong with the first draft.  A draft is refused, trimmed to the     *)
(* speech its duration holds, or held as sparse while a better one is      *)
(* asked for.  Times are half seconds: the source's constants are whole    *)
(* numbers of them.  Words are numbers; a line is a sequence of them.  Of   *)
(* their characters a line says only whether the user's quotation is among  *)
(* its own (`within`): "he left me" is in "She left me", as no word of it.  *)
(***************************************************************************)
EXTENDS Integers, SequencesExt

CONSTANTS
    Quote,         \* the words the user put in quotation marks in the idea
    Duration,      \* of the video, in half seconds
    Drafts,        \* what a planner may answer with
    Captions,      \* the numbers of sections the video may be rendered in
    Local, Hosted  \* GemmaDirectorProvider, CerebrasDirectorProvider

\* What a planner answers with, read as a plan.
TimelineEvent == [start : Int, end : Int, speaker : STRING, line : Seq(Nat), within : BOOLEAN,
                  exits : SUBSET STRING]
PlanDraft == [cast : SUBSET STRING, timeline : Seq(TimelineEvent), claims : SUBSET STRING,
              malformed : BOOLEAN]

ASSUME DirectorAssumption ==
    /\ Quote \in Seq(Nat) /\ Duration \in Nat \ {0}
    /\ Drafts \subseteq PlanDraft
    /\ Captions \subseteq Nat \ {0} /\ Local # Hosted

VARIABLES
    director,  \* the planning of one job
    planner    \* is a local planner process alive

directorVars == <<director, planner>>

NoPlan == [cast |-> {}, timeline |-> <<>>, claims |-> {}]

(***************************************************************************)
(* A draft: its cast, its timeline sorted by time, and the visual facts it *)
(* claims.  A line nobody says is <<>>.  "malformed" stands for what the   *)
(* parser refuses before it looks at times and speakers.                   *)
(***************************************************************************)
Nobody == "nobody"
MaxSilentGap == 12
MaxEvents    == 24
MaxCast      == 4

Speaks(e) == e.line # <<>>
Spoken(timeline) == SelectSeq(timeline, Speaks)
SpokenWords(timeline) == FoldSeq(LAMBDA e, n : n + Len(e.line), 0, timeline)

SpeechBudget      == IF Duration > 5 THEN Duration - 5 ELSE 0
SpokenLineBudget  == IF Duration \div 4 > 2 THEN Duration \div 4 ELSE 2
TargetSpokenLines ==
    LET density == (Duration + 7) \div 8
        wanted  == IF density > 2 THEN density ELSE 2
    IN  IF wanted < SpokenLineBudget THEN wanted ELSE SpokenLineBudget

\* _parse_timeline: an event's times, its speaker and its exits; its end is cut
\* to the video's after the check that it comes after its start.
EventRefused(e, cast) ==
    \/ e.start < 0 \/ e.end <= e.start \/ e.start >= Duration + 1
    \/ Speaks(e) /\ e.speaker = Nobody
    \/ e.speaker # Nobody /\ e.speaker \notin cast
    \/ ~(e.exits \subseteq cast)

Clipped(e) == [e EXCEPT !.end = IF @ < Duration THEN @ ELSE Duration]

\* _check_exit_consistency: nobody leaves twice, or speaks once their exit is over.
LeftBy(timeline, c, i) == {k \in 1..i : c \in timeline[k].exits}

ExitContradicted(timeline) ==
    \E i \in DOMAIN timeline :
        LET e == timeline[i] IN
        \/ \E c \in e.exits : LeftBy(timeline, c, i - 1) # {}
        \/ \E k \in LeftBy(timeline, e.speaker, i - 1) :
             /\ \A m \in LeftBy(timeline, e.speaker, i - 1) : k <= m
             /\ e.start >= timeline[k].end

\* The problems parse_plan collects before it looks at words.
Refused(d) ==
    \/ d.malformed \/ Cardinality(d.cast) \notin 1..MaxCast
    \/ Len(d.timeline) \notin 1..MaxEvents
    \/ \E i \in DOMAIN d.timeline : EventRefused(d.timeline[i], d.cast)
    \/ ExitContradicted([i \in DOMAIN d.timeline |-> Clipped(d.timeline[i])])

(***************************************************************************)
(* The user's own words.                                                   *)
(***************************************************************************)
\* _contains_run
HasRun(words, run) ==
    \E i \in 0..(Len(words) - Len(run)) : SubSeq(words, i + 1, i + Len(run)) = run

\* What is said from the i-th event to the k-th, and whether one speaker says it.
Between(timeline, i, k) ==
    LET words[m \in 0..k] == IF m < i THEN <<>> ELSE words[m - 1] \o timeline[m].line
    IN  words[k]

OneVoice(timeline, i, k) ==
    \A l, m \in i..k : Speaks(timeline[l]) /\ Speaks(timeline[m])
                        => timeline[l].speaker = timeline[m].speaker

\* The words of consecutive lines of one speaker.
Runs(timeline) ==
    {Between(timeline, r[1], r[2]) : r \in
        {r \in (DOMAIN timeline) \X (DOMAIN timeline) :
            r[1] <= r[2] /\ OneVoice(timeline, r[1], r[2])}}

\* _plan_speaks: among the characters of one line, wherever words begin, or as words,
\* in one line or split over consecutive lines of one speaker.
PlanSpeaks(timeline) ==
    \/ Quote = <<>>
    \/ \E i \in DOMAIN timeline : Speaks(timeline[i]) /\ timeline[i].within
    \/ \E run \in Runs(timeline) : HasRun(run, Quote)

\* Mutation: only a line that carries the whole quote is the user's.
WholeQuoteProtected(line) == HasRun(line, Quote)

\* is_protected: a fragment of a quote is the user's as much as the whole.
Protected(line) == HasRun(Quote, line)

Silenced(timeline, k) ==
    [i \in DOMAIN timeline |->
        IF i = k THEN [timeline[i] EXCEPT !.line = <<>>] ELSE timeline[i]]

\* _enforce_speech_budget: invented lines go, the last first, until it fits.
Trimmed(timeline) ==
    LET Budget == (SpeechBudget * 115) \div 100
        cut[i \in 0..Len(timeline)] ==
            IF i = 0 THEN timeline
            ELSE LET k == Len(timeline) + 1 - i  \* walks backwards
                     t == cut[i - 1]
                 IN  IF SpokenWords(t) <= Budget \/ ~Speaks(t[k]) \/ Protected(t[k].line)
                     THEN t ELSE Silenced(t, k)
    IN  cut[Len(timeline)]

FinalTimeline == [d \in Drafts |-> Trimmed([i \in DOMAIN d.timeline |-> Clipped(d.timeline[i])])]

\* Facts that outlive their truth, and facts about a picture nobody looked at:
\* _drop_presence_counts, _ground_visual_claims.
Claims(d, anchored, grounds) ==
    LET exits == \E i \in DOMAIN d.timeline : d.timeline[i].exits # {}
    IN  {c \in d.claims : /\ exits => c # "count"
                          /\ anchored => c \in grounds}

Parsed(d, anchored, grounds) ==
    [cast |-> d.cast,
     timeline |-> FinalTimeline[d],
     claims |-> Claims(d, anchored, grounds)]

\* pacing_problems and vocabulary_problems: a weaker video, not a broken one.
Sparse(timeline) ==
    LET lines == Spoken(timeline)
        n     == Len(lines)
    IN  /\ n > 0
        /\ \/ n < (IF TargetSpokenLines - 1 > 2 THEN TargetSpokenLines - 1 ELSE 2)
           \/ lines[1].start > MaxSilentGap
           \/ \E i \in 1..(n - 1) : lines[i + 1].start - lines[i].end > MaxSilentGap
           \/ Duration - lines[n].end > MaxSilentGap
           \/ \E i, k \in 1..n : i # k /\ ToSet(lines[i].line) \cap ToSet(lines[k].line) # {}

\* What becomes of a draft: asked for again, held while a better one is asked
\* for, or used.
Verdict == [d \in Drafts |->
    IF Refused(d) \/ ~PlanSpeaks(FinalTimeline[d]) THEN "refused"
    ELSE IF Sparse(FinalTimeline[d]) THEN "sparse" ELSE "good"]

-----------------------------------------------------------------------------
(***************************************************************************)
(* create_director_plan.                                                   *)
(***************************************************************************)
Chains == {<<Hosted, Local>>, <<Local>>}   \* default_providers

Planning(at, anchored, lineage, chain) ==
    [at |-> at, anchored |-> anchored, lineage |-> lineage, facts |-> FALSE, chain |-> chain,
     sample |-> FALSE, notes |-> FALSE, asked |-> {}, cancelled |-> FALSE,
     best |-> NoPlan, plan |-> NoPlan]

DirectorIdle == director = Planning("idle", FALSE, FALSE, <<>>) /\ planner = FALSE

\* wants_director, continuation_lineage: a text idea, a photograph, or the last
\* frame of a video that is being extended, which Director may have made.
DirectorInit ==
    /\ director \in {Planning("looking", anchored, lineage, chain) :
                        anchored, lineage \in BOOLEAN, chain \in Chains}
    /\ director.lineage => director.anchored
    /\ planner = FALSE

DirectorTo(d) == director' = d

\* source_image_facts: every failure of the vision step is absorbed.
LookAtPicture ==
    /\ director.at = "looking"
    /\ \E seen \in IF director.anchored /\ ~director.lineage THEN BOOLEAN ELSE {FALSE} :
         DirectorTo([director EXCEPT !.at = "next", !.facts = seen])
    /\ UNCHANGED planner

\* The request, carrying the previous draft's problems on the second sample.
AskPlanner ==
    /\ director.at = "next"
    /\ director.chain # <<>>
    /\ IF director.cancelled
       THEN DirectorTo([director EXCEPT !.at = "stopped"]) /\ UNCHANGED planner
       ELSE /\ DirectorTo([director EXCEPT !.at = "asking", !.asked = @ \cup {Head(director.chain)}])
            /\ planner' = (Head(director.chain) = Local)

\* The next sample of this provider, or the first of the next one.
Onward(d, complaints) ==
    IF d.sample THEN [d EXCEPT !.at = "next", !.chain = Tail(@), !.sample = FALSE, !.notes = FALSE]
    ELSE [d EXCEPT !.at = "next", !.sample = TRUE, !.notes = complaints]

Grounds == {"stated"} \cup (IF director.facts THEN {"seen"} ELSE {})

\* A draft came back and is parsed, trimmed, and judged.
Answer ==
    /\ director.at = "asking"
    /\ planner' = FALSE
    /\ \E d \in Drafts :
         LET plan == Parsed(d, director.anchored, Grounds) IN
         DirectorTo(
           CASE Verdict[d] = "refused" -> Onward(director, TRUE)
             [] Verdict[d] = "sparse"  ->
                  Onward([director EXCEPT !.best = IF @ = NoPlan THEN plan ELSE @], TRUE)
             [] Verdict[d] = "good"    -> [director EXCEPT !.at = "ready", !.plan = plan])

\* No JSON, a truncated answer, an unreachable or slow hosted service.
AnswerUnusable ==
    /\ director.at = "asking"
    /\ DirectorTo(Onward(director, TRUE))
    /\ planner' = FALSE

\* Mutation: a provider that cannot be used ends the planning.
SkipEnds ==
    /\ director.at = "asking"
    /\ Head(director.chain) = Hosted
    /\ DirectorTo([director EXCEPT !.chain = <<>>, !.at = "next"])
    /\ UNCHANGED planner

\* No key, or a status that repeating will not change: its retry is not spent.
SkipProvider ==
    /\ director.at = "asking"
    /\ Head(director.chain) = Hosted
    /\ DirectorTo([director EXCEPT !.chain = Tail(@), !.sample = FALSE, !.notes = FALSE,
                                   !.at = "next"])
    /\ UNCHANGED planner

\* The local planner timed out (and is killed) or exited with an error: a
\* DirectorFailure, which the chain does not catch.
LocalPlannerFails ==
    /\ director.at = "asking"
    /\ Head(director.chain) = Local
    /\ DirectorTo([director EXCEPT !.at = "failed"])
    /\ planner' = FALSE

\* Every provider is spent: the held plan, or the failure.
ChainSpent ==
    /\ director.at = "next"
    /\ director.chain = <<>>
    /\ DirectorTo([director EXCEPT
         !.at   = IF director.best = NoPlan THEN "failed" ELSE "ready",
         !.plan = director.best])
    /\ UNCHANGED planner

\* The lease was lost or the job cancelled: looked at before each request only.
DirectorCancelled ==
    /\ director.at \in {"looking", "next", "asking"}
    /\ ~director.cancelled
    /\ DirectorTo([director EXCEPT !.cancelled = TRUE])
    /\ UNCHANGED planner

\* The run's timeout or the process's shutdown cancels the task.  Nothing kills
\* a local planner that is at work.
DirectorAborted ==
    /\ director.at \in {"looking", "asking"}
    /\ DirectorTo([director EXCEPT !.at = "stopped"])
    /\ UNCHANGED planner

\* What the planning does by itself: every request it makes has a timeout.
DirectorStep ==
    \/ LookAtPicture \/ AskPlanner \/ Answer \/ AnswerUnusable \/ SkipProvider
    \/ LocalPlannerFails \/ ChainSpent

DirectorNext == DirectorStep \/ DirectorCancelled \/ DirectorAborted

-----------------------------------------------------------------------------
(***************************************************************************)
(* compile_section_prompts: the plan as n captions.                        *)
(***************************************************************************)
\* The section an event's midpoint falls in, counted from 0.
SectionOf(e, n) ==
    LET i == ((e.start + e.end) * n) \div (2 * Duration)
    IN  IF i < n - 1 THEN i ELSE n - 1

\* The events a section renders, by their places in the timeline.
EventsOf(plan, n, i) == {k \in DOMAIN plan.timeline : SectionOf(plan.timeline[k], n) = i}

ExitsOf(plan, events) == UNION {plan.timeline[k].exits : k \in events}

\* exit_time, present_ids: who is still there at a moment of the plan's clock.
PresentAt(plan, t) ==
    {c \in plan.cast : \A k \in DOMAIN plan.timeline :
        (c \in plan.timeline[k].exits
           /\ \A m \in 1..(k - 1) : c \notin plan.timeline[m].exits)
        => plan.timeline[k].end > t}

\* Mutation: presence follows the plan's clock.
CastByClock(plan, n, i) == PresentAt(plan, (i * Duration) \div n)

\* Who a section opens with: everybody who left in no earlier section.
CastOf(plan, n, i) ==
    plan.cast \ UNION {ExitsOf(plan, EventsOf(plan, n, k)) : k \in 0..(i - 1)}

\* Who is said to be alone, in a section that opens with fewer than the plan does.
Remaining(plan, cast, i) == IF i > 0 /\ cast # plan.cast THEN cast ELSE {}

\* Who an event says is left, once somebody has gone.
AfterExit(plan, e) == IF e.exits = {} THEN plan.cast ELSE PresentAt(plan, e.end)

Uttered(plan, e) ==
    [speaker |-> IF Speaks(e) THEN e.speaker ELSE Nobody,
     line    |-> e.line,
     remain  |-> AfterExit(plan, e)]

\* The last event ends more than two and a half seconds before its section does.
Settles(plan, events, n, i) ==
    \E k \in events :
        /\ \A m \in events : m <= k
        /\ ((i + 1) * Duration) - n * plan.timeline[k].end > n * 5

\* Who is asserted to stay in every frame.
Stay(plan, cast, events) == cast \ ExitsOf(plan, events)

\* _compile_section, wording aside.
Caption(plan, n, i) ==
    LET events == EventsOf(plan, n, i)
        cast   == CastOf(plan, n, i)
    IN  [cast    |-> cast,
         only    |-> Remaining(plan, cast, i),
         says    |-> [k \in events |-> Uttered(plan, plan.timeline[k])],
         settles |-> Settles(plan, events, n, i),
         stay    |-> Stay(plan, cast, events),
         facts   |-> plan.claims]

-----------------------------------------------------------------------------
(***************************************************************************)
(* Properties.                                                             *)
(***************************************************************************)
IsPlan(p) == p = NoPlan \/ \E d \in Drafts : p.cast = d.cast /\ Len(p.timeline) = Len(d.timeline)

DirectorTypeOK ==
    /\ director.at \in {"idle", "looking", "next", "asking", "ready", "failed", "stopped"}
    /\ director.chain \in Chains \cup {<<>>} /\ director.asked \subseteq {Local, Hosted}
    /\ director.sample => director.notes
    /\ IsPlan(director.best) /\ IsPlan(director.plan) /\ planner \in BOOLEAN

\* The lines the user wrote are in the plan that is rendered, whichever draft of
\* whichever planner it was and whatever was trimmed from it: as words in their order
\* and from one mouth, or among the characters of one line, which is all that is asked
\* (plan.py:852).  And a draft that says them in lines of their own, one or several, says
\* them so after the trim that fits its speech to the video (plan.py:516, 818).  Inside a
\* longer line of the planner's they may be lost, and the draft with them.
UserLinesSurvive ==
    /\ director.at = "ready" => PlanSpeaks(director.plan.timeline)
    /\ director.at = "asking" =>
         \A d \in Drafts : Quote \in Runs(d.timeline) => Quote \in Runs(Trimmed(d.timeline))

\* Every event takes time, and ends before the next one starts.
InSequence(timeline) ==
    /\ \A i \in DOMAIN timeline : timeline[i].start < timeline[i].end
    /\ \A i \in 1..(Len(timeline) - 1) : timeline[i].end <= timeline[i + 1].start

\* Who has left stays gone.  In however many sections a plan whose events do not
\* overlap is rendered (an event the video's end leaves no time for may contradict
\* its neighbour): nobody speaks in a section they are not introduced in,
\* and what the last departure of a section says of who remains is what the
\* section goes on to assert of every frame, although one is read off the plan's
\* clock and the other off its sections (compiler.py:73, 218, 309).
GoneAreGone ==
    director.at = "ready" /\ InSequence(director.plan.timeline) =>
        \A n \in Captions : \A i \in 0..(n - 1) :
            LET caption == Caption(director.plan, n, i)
                said    == caption.says
                exits   == {k \in DOMAIN said : director.plan.timeline[k].exits # {}}
            IN  /\ \A k \in DOMAIN said : said[k].speaker \in caption.cast \cup {Nobody}
                /\ \A k \in exits : (\A m \in exits : m <= k) => said[k].remain = caption.stay

\* An outage of the hosted planner "slows the feature down instead of taking it
\* out" (provider.py:460): planning fails only after the local one was asked.
FailureAskedLocal == director.at = "failed" => Local \in director.asked

=============================================================================
