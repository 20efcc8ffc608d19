------------------------------ MODULE RequestForm ------------------------------
(***************************************************************************)
(* From a workflow definition to an accepted request.                      *)
(*                                                                         *)
(* The API loads a directory of workflow definitions or does not start.    *)
(* The browser builds its form, and the rules of its form, from the        *)
(* definition it was served; values are carried from one tool's form to    *)
(* another's, filled from an earlier job, or arrive with a link that hands *)
(* a result over as the source of the next one.  What the form lets        *)
(* through becomes a request, which the API judges by the same definition  *)
(* and stores; an extension also stores the story it continues.            *)
(*                                                                         *)
(* A choice the form does not hold, or a request does not carry, is None.  *)
(* The two sliders are left out: every value they can take is accepted for *)
(* every workflow.                                                         *)
(***************************************************************************)
EXTENDS Naturals, SequencesExt

CONSTANTS
    Names,      \* what ids, roles and choices are written in
    Catalogues, \* the directories of definitions the API may be started on
    Seconds,    \* Seconds[d]: how long the duration written d is
    Minutes,    \* the durations written in minutes
    Prompts,    \* what a user may type: [words, pad], pad counting outer blanks
    MaxEdits,   \* bound: controls the user touches in one behaviour
    MaxJobs     \* bound: MaxJobs[c] jobs are created in one behaviour of catalogue c

Kinds == {"video", "image", "audio"}

\* InputSpec and WorkflowDefinition, as far as a form or a request depends on them.
InputSpec == [role : Names, kind : Kinds, required : BOOLEAN]

WorkflowDefinition ==
    [id : Names, required : BOOLEAN, max_length : Nat, inputs : Seq(InputSpec),
     duration_mode : {"fixed", "minutes", "source"}, supported_durations : Seq(Names),
     supported_aspect_ratios : Seq(Names), supported_quality_levels : Seq(Names),
     quality : BOOLEAN, lyrics : BOOLEAN, prompt_modes : BOOLEAN, seed : BOOLEAN,
     extend : BOOLEAN, output_type : Kinds]

None     == "none"
Extender == "extend-video"

\* PROMPT_MODES, DIALOGUE_LANGUAGES and LYRIC_LANGUAGES, each cut to what is
\* told apart: the first is the default, and the API checks the first two lists.
PromptModes       == <<"standard", "director">>
DialogueLanguages == <<"auto", "german">>
LyricLanguages    == <<"English", "Urdu">>

\* The loader leaves three things to whoever writes workflow-definitions/: an extension
\* needs a source video and a length, its form has no input of the name the API
\* attaches the first photograph under, and a tool with a Director has lengths.
ASSUME FormAssumption ==
    /\ \A c \in Catalogues : \A d \in c :
         /\ d \in WorkflowDefinition
         /\ d.prompt_modes => d.duration_mode # "source"
         /\ d.id = Extender =>
              /\ d.duration_mode # "source"
              /\ \E i \in DOMAIN d.inputs : /\ d.inputs[i].role = "source_video"
                                            /\ d.inputs[i].required
              /\ \A i \in DOMAIN d.inputs : d.inputs[i].role # "identity_image"
    /\ {None, Extender, "source_video", "source_image", "identity_image"} \subseteq Names
    /\ ToSet(PromptModes) \cup ToSet(DialogueLanguages) \cup ToSet(LyricLanguages) \subseteq Names
    /\ Seconds \in [DOMAIN Seconds -> Nat] /\ Minutes \subseteq DOMAIN Seconds
    /\ None \notin DOMAIN Seconds
    /\ Prompts \subseteq [words : Nat, pad : Nat]
    /\ MaxEdits \in Nat /\ MaxJobs \in [Catalogues -> Nat]

VARIABLES
    registry,   \* the definitions the API runs with
    page,       \* the definition of the tool on screen
    values,     \* GenerationFormValues
    lastSource, \* lastSourceAssetId: the hand-off last applied, at most one asset
    shown,      \* selectedJobId, 0 when nothing is selected
    jobs,       \* the user's jobs, oldest first
    edits       \* controls touched so far

formVars == <<registry, page, values, lastSource, shown, jobs, edits>>

Sheets == {"", " ", "own words"}  \* the lyrics box: empty, blank, filled

Length(p)  == p.words + p.pad
Trimmed(p) == [p EXCEPT !.pad = 0]
TrimmedSheet(s) == IF s = " " THEN "" ELSE s

\* Inputs by role, one of them set.
Setting(inputs, role, a) ==
    [r \in DOMAIN inputs \cup {role} |-> IF r = role THEN a ELSE inputs[r]]

\* An asset is known by its kind and the job that made it, 0 for an upload.
Uploaded(kind) == [kind |-> kind, job |-> 0]

-----------------------------------------------------------------------------
(* Definitions. *)

KnownRoles(d)    == {d.inputs[i].role : i \in DOMAIN d.inputs}
RequiredRoles(d) == {d.inputs[i].role : i \in {k \in DOMAIN d.inputs : d.inputs[k].required}}
InputFor(d, r)   == d.inputs[CHOOSE i \in DOMAIN d.inputs : d.inputs[i].role = r]

\* One file the loader accepts.
Loadable(d) ==
    /\ Cardinality(KnownRoles(d)) = Len(d.inputs)
    /\ d.quality <=> d.supported_quality_levels # <<>>
    /\ d.output_type = "audio" => d.supported_aspect_ratios = <<>> /\ ~d.extend
    /\ d.required \/ d.inputs # <<>>
    /\ \/ /\ d.duration_mode = "source"
          /\ d.supported_durations = <<>>
          /\ \E i \in DOMAIN d.inputs : d.inputs[i].required /\ d.inputs[i].kind # "image"
       \/ /\ d.duration_mode # "source"
          /\ d.supported_durations # <<>>
          /\ ToSet(d.supported_durations) \subseteq
                 IF d.duration_mode = "minutes" THEN Minutes ELSE DOMAIN Seconds

\* The API starts on a directory only when every file in it loads.
Starts(catalogue) ==
    /\ catalogue # {}
    /\ \A d \in catalogue : Loadable(d)
    /\ \A d, e \in catalogue : d.id = e.id => d = e

Definition(id) == CHOOSE d \in registry : d.id = id

-----------------------------------------------------------------------------
(* The form of a tool: what it offers, starts from and lets through. *)

OfferedDurations(d) == IF d.duration_mode = "source" THEN <<>> ELSE d.supported_durations
OfferedLevels(d)    == IF d.quality THEN d.supported_quality_levels ELSE <<>>
OfferedModes(d)     == IF d.prompt_modes THEN PromptModes ELSE <<>>
OfferedDialogue(d)  == IF d.prompt_modes THEN DialogueLanguages ELSE <<>>
OfferedLyrics(d)    == IF d.lyrics THEN LyricLanguages ELSE <<>>

First(choices) == IF choices = <<>> THEN None ELSE Head(choices)

DefaultValues(d) ==
    [prompt           |-> [words |-> 0, pad |-> 0],
     duration         |-> First(OfferedDurations(d)),
     aspectRatio      |-> First(d.supported_aspect_ratios),
     quality          |-> First(OfferedLevels(d)),
     seedLocked       |-> FALSE,
     lyrics           |-> "",
     lyricsLanguage   |-> First(OfferedLyrics(d)),
     promptMode       |-> First(OfferedModes(d)),
     dialogueLanguage |-> First(OfferedDialogue(d)),
     inputs           |-> <<>>]  \* only the roles that are filled

\* A value kept when the tool offers it, the tool's own default otherwise.
Pick(value, choices) == IF value \in ToSet(choices) THEN value ELSE First(choices)

\* Mutation: only the fields the tool has a control for are looked at, so the
\* others keep what the last tool left in them.
PreserveAll(d, v) ==
    [v EXCEPT !.duration = IF OfferedDurations(d) = <<>> THEN @ ELSE Pick(@, OfferedDurations(d)),
              !.aspectRatio = Pick(@, d.supported_aspect_ratios),
              !.inputs = <<>>]

\* A switch of tools: settings the new tool offers stay, media never does.
PreserveValues(d, v) ==
    [DefaultValues(d) EXCEPT
         !.prompt           = v.prompt,
         !.seedLocked       = v.seedLocked,
         !.lyrics           = IF d.lyrics THEN v.lyrics ELSE @,
         !.lyricsLanguage   = Pick(v.lyricsLanguage, OfferedLyrics(d)),
         !.promptMode       = Pick(v.promptMode, OfferedModes(d)),
         !.dialogueLanguage = Pick(v.dialogueLanguage, OfferedDialogue(d)),
         !.duration         = Pick(v.duration, d.supported_durations),
         !.aspectRatio      = Pick(v.aspectRatio, d.supported_aspect_ratios),
         !.quality          = Pick(v.quality, OfferedLevels(d))]

\* The asset of a link becomes the first required input, when there is one.
WithSource(d, v, source) ==
    IF source = {} \/ RequiredRoles(d) = {} THEN v
    ELSE LET role == d.inputs[CHOOSE i \in DOMAIN d.inputs :
                         /\ d.inputs[i].required
                         /\ \A k \in 1..(i - 1) : ~d.inputs[k].required].role
             a    == CHOOSE a \in source : TRUE
         IN  [v EXCEPT !.inputs = Setting(@, role, a)]

\* Mutation: every input of the job is restored, the API's own included.
RestoredAll(d, inputs) == inputs

\* Mutation: the media of a job is not among the settings that are reused.
RestoredNone(d, inputs) == <<>>

Restored(d, inputs) == Restrict(inputs, KnownRoles(d) \cap DOMAIN inputs)

\* "Reuse settings": the form of tool d filled from a job of any tool.
ValuesFromJob(d, job) ==
    LET asked == job.request IN
    [prompt           |-> asked.prompt,
     duration         |-> Pick(asked.duration, d.supported_durations),
     aspectRatio      |-> Pick(asked.aspect_ratio, d.supported_aspect_ratios),
     quality          |-> Pick(asked.quality, OfferedLevels(d)),
     seedLocked       |-> asked.seed,
     lyrics           |-> IF d.lyrics /\ asked.lyrics # None THEN asked.lyrics ELSE "",
     lyricsLanguage   |-> Pick(asked.lyrics_language, OfferedLyrics(d)),
     promptMode       |-> Pick(asked.prompt_mode, OfferedModes(d)),
     dialogueLanguage |-> Pick(asked.dialogue_language, OfferedDialogue(d)),
     inputs           |-> Restored(d, job.inputs)]

\* A field that must hold an offered choice, and None where none is offered.
Unchosen(value, choices) ==
    IF choices = <<>> THEN value # None ELSE value \notin ToSet(choices)

\* The fields the form of d finds fault with.
FormIssues(d, v) ==
    LET Faulty == [prompt           |-> \/ Length(v.prompt) > d.max_length
                                        \/ d.required /\ v.prompt.words = 0,
                   duration         |-> Unchosen(v.duration, OfferedDurations(d)),
                   aspectRatio      |-> Unchosen(v.aspectRatio, d.supported_aspect_ratios),
                   quality          |-> Unchosen(v.quality, OfferedLevels(d)),
                   lyrics           |-> ~d.lyrics /\ TrimmedSheet(v.lyrics) # "",
                   lyricsLanguage   |-> Unchosen(v.lyricsLanguage, OfferedLyrics(d)),
                   promptMode       |-> Unchosen(v.promptMode, OfferedModes(d)),
                   dialogueLanguage |-> /\ v.dialogueLanguage # None
                                        /\ Unchosen(v.dialogueLanguage, OfferedDialogue(d)),
                   inputs           |-> ~(RequiredRoles(d) \subseteq DOMAIN v.inputs)]
    IN  {field \in DOMAIN Faulty : Faulty[field]}

-----------------------------------------------------------------------------
(* The request, and the API's judgement of it. *)

When(condition, value) == IF condition THEN value ELSE None

\* Form values as the body of POST /generations.
ToCreateInput(d, v) ==
    LET director == d.prompt_modes /\ v.promptMode = "director" IN
    [workflow          |-> d.id,
     prompt            |-> Trimmed(v.prompt),
     duration          |-> v.duration,
     aspect_ratio      |-> When(d.supported_aspect_ratios # <<>>, v.aspectRatio),
     quality           |-> When(OfferedLevels(d) # <<>>, v.quality),
     seed              |-> d.seed /\ v.seedLocked,
     lyrics            |-> When(d.lyrics /\ TrimmedSheet(v.lyrics) # "", v.lyrics),
     lyrics_language   |-> When(d.lyrics, v.lyricsLanguage),
     prompt_mode       |-> When(director, "director"),
     dialogue_language |-> When(director, v.dialogueLanguage),
     inputs            |-> v.inputs]

\* The fields validate_request reports, none when the request is in order.
Problems(d, r) ==
    LET Faulty == [prompt            |-> \/ d.required /\ r.prompt.words = 0
                                         \/ Length(r.prompt) > d.max_length,
                   duration          |-> IF d.duration_mode = "source" THEN r.duration # None
                                         ELSE r.duration \notin ToSet(d.supported_durations),
                   aspect_ratio      |-> Unchosen(r.aspect_ratio, d.supported_aspect_ratios),
                   quality           |-> Unchosen(r.quality, d.supported_quality_levels),
                   lyrics            |-> ~d.lyrics /\ r.lyrics # None,
                   lyrics_language   |-> ~d.lyrics /\ r.lyrics_language # None,
                   prompt_mode       |-> /\ r.prompt_mode # None
                                         /\ Unchosen(r.prompt_mode, OfferedModes(d)),
                   dialogue_language |-> /\ r.dialogue_language # None
                                         /\ \/ r.prompt_mode # "director"
                                            \/ Unchosen(r.dialogue_language, OfferedDialogue(d)),
                   missing           |-> ~(RequiredRoles(d) \subseteq DOMAIN r.inputs),
                   unknown           |-> ~(DOMAIN r.inputs \subseteq KnownRoles(d))]
    IN  {field \in DOMAIN Faulty : Faulty[field]}

\* _validate_inputs: every asset is of the kind its role expects.
KindsFit(d, r) == \A role \in DOMAIN r.inputs : r.inputs[role].kind = InputFor(d, role).kind

\* The completed job whose output an asset is, at most one.
Producers(a) == {j \in DOMAIN jobs : a.job = j /\ jobs[j].status = "completed"}

\* Mutation: an extension of an extension hands on the lineage unchanged.
InheritedAsIs(parent) == parent.lineage

\* An extension's own lineage, grown by what the extension itself adds.
Inherited(parent) ==
    [i \in DOMAIN parent.lineage |->
        [parent.lineage[i] EXCEPT !.prior_seconds = @ + Seconds[parent.request.duration]]]

\* What an extension stores of the story it continues: nothing, or one record.
Lineage(r) ==
    IF r.workflow # Extender \/ "source_video" \notin DOMAIN r.inputs
       \/ Producers(r.inputs["source_video"]) = {} THEN <<>>
    ELSE LET parent == jobs[CHOOSE j \in Producers(r.inputs["source_video"]) : TRUE]
             asked  == parent.request
         IN  IF asked.workflow = Extender THEN Inherited(parent)
             ELSE IF asked.prompt_mode # "director" THEN <<>>
             ELSE <<[idea          |-> asked.prompt,
                     language      |-> IF asked.dialogue_language = None THEN "auto"
                                       ELSE asked.dialogue_language,
                     prior_seconds |-> Seconds[asked.duration],
                     identity      |-> Restrict(parent.inputs,
                                          {"source_image"} \cap DOMAIN parent.inputs)]>>

\* The original image rides along as an input the request does not name.
Attached(inputs, lineage) ==
    IF lineage = <<>> \/ lineage[1].identity = <<>> THEN inputs
    ELSE Setting(inputs, "identity_image", lineage[1].identity["source_image"])

NewJob(r) ==
    [request |-> r, status |-> "running", lineage |-> Lineage(r),
     inputs  |-> Attached(r.inputs, Lineage(r))]

-----------------------------------------------------------------------------
(* What the user and the server do. *)

OutputOf(j) == [kind |-> Definition(jobs[j].request.workflow).output_type, job |-> j]

\* On arrival the tool's own running job, or its latest result, is put on screen.
Latest(d) ==
    LET Mine(status) == {j \in DOMAIN jobs : jobs[j].request.workflow = d.id
                                             /\ jobs[j].status = status}
    IN  IF Mine("running") # {} THEN Max(Mine("running"))
        ELSE IF Mine("completed") # {} THEN Max(Mine("completed")) ELSE 0

FormInit ==
    /\ registry \in {c \in Catalogues : Starts(c)}
    /\ page \in registry
    /\ values = DefaultValues(page)
    /\ lastSource = {}
    /\ shown = 0
    /\ jobs = <<>>
    /\ edits = 0

\* The controls the panel renders for the tool, each offering its choices.
Edited(v) ==
    \/ \E p \in Prompts : Length(p) <= page.max_length /\ v = [values EXCEPT !.prompt = p]
    \/ \E c \in ToSet(OfferedDurations(page)) : v = [values EXCEPT !.duration = c]
    \/ \E c \in ToSet(page.supported_aspect_ratios) : v = [values EXCEPT !.aspectRatio = c]
    \/ \E c \in ToSet(OfferedLevels(page)) : v = [values EXCEPT !.quality = c]
    \/ \E c \in ToSet(OfferedModes(page)) : v = [values EXCEPT !.promptMode = c]
    \/ /\ values.promptMode = "director"
       /\ \E c \in ToSet(OfferedDialogue(page)) : v = [values EXCEPT !.dialogueLanguage = c]
    \/ page.lyrics /\ \E s \in Sheets : v = [values EXCEPT !.lyrics = s]
    \/ \E c \in ToSet(OfferedLyrics(page)) : v = [values EXCEPT !.lyricsLanguage = c]
    \/ page.seed /\ v = [values EXCEPT !.seedLocked = ~@]

\* A dropzone: a file of the role's kind is uploaded, or the input is cleared.
Filled(v) ==
    \E role \in KnownRoles(page) :
        \/ v = [values EXCEPT !.inputs = Setting(@, role, Uploaded(InputFor(page, role).kind))]
        \/ /\ role \in DOMAIN values.inputs
           /\ v = [values EXCEPT !.inputs = Restrict(@, DOMAIN @ \ {role})]

Edit ==
    /\ edits < MaxEdits
    /\ edits' = edits + 1
    /\ Edited(values') \/ Filled(values')
    /\ UNCHANGED <<registry, page, lastSource, shown, jobs>>

\* The workspace stays and its tool or its link changes.  A hand-off already
\* applied is not applied again.
Follow(d, source) ==
    LET kept == IF d = page THEN values ELSE PreserveValues(d, values)
        new  == source # {} /\ source # lastSource
    IN  /\ page' = d
        /\ values' = IF new THEN WithSource(d, kept, source) ELSE kept
        /\ lastSource' = IF new THEN source ELSE lastSource
        /\ shown' = IF d = page THEN shown ELSE Latest(d)
        /\ UNCHANGED <<registry, jobs, edits>>

\* The workspace is mounted afresh.
Open(d, source) ==
    /\ page' = d
    /\ values' = WithSource(d, DefaultValues(d), source)
    /\ lastSource' = source
    /\ shown' = Latest(d)
    /\ UNCHANGED <<registry, jobs, edits>>

SwitchTool == \E d \in registry \ {page} : Follow(d, {}) \/ Open(d, {})

\* The workspace offers Extend by the definition of the tool on screen, for
\* whichever job is selected.
ExtendOffered == shown # 0 /\ jobs[shown].status = "completed" /\ page.extend

Extend ==
    /\ ExtendOffered
    /\ \E d \in registry :
           /\ d.id = Extender
           /\ Follow(d, {OutputOf(shown)}) \/ Open(d, {OutputOf(shown)})

\* A finished track is handed to the tool that makes a video of it.
FilmTrack ==
    /\ shown # 0 /\ jobs[shown].status = "completed" /\ OutputOf(shown).kind = "audio"
    /\ \E d \in registry :
           /\ d.id = "music-video"
           /\ Follow(d, {OutputOf(shown)}) \/ Open(d, {OutputOf(shown)})

\* The strip shows every recent job, whatever tool made it.
SelectJob ==
    /\ \E j \in DOMAIN jobs \ {shown} : shown' = j
    /\ UNCHANGED <<registry, page, values, lastSource, jobs, edits>>

ReuseSettings ==
    /\ shown # 0 /\ jobs[shown].status # "running"
    /\ values' = ValuesFromJob(page, jobs[shown])
    /\ UNCHANGED <<registry, page, lastSource, shown, jobs, edits>>

\* "Generate", and "Variation" too.  A request the API refuses changes nothing.
Submit ==
    LET r == ToCreateInput(page, values) IN
    /\ Len(jobs) < MaxJobs[registry]
    /\ FormIssues(page, values) = {}
    /\ Problems(page, r) = {} /\ KindsFit(page, r)
    /\ jobs' = Append(jobs, NewJob(r))
    /\ shown' = Len(jobs')
    /\ UNCHANGED <<registry, page, values, lastSource, edits>>

JobEnds ==
    /\ \E j \in DOMAIN jobs, end \in {"completed", "failed"} :
           /\ jobs[j].status = "running"
           /\ jobs' = [jobs EXCEPT ![j].status = end]
    /\ UNCHANGED <<registry, page, values, lastSource, shown, edits>>

FormNext ==
    \/ Edit \/ SwitchTool \/ Extend \/ FilmTrack \/ SelectJob
    \/ ReuseSettings \/ Submit \/ JobEnds

FormSpec == FormInit /\ [][FormNext]_formVars

-----------------------------------------------------------------------------
(* Properties. *)

\* Whatever the user chose, switched, reused or was handed, a form without
\* faults makes a request the API has no objection to: the two sets of rules
\* are derived separately from one definition, and agree on every definition
\* the loader lets through ("The two agree because both derive from the same
\* definition", form.ts:23).  The kind of a handed-over asset is judged apart.
SubmittedIsAccepted ==
    FormIssues(page, values) = {} => Problems(page, ToCreateInput(page, values)) = {}

\* No switch, reuse or hand-off leaves a control in a state its own tool
\* rejects: only an unwritten or overlong prompt and a missing input stand
\* between the user and Generate.  A fault on a control the panel does not
\* render could not be mended ("stale state survived a workflow switch",
\* form.ts:104).
ControlsAreValid == FormIssues(page, values) \subseteq {"prompt", "inputs"}

\* Reusing a job on its own tool and generating at once asks for the same again:
\* every setting and every input the user gave, and nothing the API attached
\* (form.ts:398).
ReuseAsksAgain ==
    \A j \in DOMAIN jobs :
        LET d == Definition(jobs[j].request.workflow)
        IN  ToCreateInput(d, ValuesFromJob(d, jobs[j])) = jobs[j].request

\* The job an extension continues, 0 when it continues an upload.
Parent(j) ==
    IF jobs[j].request.workflow # Extender THEN 0
    ELSE jobs[j].request.inputs["source_video"].job

\* The Director generation a chain of extensions goes back to, 0 when there is
\* none, and the seconds told from there to the end of job j.
Story[j \in DOMAIN jobs] ==
    LET r   == jobs[j].request
        own == IF r.duration = None THEN 0 ELSE Seconds[r.duration]
    IN  IF r.workflow # Extender
        THEN [root |-> IF r.prompt_mode = "director" THEN j ELSE 0, told |-> own]
        ELSE IF Parent(j) = 0 THEN [root |-> 0, told |-> own]
        ELSE [root |-> Story[Parent(j)].root, told |-> Story[Parent(j)].told + own]

\* However many times a video is extended, each extension carries the first
\* idea and language, the seconds of everything before it, and the first
\* photograph ("the third +10s still knows the whole story began four videos
\* ago", services/generation.py:212).
LineageIsWhole ==
    \A j \in {k \in DOMAIN jobs : jobs[k].request.workflow = Extender} :
        LET story == IF Parent(j) = 0 THEN [root |-> 0, told |-> 0] ELSE Story[Parent(j)]
            lineage == jobs[j].lineage
        IN  IF story.root = 0 THEN lineage = <<>>
            ELSE LET root == jobs[story.root]
                     Image(f, role) == IF role \in DOMAIN f THEN {f[role]} ELSE {}
                 IN  /\ Len(lineage) = 1
                     /\ lineage[1].idea = root.request.prompt
                     /\ lineage[1].language = root.request.dialogue_language
                     /\ lineage[1].prior_seconds = story.told
                     /\ Image(jobs[j].inputs, "identity_image") =
                            Image(root.inputs, "source_image")

=============================================================================
