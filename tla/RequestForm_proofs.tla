-------------------------- MODULE RequestForm_proofs --------------------------
(***************************************************************************)
(* Theorems about RequestForm, for every set of catalogues, every prompt   *)
(* and any number of edits and jobs: a form in order makes a request in    *)
(* order, no control is ever in a state its own tool rejects, a job reused *)
(* asks for the same again, and an extension carries the whole story it    *)
(* continues.  FormInv is the invariant of the first three, LineageInv     *)
(* with it of the last.                                                    *)
(***************************************************************************)
EXTENDS RequestForm, SequenceTheorems, WellFoundedInduction, TLAPS

(***************************************************************************)
(* Types.                                                                  *)
(***************************************************************************)
Text   == [words : Nat, pad : Nat]
Asset  == [kind : Kinds, job : Nat]
Inputs == UNION {[R -> Asset] : R \in SUBSET Names}

FormValues ==
    [prompt : Text, duration : Names, aspectRatio : Names, quality : Names,
     seedLocked : BOOLEAN, lyrics : Sheets, lyricsLanguage : Names, promptMode : Names,
     dialogueLanguage : Names, inputs : Inputs]

Request ==
    [workflow : Names, prompt : Text, duration : Names, aspect_ratio : Names,
     quality : Names, seed : BOOLEAN, lyrics : Sheets \cup {None}, lyrics_language : Names,
     prompt_mode : Names, dialogue_language : Names, inputs : Inputs]

Identity  == {f \in Inputs : DOMAIN f \subseteq {"source_image"}}
Beginning == [idea : Text, language : Names, prior_seconds : Nat, identity : Identity]

Job == [request : Request, status : {"running", "completed", "failed"},
        lineage : Seq(Beginning), inputs : Inputs]

\* A set of inputs, role by role.
LEMMA InputsAre ==
    /\ <<>> \in Inputs /\ DOMAIN <<>> = {}
    /\ \A f \in Inputs : /\ f = [r \in DOMAIN f |-> f[r]]
                         /\ \A r \in DOMAIN f : r \in Names /\ f[r] \in Asset
    /\ \A R \in SUBSET Names : \A f \in [R -> Asset] : f \in Inputs
  <1>1. \A R \in SUBSET Names : \A f \in [R -> Asset] : f \in Inputs
    BY DEF Inputs
  <1>2. ASSUME NEW f \in Inputs
        PROVE  /\ f = [r \in DOMAIN f |-> f[r]]
               /\ \A r \in DOMAIN f : r \in Names /\ f[r] \in Asset
    <2>1. PICK R \in SUBSET Names : f \in [R -> Asset]
      BY DEF Inputs
    <2> QED
      BY <2>1
  <1>3. <<>> \in [{} -> Asset] /\ DOMAIN <<>> = {}
    OBVIOUS
  <1> QED
    BY <1>1, <1>2, <1>3

\* Setting one input, and keeping some.
LEMMA SettingIs ==
    ASSUME NEW f \in Inputs, NEW role \in Names, NEW a \in Asset
    PROVE  /\ Setting(f, role, a) \in Inputs
           /\ DOMAIN Setting(f, role, a) = DOMAIN f \cup {role}
           /\ Setting(f, role, a)[role] = a
           /\ \A r \in DOMAIN f \ {role} : Setting(f, role, a)[r] = f[r]
  <1> DEFINE g == Setting(f, role, a)
             R == DOMAIN f \cup {role}
  <1>1. R \in SUBSET Names /\ \A r \in DOMAIN f : f[r] \in Asset
    BY InputsAre
  <1>2. g = [r \in R |-> IF r = role THEN a ELSE f[r]]
    BY DEF Setting
  <1>3. g \in [R -> Asset]
    BY <1>1, <1>2
  <1> QED
    BY <1>1, <1>2, <1>3, InputsAre

LEMMA RestrictIs ==
    ASSUME NEW f \in Inputs, NEW R \in SUBSET DOMAIN f
    PROVE  /\ Restrict(f, R) \in Inputs
           /\ DOMAIN Restrict(f, R) = R
           /\ \A r \in R : Restrict(f, R)[r] = f[r]
  <1>1. R \in SUBSET Names /\ \A r \in R : f[r] \in Asset
    BY InputsAre
  <1>2. Restrict(f, R) = [r \in R |-> f[r]]
    BY DEF Restrict
  <1>3. Restrict(f, R) \in [R -> Asset]
    BY <1>1, <1>2
  <1> QED
    BY <1>1, <1>2, <1>3, InputsAre

\* Inputs are told apart by their roles and assets.
LEMMA SameInputs ==
    ASSUME NEW f \in Inputs, NEW g \in Inputs, DOMAIN f = DOMAIN g,
           \A r \in DOMAIN f : f[r] = g[r]
    PROVE  f = g
  <1>1. f = [r \in DOMAIN f |-> f[r]] /\ g = [r \in DOMAIN g |-> g[r]]
    BY InputsAre
  <1> QED
    BY <1>1

(***************************************************************************)
(* Choices.                                                                *)
(***************************************************************************)
\* A control holds one of its tool's choices, and nothing where there is none.
OneOf(value, choices) == IF choices = <<>> THEN value = None ELSE value \in ToSet(choices)

\* What the form and the API call faulty is the opposite.
LEMMA UnchosenIsNot ==
    ASSUME NEW value, NEW choices
    PROVE  Unchosen(value, choices) <=> ~OneOf(value, choices)
  BY DEF Unchosen, OneOf

\* A picked value is one of the choices, and the value itself when it can be.
LEMMA PickFits ==
    ASSUME NEW value, NEW choices \in Seq(Names)
    PROVE  /\ Pick(value, choices) \in Names /\ OneOf(Pick(value, choices), choices)
           /\ First(choices) \in Names /\ OneOf(First(choices), choices)
           /\ OneOf(value, choices) => Pick(value, choices) = value
           /\ value \notin ToSet(choices) => Pick(value, choices) = First(choices)
  <1>1. /\ \A i \in DOMAIN choices : choices[i] \in Names
        /\ choices # <<>> => 1 \in DOMAIN choices /\ Head(choices) = choices[1]
        /\ choices = <<>> => DOMAIN choices = {}
    BY EmptySeq
  <1>2. First(choices) \in Names /\ OneOf(First(choices), choices)
    <2>1. CASE choices = <<>>
      BY <2>1, FormAssumption DEF First, OneOf
    <2>2. CASE choices # <<>>
      <3>1. First(choices) = choices[1] /\ choices[1] \in Names
        BY <1>1, <2>2 DEF First
      <3>2. choices[1] \in ToSet(choices)
        BY <1>1, <2>2 DEF ToSet
      <3> QED
        BY <2>2, <3>1, <3>2 DEF OneOf
    <2> QED
      BY <2>1, <2>2
  <1> QED
    BY <1>1, <1>2 DEF Pick, OneOf, ToSet, First
(***************************************************************************)
(* Definitions.                                                            *)
(***************************************************************************)
\* The choices every Director and every song has.
LEMMA NamedChoices ==
    /\ PromptModes \in Seq(Names) /\ DialogueLanguages \in Seq(Names)
    /\ LyricLanguages \in Seq(Names)
    /\ ToSet(PromptModes) = {"standard", "director"} /\ First(PromptModes) = "standard"
    /\ ToSet(DialogueLanguages) = {"auto", "german"} /\ First(DialogueLanguages) = "auto"
    /\ PromptModes # <<>> /\ DialogueLanguages # <<>> /\ LyricLanguages # <<>>
  <1>1. \A a, b : LET s == <<a, b>>
                  IN  /\ ToSet(s) = {a, b} /\ s # <<>> /\ First(s) = a
                      /\ a \in Names /\ b \in Names => s \in Seq(Names)
    BY DEF ToSet, First
  <1>2. {"standard", "director", "auto", "german", "English", "Urdu"} \subseteq Names
    BY <1>1, FormAssumption DEF PromptModes, DialogueLanguages, LyricLanguages
  <1>3. PromptModes \in Seq(Names) /\ DialogueLanguages \in Seq(Names) /\ LyricLanguages \in Seq(Names)
    BY <1>1, <1>2 DEF PromptModes, DialogueLanguages, LyricLanguages
  <1>4. /\ ToSet(PromptModes) = {"standard", "director"} /\ First(PromptModes) = "standard"
        /\ PromptModes # <<>>
    BY <1>1 DEF PromptModes
  <1>5. /\ ToSet(DialogueLanguages) = {"auto", "german"} /\ First(DialogueLanguages) = "auto"
        /\ DialogueLanguages # <<>>
    BY <1>1 DEF DialogueLanguages
  <1>6. LyricLanguages # <<>>
    BY <1>1 DEF LyricLanguages
  <1> QED
    BY <1>3, <1>4, <1>5, <1>6

\* What a definition that was loaded offers: the browser's rules and the API's speak of
\* the same lists.
LEMMA Offers ==
    ASSUME NEW c \in Catalogues, Starts(c), NEW d \in c
    PROVE  /\ d \in WorkflowDefinition
           /\ OfferedDurations(d) = d.supported_durations
           /\ OfferedLevels(d) = d.supported_quality_levels
           /\ OfferedDurations(d) \in Seq(Names) /\ d.supported_aspect_ratios \in Seq(Names)
           /\ OfferedLevels(d) \in Seq(Names) /\ OfferedModes(d) \in Seq(Names)
           /\ OfferedDialogue(d) \in Seq(Names) /\ OfferedLyrics(d) \in Seq(Names)
           /\ KnownRoles(d) \subseteq Names /\ RequiredRoles(d) \subseteq KnownRoles(d)
  <1>1. d \in WorkflowDefinition /\ Loadable(d)
    BY FormAssumption DEF Starts
  <1>2. /\ OfferedDurations(d) = d.supported_durations
        /\ d.supported_durations \in Seq(Names) /\ d.supported_aspect_ratios \in Seq(Names)
    BY <1>1 DEF Loadable, OfferedDurations, WorkflowDefinition
  <1>3. OfferedLevels(d) = d.supported_quality_levels /\ d.supported_quality_levels \in Seq(Names)
    BY <1>1 DEF Loadable, OfferedLevels, WorkflowDefinition
  <1>4. /\ OfferedModes(d) \in Seq(Names) /\ OfferedDialogue(d) \in Seq(Names)
        /\ OfferedLyrics(d) \in Seq(Names)
    <2>1. /\ PromptModes \in Seq(Names) /\ DialogueLanguages \in Seq(Names)
          /\ LyricLanguages \in Seq(Names) /\ <<>> \in Seq(Names)
      BY NamedChoices, EmptySeq
    <2> QED
      BY <2>1 DEF OfferedModes, OfferedDialogue, OfferedLyrics
  <1>5. \A i \in DOMAIN d.inputs : d.inputs[i].role \in Names
    <2>1. d.inputs \in Seq(InputSpec)
      BY <1>1 DEF WorkflowDefinition
    <2>2. \A i \in DOMAIN d.inputs : d.inputs[i] \in InputSpec
      BY <2>1
    <2> QED
      BY <2>2 DEF InputSpec
  <1> QED
    BY <1>1, <1>2, <1>3, <1>4, <1>5 DEF KnownRoles, RequiredRoles

\* A registry has one definition of each id.
LEMMA DefinitionIs ==
    ASSUME Starts(registry), NEW d \in registry
    PROVE  Definition(d.id) = d
  BY DEF Definition, Starts

\* The kinds and roles of a definition's inputs.
LEMMA InputIs ==
    ASSUME NEW d \in WorkflowDefinition, NEW role \in KnownRoles(d)
    PROVE  InputFor(d, role).kind \in Kinds /\ role \in Names
  <1>1. d.inputs \in Seq(InputSpec)
    BY DEF WorkflowDefinition
  <1>2. PICK i \in DOMAIN d.inputs : d.inputs[i].role = role
    BY DEF KnownRoles
  <1>3. PICK k \in DOMAIN d.inputs : InputFor(d, role) = d.inputs[k]
    BY <1>2 DEF InputFor
  <1>4. d.inputs[i] \in InputSpec /\ d.inputs[k] \in InputSpec
    BY <1>1
  <1> QED
    BY <1>2, <1>3, <1>4 DEF InputSpec

\* A form with a required input has a first one.
LEMMA FirstRequired ==
    ASSUME NEW d \in WorkflowDefinition, RequiredRoles(d) # {}
    PROVE  \E i \in DOMAIN d.inputs : /\ d.inputs[i].required
                                      /\ \A k \in 1..(i - 1) : ~d.inputs[k].required
  <1>1. d.inputs \in Seq(InputSpec) /\ DOMAIN d.inputs = 1..Len(d.inputs) /\ Len(d.inputs) \in Nat
    BY DEF WorkflowDefinition
  <1> DEFINE T == {k \in DOMAIN d.inputs : d.inputs[k].required}
  <1>2. T \subseteq Nat /\ T # {}
    BY <1>1 DEF RequiredRoles
  <1>3. PICK i \in T : \A k \in T : ~(<<k, i>> \in OpToRel(<, Nat))
    <2> HIDE DEF T
    <2> QED
      BY <1>2, NatLessThanWellFounded, WFMin
  <1>4. \A k \in T : ~(k < i)
    BY <1>2, <1>3 DEF OpToRel
  <1>5. ASSUME NEW k \in 1..(i - 1) PROVE ~d.inputs[k].required
    <2>1. k \in DOMAIN d.inputs /\ k < i
      BY <1>1, <1>2
    <2> QED
      BY <1>4, <2>1
  <1> QED
    BY <1>5

(***************************************************************************)
(* Forms.                                                                  *)
(***************************************************************************)
\* Every control holds what its tool offers, and nothing is written where there is no box.
ControlsFit(d, v) ==
    /\ OneOf(v.duration, OfferedDurations(d)) /\ OneOf(v.aspectRatio, d.supported_aspect_ratios)
    /\ OneOf(v.quality, OfferedLevels(d))     /\ OneOf(v.lyricsLanguage, OfferedLyrics(d))
    /\ OneOf(v.promptMode, OfferedModes(d))   /\ OneOf(v.dialogueLanguage, OfferedDialogue(d))
    /\ ~d.lyrics => v.lyrics = ""

\* The form of d in order, but for its text and the inputs still missing.
FormOf(d, v) ==
    /\ v \in FormValues
    /\ ControlsFit(d, v)
    /\ DOMAIN v.inputs \subseteq KnownRoles(d)

\* A form keeps its order when its text and its seed change and its inputs are known.
LEMMA SameControls ==
    ASSUME NEW d, NEW v, FormOf(d, v), NEW t \in Text, NEW b \in BOOLEAN,
           NEW f \in Inputs, DOMAIN f \subseteq KnownRoles(d),
           NEW w, w = [v EXCEPT !.prompt = t, !.seedLocked = b, !.inputs = f]
    PROVE  FormOf(d, w)
  <1>1. v \in FormValues
    BY DEF FormOf
  <1>2. /\ w \in FormValues /\ w.inputs = f /\ w.lyrics = v.lyrics
        /\ w.duration = v.duration /\ w.aspectRatio = v.aspectRatio /\ w.quality = v.quality
        /\ w.lyricsLanguage = v.lyricsLanguage /\ w.promptMode = v.promptMode
        /\ w.dialogueLanguage = v.dialogueLanguage
    BY <1>1 DEF FormValues
  <1> QED
    BY <1>2 DEF FormOf, ControlsFit

\* Whatever is picked for the six controls, they hold one of their tool's choices.
LEMMA PickedFits ==
    ASSUME NEW c \in Catalogues, Starts(c), NEW d \in c, NEW x
    PROVE  /\ Pick(x, OfferedDurations(d)) \in Names
           /\ Pick(x, d.supported_aspect_ratios) \in Names
           /\ Pick(x, OfferedLevels(d)) \in Names /\ Pick(x, OfferedLyrics(d)) \in Names
           /\ Pick(x, OfferedModes(d)) \in Names  /\ Pick(x, OfferedDialogue(d)) \in Names
           /\ OneOf(Pick(x, OfferedDurations(d)), OfferedDurations(d))
           /\ OneOf(Pick(x, d.supported_aspect_ratios), d.supported_aspect_ratios)
           /\ OneOf(Pick(x, OfferedLevels(d)), OfferedLevels(d))
           /\ OneOf(Pick(x, OfferedLyrics(d)), OfferedLyrics(d))
           /\ OneOf(Pick(x, OfferedModes(d)), OfferedModes(d))
           /\ OneOf(Pick(x, OfferedDialogue(d)), OfferedDialogue(d))
  <1>1. /\ OfferedDurations(d) \in Seq(Names) /\ d.supported_aspect_ratios \in Seq(Names)
        /\ OfferedLevels(d) \in Seq(Names) /\ OfferedModes(d) \in Seq(Names)
        /\ OfferedDialogue(d) \in Seq(Names) /\ OfferedLyrics(d) \in Seq(Names)
    BY Offers
  <1>2. \A choices \in Seq(Names) :
            Pick(x, choices) \in Names /\ OneOf(Pick(x, choices), choices)
    BY PickFits
  <1> QED
    BY <1>1, <1>2

\* The form a tool starts with.
LEMMA DefaultFits ==
    ASSUME NEW c \in Catalogues, Starts(c), NEW d \in c
    PROVE  FormOf(d, DefaultValues(d)) /\ DefaultValues(d).inputs = <<>>
  <1> DEFINE v == DefaultValues(d)
             Good(x, choices) == x \in Names /\ OneOf(x, choices)
  <1>1. /\ OfferedDurations(d) \in Seq(Names) /\ d.supported_aspect_ratios \in Seq(Names)
        /\ OfferedLevels(d) \in Seq(Names) /\ OfferedModes(d) \in Seq(Names)
        /\ OfferedDialogue(d) \in Seq(Names) /\ OfferedLyrics(d) \in Seq(Names)
    BY Offers
  <1>2. \A choices \in Seq(Names) : Good(First(choices), choices)
    BY PickFits
  <1>3. v = [prompt |-> v.prompt, duration |-> v.duration, aspectRatio |-> v.aspectRatio,
             quality |-> v.quality, seedLocked |-> v.seedLocked, lyrics |-> v.lyrics,
             lyricsLanguage |-> v.lyricsLanguage, promptMode |-> v.promptMode,
             dialogueLanguage |-> v.dialogueLanguage, inputs |-> v.inputs]
    BY DEF DefaultValues
  <1>4. /\ v.prompt = [words |-> 0, pad |-> 0] /\ v.seedLocked = FALSE
        /\ v.lyrics = "" /\ v.inputs = <<>>
    BY DEF DefaultValues
  <1>5. /\ Good(v.duration, OfferedDurations(d))
        /\ Good(v.aspectRatio, d.supported_aspect_ratios)
        /\ Good(v.quality, OfferedLevels(d))
        /\ Good(v.lyricsLanguage, OfferedLyrics(d))
        /\ Good(v.promptMode, OfferedModes(d))
        /\ Good(v.dialogueLanguage, OfferedDialogue(d))
    <2> HIDE DEF Good
    <2> QED
      BY <1>1, <1>2 DEF DefaultValues
  <1> HIDE DEF v
  <1>6. [words |-> 0, pad |-> 0] \in Text /\ "" \in Sheets
    BY DEF Text, Sheets
  <1>7. v \in FormValues
    BY <1>3, <1>4, <1>5, <1>6, InputsAre DEF FormValues
  <1>8. FormOf(d, v)
    BY <1>4, <1>5, <1>7, InputsAre DEF FormOf, ControlsFit
  <1> QED
    BY <1>4, <1>8 DEF v

\* A switch of tools gives the new tool a form of its own.
LEMMA PreserveFits ==
    ASSUME NEW c \in Catalogues, Starts(c), NEW d \in c, NEW v \in FormValues
    PROVE  FormOf(d, PreserveValues(d, v))
  <1> DEFINE w == PreserveValues(d, v)
  <1>1. OfferedDurations(d) = d.supported_durations /\ DefaultValues(d) \in FormValues
    BY Offers, DefaultFits DEF FormOf
  <1>2. DefaultValues(d).lyrics = "" /\ DefaultValues(d).inputs = <<>>
    BY DEF DefaultValues
  <1>3. /\ w.duration         = Pick(v.duration, OfferedDurations(d))
        /\ w.aspectRatio      = Pick(v.aspectRatio, d.supported_aspect_ratios)
        /\ w.quality          = Pick(v.quality, OfferedLevels(d))
        /\ w.lyricsLanguage   = Pick(v.lyricsLanguage, OfferedLyrics(d))
        /\ w.promptMode       = Pick(v.promptMode, OfferedModes(d))
        /\ w.dialogueLanguage = Pick(v.dialogueLanguage, OfferedDialogue(d))
        /\ w.lyrics = IF d.lyrics THEN v.lyrics ELSE ""
        /\ w.inputs = <<>>
    BY <1>1, <1>2 DEF PreserveValues, FormValues
  <1>4. w \in FormValues
    <2>1. /\ w.duration \in Names       /\ w.aspectRatio \in Names
          /\ w.quality \in Names        /\ w.lyricsLanguage \in Names
          /\ w.promptMode \in Names     /\ w.dialogueLanguage \in Names
      <3> HIDE DEF w
      <3> QED
        BY <1>3, PickedFits
    <2> QED
      BY <1>1, <1>3, <2>1 DEF PreserveValues, FormValues
  <1> HIDE DEF w
  <1>5. ControlsFit(d, w)
    BY <1>3, PickedFits DEF ControlsFit
  <1>6. DOMAIN w.inputs \subseteq KnownRoles(d)
    BY <1>3, InputsAre
  <1> QED
    BY <1>4, <1>5, <1>6 DEF FormOf, w

\* A hand-off fills an input the form knows, or none.
LEMMA WithSourceFits ==
    ASSUME NEW c \in Catalogues, Starts(c), NEW d \in c, NEW v, FormOf(d, v),
           NEW source \in SUBSET Asset
    PROVE  FormOf(d, WithSource(d, v, source))
  <1>1. CASE source = {} \/ RequiredRoles(d) = {}
    BY <1>1 DEF WithSource
  <1>2. CASE source # {} /\ RequiredRoles(d) # {}
    <2> DEFINE Wanted(i) == /\ d.inputs[i].required
                            /\ \A k \in 1..(i - 1) : ~d.inputs[k].required
               n == CHOOSE i \in DOMAIN d.inputs : Wanted(i)
               role == d.inputs[n].role
               a == CHOOSE x \in source : TRUE
    <2>1. d \in WorkflowDefinition
      BY Offers
    <2>2. n \in DOMAIN d.inputs
      BY <1>2, <2>1, FirstRequired
    <2>3. role \in KnownRoles(d) /\ role \in Names
      BY <2>1, <2>2, InputIs DEF KnownRoles
    <2>4. a \in Asset
      BY <1>2
    <2>5. WithSource(d, v, source) = [v EXCEPT !.inputs = Setting(v.inputs, role, a)]
      BY <1>2 DEF WithSource
    <2> HIDE DEF role, a
    <2>6. v \in FormValues /\ v.inputs \in Inputs /\ DOMAIN v.inputs \subseteq KnownRoles(d)
      BY DEF FormOf, FormValues
    <2>7. /\ Setting(v.inputs, role, a) \in Inputs
          /\ DOMAIN Setting(v.inputs, role, a) \subseteq KnownRoles(d)
      <3>1. PICK f \in Inputs : f = v.inputs
        BY <2>6
      <3>2. Setting(f, role, a) \in Inputs /\ DOMAIN Setting(f, role, a) = DOMAIN f \cup {role}
        BY <2>3, <2>4, SettingIs
      <3> QED
        BY <2>3, <2>6, <3>1, <3>2
    <2>8. v.prompt \in Text /\ v.seedLocked \in BOOLEAN
      BY <2>6 DEF FormValues
    <2>9. WithSource(d, v, source) = [v EXCEPT !.prompt = v.prompt, !.seedLocked = v.seedLocked,
                                               !.inputs = Setting(v.inputs, role, a)]
      BY <2>5, <2>6 DEF FormValues
    <2> QED
      BY <2>7, <2>8, <2>9, SameControls
  <1> QED
    BY <1>1, <1>2

\* The inputs of a job that a form takes over are those it knows.
LEMMA RestoredIs ==
    ASSUME NEW d, NEW f \in Inputs
    PROVE  /\ Restored(d, f) \in Inputs
           /\ DOMAIN Restored(d, f) = KnownRoles(d) \cap DOMAIN f
           /\ \A r \in KnownRoles(d) \cap DOMAIN f : Restored(d, f)[r] = f[r]
  <1> DEFINE R == KnownRoles(d) \cap DOMAIN f
  <1>1. R \in SUBSET DOMAIN f
    OBVIOUS
  <1> QED
    BY <1>1, RestrictIs DEF Restored

\* A job of any tool fills the form of this one in order.
LEMMA ReuseFits ==
    ASSUME NEW c \in Catalogues, Starts(c), NEW d \in c, NEW job \in Job
    PROVE  FormOf(d, ValuesFromJob(d, job))
  <1> DEFINE asked == job.request
             w == ValuesFromJob(d, job)
  <1>1. OfferedDurations(d) = d.supported_durations
    BY Offers
  <1>2. /\ w.duration         = Pick(asked.duration, OfferedDurations(d))
        /\ w.aspectRatio      = Pick(asked.aspect_ratio, d.supported_aspect_ratios)
        /\ w.quality          = Pick(asked.quality, OfferedLevels(d))
        /\ w.lyricsLanguage   = Pick(asked.lyrics_language, OfferedLyrics(d))
        /\ w.promptMode       = Pick(asked.prompt_mode, OfferedModes(d))
        /\ w.dialogueLanguage = Pick(asked.dialogue_language, OfferedDialogue(d))
        /\ w.lyrics = IF d.lyrics /\ asked.lyrics # None THEN asked.lyrics ELSE ""
        /\ w.inputs = Restored(d, job.inputs)
        /\ w.prompt = asked.prompt /\ w.seedLocked = asked.seed
    BY <1>1 DEF ValuesFromJob
  <1>3. w = [prompt |-> w.prompt, duration |-> w.duration, aspectRatio |-> w.aspectRatio,
             quality |-> w.quality, seedLocked |-> w.seedLocked, lyrics |-> w.lyrics,
             lyricsLanguage |-> w.lyricsLanguage, promptMode |-> w.promptMode,
             dialogueLanguage |-> w.dialogueLanguage, inputs |-> w.inputs]
    BY DEF ValuesFromJob
  <1> HIDE DEF w
  <1>4. asked \in Request /\ job.inputs \in Inputs
    BY DEF Job
  <1>5. w.prompt \in Text /\ w.seedLocked \in BOOLEAN /\ w.lyrics \in Sheets
    BY <1>2, <1>4 DEF Request, Sheets
  <1>6. w.inputs \in Inputs /\ DOMAIN w.inputs \subseteq KnownRoles(d)
    BY <1>2, <1>4, RestoredIs
  <1>7. /\ w.duration \in Names       /\ w.aspectRatio \in Names
        /\ w.quality \in Names        /\ w.lyricsLanguage \in Names
        /\ w.promptMode \in Names     /\ w.dialogueLanguage \in Names
    BY <1>2, PickedFits
  <1>8. w \in FormValues
    BY <1>3, <1>5, <1>6, <1>7 DEF FormValues
  <1>9. ControlsFit(d, w)
    BY <1>2, PickedFits DEF ControlsFit
  <1> QED
    BY <1>6, <1>8, <1>9 DEF FormOf, w

(***************************************************************************)
(* The two sets of rules.                                                  *)
(***************************************************************************)
\* The faults of a form, one by one.
LEMMA IssuesAre ==
    ASSUME NEW d, NEW v, NEW x
    PROVE  x \in FormIssues(d, v) <=>
             \/ x = "prompt" /\ (Length(v.prompt) > d.max_length \/ (d.required /\ v.prompt.words = 0))
             \/ x = "duration" /\ (Unchosen(v.duration, OfferedDurations(d)))
             \/ x = "aspectRatio" /\ (Unchosen(v.aspectRatio, d.supported_aspect_ratios))
             \/ x = "quality" /\ (Unchosen(v.quality, OfferedLevels(d)))
             \/ x = "lyrics" /\ (~d.lyrics /\ TrimmedSheet(v.lyrics) # "")
             \/ x = "lyricsLanguage" /\ (Unchosen(v.lyricsLanguage, OfferedLyrics(d)))
             \/ x = "promptMode" /\ (Unchosen(v.promptMode, OfferedModes(d)))
             \/ x = "dialogueLanguage" /\ (v.dialogueLanguage # None /\ Unchosen(v.dialogueLanguage, OfferedDialogue(d)))
             \/ x = "inputs" /\ (~(RequiredRoles(d) \subseteq DOMAIN v.inputs))
  <1> DEFINE Faulty == [prompt           |-> Length(v.prompt) > d.max_length \/ (d.required /\ v.prompt.words = 0),
                       duration         |-> Unchosen(v.duration, OfferedDurations(d)),
                       aspectRatio      |-> Unchosen(v.aspectRatio, d.supported_aspect_ratios),
                       quality          |-> Unchosen(v.quality, OfferedLevels(d)),
                       lyrics           |-> ~d.lyrics /\ TrimmedSheet(v.lyrics) # "",
                       lyricsLanguage   |-> Unchosen(v.lyricsLanguage, OfferedLyrics(d)),
                       promptMode       |-> Unchosen(v.promptMode, OfferedModes(d)),
                       dialogueLanguage |-> v.dialogueLanguage # None /\ Unchosen(v.dialogueLanguage, OfferedDialogue(d)),
                       inputs           |-> ~(RequiredRoles(d) \subseteq DOMAIN v.inputs)]
  <1>1. FormIssues(d, v) = {y \in DOMAIN Faulty : Faulty[y]}
    BY DEF FormIssues
  <1>2. x \in DOMAIN Faulty <=> \/ x = "prompt" \/ x = "duration" \/ x = "aspectRatio"
                                \/ x = "quality" \/ x = "lyrics" \/ x = "lyricsLanguage"
                                \/ x = "promptMode" \/ x = "dialogueLanguage" \/ x = "inputs"
    BY Zenon
  <1>3. Faulty["prompt"] <=> (Length(v.prompt) > d.max_length \/ (d.required /\ v.prompt.words = 0))
    BY Zenon
  <1>4. Faulty["duration"] <=> (Unchosen(v.duration, OfferedDurations(d)))
    BY Zenon
  <1>5. Faulty["aspectRatio"] <=> (Unchosen(v.aspectRatio, d.supported_aspect_ratios))
    BY Zenon
  <1>6. Faulty["quality"] <=> (Unchosen(v.quality, OfferedLevels(d)))
    BY Zenon
  <1>7. Faulty["lyrics"] <=> (~d.lyrics /\ TrimmedSheet(v.lyrics) # "")
    BY Zenon
  <1>8. Faulty["lyricsLanguage"] <=> (Unchosen(v.lyricsLanguage, OfferedLyrics(d)))
    BY Zenon
  <1>9. Faulty["promptMode"] <=> (Unchosen(v.promptMode, OfferedModes(d)))
    BY Zenon
  <1>10. Faulty["dialogueLanguage"] <=> (v.dialogueLanguage # None /\ Unchosen(v.dialogueLanguage, OfferedDialogue(d)))
    BY Zenon
  <1>11. Faulty["inputs"] <=> (~(RequiredRoles(d) \subseteq DOMAIN v.inputs))
    BY Zenon
  <1> HIDE DEF Faulty
  <1> QED
    BY Zenon, <1>1, <1>2, <1>3, <1>4, <1>5, <1>6, <1>7, <1>8, <1>9, <1>10, <1>11

\* The faults of a request, one by one.
LEMMA ProblemsAre ==
    ASSUME NEW d, NEW r, NEW x
    PROVE  x \in Problems(d, r) <=>
             \/ x = "prompt" /\ ((d.required /\ r.prompt.words = 0) \/ Length(r.prompt) > d.max_length)
             \/ x = "duration" /\ (IF d.duration_mode = "source" THEN r.duration # None ELSE r.duration \notin ToSet(d.supported_durations))
             \/ x = "aspect_ratio" /\ (Unchosen(r.aspect_ratio, d.supported_aspect_ratios))
             \/ x = "quality" /\ (Unchosen(r.quality, d.supported_quality_levels))
             \/ x = "lyrics" /\ (~d.lyrics /\ r.lyrics # None)
             \/ x = "lyrics_language" /\ (~d.lyrics /\ r.lyrics_language # None)
             \/ x = "prompt_mode" /\ (r.prompt_mode # None /\ Unchosen(r.prompt_mode, OfferedModes(d)))
             \/ x = "dialogue_language" /\ (r.dialogue_language # None /\ (r.prompt_mode # "director" \/ Unchosen(r.dialogue_language, OfferedDialogue(d))))
             \/ x = "missing" /\ (~(RequiredRoles(d) \subseteq DOMAIN r.inputs))
             \/ x = "unknown" /\ (~(DOMAIN r.inputs \subseteq KnownRoles(d)))
  <1> DEFINE Faulty == [prompt            |-> (d.required /\ r.prompt.words = 0) \/ Length(r.prompt) > d.max_length,
                       duration          |-> IF d.duration_mode = "source" THEN r.duration # None ELSE r.duration \notin ToSet(d.supported_durations),
                       aspect_ratio      |-> Unchosen(r.aspect_ratio, d.supported_aspect_ratios),
                       quality           |-> Unchosen(r.quality, d.supported_quality_levels),
                       lyrics            |-> ~d.lyrics /\ r.lyrics # None,
                       lyrics_language   |-> ~d.lyrics /\ r.lyrics_language # None,
                       prompt_mode       |-> r.prompt_mode # None /\ Unchosen(r.prompt_mode, OfferedModes(d)),
                       dialogue_language |-> r.dialogue_language # None /\ (r.prompt_mode # "director" \/ Unchosen(r.dialogue_language, OfferedDialogue(d))),
                       missing           |-> ~(RequiredRoles(d) \subseteq DOMAIN r.inputs),
                       unknown           |-> ~(DOMAIN r.inputs \subseteq KnownRoles(d))]
  <1>1. Problems(d, r) = {y \in DOMAIN Faulty : Faulty[y]}
    BY DEF Problems
  <1>2. x \in DOMAIN Faulty <=> \/ x = "prompt" \/ x = "duration" \/ x = "aspect_ratio"
                                \/ x = "quality" \/ x = "lyrics" \/ x = "lyrics_language"
                                \/ x = "prompt_mode" \/ x = "dialogue_language" \/ x = "missing"
                                \/ x = "unknown"
    BY Zenon
  <1>3. Faulty["prompt"] <=> ((d.required /\ r.prompt.words = 0) \/ Length(r.prompt) > d.max_length)
    BY Zenon
  <1>4. Faulty["duration"] <=> (IF d.duration_mode = "source" THEN r.duration # None ELSE r.duration \notin ToSet(d.supported_durations))
    BY Zenon
  <1>5. Faulty["aspect_ratio"] <=> (Unchosen(r.aspect_ratio, d.supported_aspect_ratios))
    BY Zenon
  <1>6. Faulty["quality"] <=> (Unchosen(r.quality, d.supported_quality_levels))
    BY Zenon
  <1>7. Faulty["lyrics"] <=> (~d.lyrics /\ r.lyrics # None)
    BY Zenon
  <1>8. Faulty["lyrics_language"] <=> (~d.lyrics /\ r.lyrics_language # None)
    BY Zenon
  <1>9. Faulty["prompt_mode"] <=> (r.prompt_mode # None /\ Unchosen(r.prompt_mode, OfferedModes(d)))
    BY Zenon
  <1>10. Faulty["dialogue_language"] <=> (r.dialogue_language # None /\ (r.prompt_mode # "director" \/ Unchosen(r.dialogue_language, OfferedDialogue(d))))
    BY Zenon
  <1>11. Faulty["missing"] <=> (~(RequiredRoles(d) \subseteq DOMAIN r.inputs))
    BY Zenon
  <1>12. Faulty["unknown"] <=> (~(DOMAIN r.inputs \subseteq KnownRoles(d)))
    BY Zenon
  <1> HIDE DEF Faulty
  <1> QED
    BY ZenonT(40), <1>1, <1>2, <1>3, <1>4, <1>5, <1>6, <1>7, <1>8, <1>9, <1>10, <1>11, <1>12

\* A form in order has nothing to mend but its text and its missing inputs.
LEMMA FormFaults ==
    ASSUME NEW d, NEW v, FormOf(d, v)
    PROVE  FormIssues(d, v) \subseteq {"prompt", "inputs"}
  <1>1. /\ ~Unchosen(v.duration, OfferedDurations(d))
        /\ ~Unchosen(v.aspectRatio, d.supported_aspect_ratios)
        /\ ~Unchosen(v.quality, OfferedLevels(d))
        /\ ~Unchosen(v.lyricsLanguage, OfferedLyrics(d))
        /\ ~Unchosen(v.promptMode, OfferedModes(d))
        /\ ~Unchosen(v.dialogueLanguage, OfferedDialogue(d))
    BY UnchosenIsNot DEF FormOf, ControlsFit
  <1>2. d.lyrics \/ TrimmedSheet(v.lyrics) = ""
    BY DEF FormOf, ControlsFit, TrimmedSheet
  <1>3. ASSUME NEW x \in FormIssues(d, v) PROVE x = "prompt" \/ x = "inputs"
    BY Zenon, <1>1, <1>2, IssuesAre
  <1> QED
    BY <1>3

\* What the body of a request says of the form it is made from.
SentFrom(d, v, r) ==
    /\ r \in Request
    /\ r.workflow = d.id /\ r.prompt = Trimmed(v.prompt) /\ r.duration = v.duration
    /\ r.aspect_ratio = v.aspectRatio /\ r.quality = v.quality
    /\ r.seed <=> d.seed /\ v.seedLocked
    /\ r.lyrics = When(TrimmedSheet(v.lyrics) # "", v.lyrics)
    /\ r.lyrics_language = v.lyricsLanguage
    /\ r.prompt_mode = When(v.promptMode = "director", "director")
    /\ r.dialogue_language = When(v.promptMode = "director", v.dialogueLanguage)
    /\ r.inputs = v.inputs

LEMMA RequestIs ==
    ASSUME NEW c \in Catalogues, Starts(c), NEW d \in c, NEW v, FormOf(d, v)
    PROVE  SentFrom(d, v, ToCreateInput(d, v))
  <1> DEFINE r == ToCreateInput(d, v)
  <1>1. d \in WorkflowDefinition /\ v \in FormValues
    BY Offers DEF FormOf
  <1>2. /\ d.supported_aspect_ratios = <<>> => v.aspectRatio = None
        /\ OfferedLevels(d) = <<>> => v.quality = None
        /\ ~d.lyrics => v.lyricsLanguage = None /\ v.lyrics = ""
        /\ ~d.prompt_modes => v.promptMode = None
    BY DEF FormOf, ControlsFit, OneOf, OfferedLyrics, OfferedModes
  <1>3. None # "director"
    BY DEF None
  <1>4. /\ r.workflow = d.id /\ r.prompt = Trimmed(v.prompt) /\ r.duration = v.duration
        /\ r.inputs = v.inputs /\ r.seed = (d.seed /\ v.seedLocked)
    BY DEF ToCreateInput
  <1>5. r.aspect_ratio = v.aspectRatio /\ r.quality = v.quality /\ r.lyrics_language = v.lyricsLanguage
    BY <1>2 DEF ToCreateInput, When
  <1>6. r.lyrics = When(TrimmedSheet(v.lyrics) # "", v.lyrics)
    BY <1>2 DEF ToCreateInput, When, TrimmedSheet
  <1>7. /\ r.prompt_mode = When(v.promptMode = "director", "director")
        /\ r.dialogue_language = When(v.promptMode = "director", v.dialogueLanguage)
    BY <1>2, <1>3 DEF ToCreateInput, When
  <1>8. r = [workflow |-> r.workflow, prompt |-> r.prompt, duration |-> r.duration,
             aspect_ratio |-> r.aspect_ratio, quality |-> r.quality, seed |-> r.seed,
             lyrics |-> r.lyrics, lyrics_language |-> r.lyrics_language,
             prompt_mode |-> r.prompt_mode, dialogue_language |-> r.dialogue_language,
             inputs |-> r.inputs]
    BY DEF ToCreateInput
  <1> HIDE DEF r
  <1>9. r \in Request
    <2>1. r.workflow \in Names
      BY <1>1, <1>4 DEF WorkflowDefinition
    <2>2. r.prompt \in Text
      BY <1>1, <1>4 DEF FormValues, Text, Trimmed
    <2>3. r.duration \in Names /\ r.aspect_ratio \in Names /\ r.quality \in Names
          /\ r.lyrics_language \in Names /\ r.inputs \in Inputs
      BY <1>1, <1>4, <1>5 DEF FormValues
    <2>4. (d.seed /\ v.seedLocked) \in BOOLEAN
      OBVIOUS
    <2>5. r.seed \in BOOLEAN
      BY <1>4, <2>4
    <2>6. r.lyrics \in Sheets \cup {None}
      BY <1>1, <1>6 DEF FormValues, When
    <2>7. r.prompt_mode \in Names /\ r.dialogue_language \in Names
      <3>1. None \in Names /\ "director" \in Names
        BY NamedChoices, FormAssumption
      <3> QED
        BY <1>1, <1>7, <3>1 DEF FormValues, When
    <2> QED
      BY <1>8, <2>1, <2>2, <2>3, <2>5, <2>6, <2>7 DEF Request
  <1> QED
    BY <1>4, <1>5, <1>6, <1>7, <1>9 DEF SentFrom, r

\* Nothing is wrong with the request of a form without faults.
LEMMA NothingWrong ==
    ASSUME NEW c \in Catalogues, Starts(c), NEW d \in c, NEW v, FormOf(d, v),
           FormIssues(d, v) = {}
    PROVE  Problems(d, ToCreateInput(d, v)) = {}
  <1> DEFINE r == ToCreateInput(d, v)
  <1>1. d \in WorkflowDefinition /\ Loadable(d) /\ v \in FormValues
    BY Offers DEF FormOf, Starts
  <1>2. /\ r.prompt = Trimmed(v.prompt) /\ r.duration = v.duration
        /\ r.aspect_ratio = v.aspectRatio /\ r.quality = v.quality
        /\ r.lyrics = When(TrimmedSheet(v.lyrics) # "", v.lyrics)
        /\ r.lyrics_language = v.lyricsLanguage
        /\ r.prompt_mode = When(v.promptMode = "director", "director")
        /\ r.dialogue_language = When(v.promptMode = "director", v.dialogueLanguage)
        /\ r.inputs = v.inputs
    <2>1. SentFrom(d, v, r)
      BY RequestIs
    <2> HIDE DEF r
    <2> QED
      BY <2>1 DEF SentFrom
  <1> HIDE DEF r
  <1>3. /\ ~(Length(v.prompt) > d.max_length) /\ ~(d.required /\ v.prompt.words = 0)
        /\ RequiredRoles(d) \subseteq DOMAIN v.inputs
    <2>1. "prompt" \notin FormIssues(d, v) /\ "inputs" \notin FormIssues(d, v)
      OBVIOUS
    <2> QED
      BY Zenon, <2>1, IssuesAre
  <1>4. ~((d.required /\ r.prompt.words = 0) \/ Length(r.prompt) > d.max_length)
    <2>1. PICK p \in Text : p = v.prompt
      BY <1>1 DEF FormValues
    <2>2. Trimmed(p).words = p.words /\ Length(Trimmed(p)) <= Length(p) /\ Length(p) \in Nat
          /\ Length(Trimmed(p)) \in Nat
      BY DEF Text, Trimmed, Length
    <2>3. d.max_length \in Nat
      BY <1>1 DEF WorkflowDefinition
    <2>4. r.prompt = Trimmed(p)
      BY <1>2, <2>1
    <2>5. ~(Length(p) > d.max_length) /\ ~(d.required /\ p.words = 0)
      BY <1>3, <2>1
    <2>6. ~(Length(r.prompt) > d.max_length)
      BY <2>2, <2>3, <2>4, <2>5
    <2>7. ~(d.required /\ r.prompt.words = 0)
      BY <2>2, <2>4, <2>5
    <2> QED
      BY <2>6, <2>7
  <1>5. ~(IF d.duration_mode = "source" THEN r.duration # None
          ELSE r.duration \notin ToSet(d.supported_durations))
    BY <1>1, <1>2 DEF FormOf, ControlsFit, OneOf, OfferedDurations, Loadable
  <1>6. ~Unchosen(r.aspect_ratio, d.supported_aspect_ratios)
        /\ ~Unchosen(r.quality, d.supported_quality_levels)
    <2>1. OfferedLevels(d) = d.supported_quality_levels
      BY Offers
    <2> QED
      BY <1>2, <2>1, UnchosenIsNot DEF FormOf, ControlsFit
  <1>7. d.lyrics \/ (r.lyrics = None /\ r.lyrics_language = None)
    BY <1>2 DEF FormOf, ControlsFit, OneOf, OfferedLyrics, When, TrimmedSheet
  <1>8. r.prompt_mode # None => ~Unchosen(r.prompt_mode, OfferedModes(d))
    BY <1>2, UnchosenIsNot DEF FormOf, ControlsFit, When
  <1>9. r.dialogue_language # None =>
            r.prompt_mode = "director" /\ ~Unchosen(r.dialogue_language, OfferedDialogue(d))
    BY <1>2, UnchosenIsNot DEF FormOf, ControlsFit, When
  <1>10. RequiredRoles(d) \subseteq DOMAIN r.inputs /\ DOMAIN r.inputs \subseteq KnownRoles(d)
    BY <1>2, <1>3 DEF FormOf
  <1>11. ASSUME NEW x \in Problems(d, r) PROVE FALSE
    BY Zenon, <1>4, <1>5, <1>6, <1>7, <1>8, <1>9, <1>10, ProblemsAre
  <1> QED
    BY <1>11 DEF r

\* Two requests that agree on every field are one.
LEMMA SameRequest ==
    ASSUME NEW q \in Request, NEW r \in Request,
           q.workflow = r.workflow, q.prompt = r.prompt, q.duration = r.duration,
           q.aspect_ratio = r.aspect_ratio, q.quality = r.quality, q.seed = r.seed,
           q.lyrics = r.lyrics, q.lyrics_language = r.lyrics_language,
           q.prompt_mode = r.prompt_mode, q.dialogue_language = r.dialogue_language,
           q.inputs = r.inputs
    PROVE  q = r
  BY DEF Request

\* A form filled from the job its request became asks for the same, when the job gives
\* back the inputs of the request.
LEMMA AskedAgain ==
    ASSUME NEW c \in Catalogues, Starts(c), NEW d \in c, NEW v, FormOf(d, v),
           NEW job \in Job, job.request = ToCreateInput(d, v),
           Restored(d, job.inputs) = v.inputs
    PROVE  ToCreateInput(d, ValuesFromJob(d, job)) = job.request
  <1> DEFINE r == job.request
             w == ValuesFromJob(d, job)
             q == ToCreateInput(d, w)
  <1>1. v \in FormValues /\ OfferedDurations(d) = d.supported_durations
    BY Offers DEF FormOf
  <1>2. SentFrom(d, v, r)
    BY RequestIs
  <1>3. /\ w.duration         = Pick(r.duration, OfferedDurations(d))
        /\ w.aspectRatio      = Pick(r.aspect_ratio, d.supported_aspect_ratios)
        /\ w.quality          = Pick(r.quality, OfferedLevels(d))
        /\ w.lyricsLanguage   = Pick(r.lyrics_language, OfferedLyrics(d))
    BY <1>1 DEF ValuesFromJob
  <1>4. /\ w.promptMode       = Pick(r.prompt_mode, OfferedModes(d))
        /\ w.dialogueLanguage = Pick(r.dialogue_language, OfferedDialogue(d))
    BY DEF ValuesFromJob
  <1>5. /\ w.lyrics = IF d.lyrics /\ r.lyrics # None THEN r.lyrics ELSE ""
        /\ w.inputs = v.inputs /\ w.prompt = r.prompt /\ w.seedLocked = r.seed
    BY DEF ValuesFromJob
  <1>6. SentFrom(d, w, q)
    BY ReuseFits, RequestIs
  <1> HIDE DEF q, r, w
  <1>7. q \in Request /\ r \in Request /\ q.workflow = r.workflow /\ q.inputs = r.inputs
    BY <1>2, <1>5, <1>6 DEF SentFrom
  <1>8. /\ q.duration = r.duration /\ q.aspect_ratio = r.aspect_ratio
        /\ q.quality = r.quality /\ q.lyrics_language = r.lyrics_language
    <2>1. /\ OneOf(r.duration, OfferedDurations(d)) /\ OneOf(r.quality, OfferedLevels(d))
          /\ OneOf(r.aspect_ratio, d.supported_aspect_ratios)
          /\ OneOf(r.lyrics_language, OfferedLyrics(d))
      BY <1>2 DEF FormOf, ControlsFit, SentFrom
    <2>2. /\ w.duration = r.duration /\ w.aspectRatio = r.aspect_ratio
          /\ w.quality = r.quality /\ w.lyricsLanguage = r.lyrics_language
      <3>1. /\ OfferedDurations(d) \in Seq(Names) /\ d.supported_aspect_ratios \in Seq(Names)
            /\ OfferedLevels(d) \in Seq(Names) /\ OfferedLyrics(d) \in Seq(Names)
        BY Offers
      <3> QED
        BY <1>3, <2>1, <3>1, PickFits
    <2> QED
      BY <1>6, <2>2 DEF SentFrom
  <1>9. q.prompt = r.prompt
    <2>1. PICK p \in Text : p = v.prompt
      BY <1>1 DEF FormValues
    <2>2. Trimmed(Trimmed(p)) = Trimmed(p)
      BY DEF Text, Trimmed
    <2>3. r.prompt = Trimmed(p)
      BY <1>2, <2>1 DEF SentFrom
    <2>4. q.prompt = Trimmed(w.prompt)
      BY <1>6 DEF SentFrom
    <2> QED
      BY <1>5, <2>2, <2>3, <2>4
  <1>10. q.seed = r.seed
    <2>1. r.seed <=> d.seed /\ v.seedLocked
      BY <1>2 DEF SentFrom
    <2>2. q.seed <=> d.seed /\ r.seed
      BY <1>5, <1>6 DEF SentFrom
    <2>3. q.seed \in BOOLEAN /\ r.seed \in BOOLEAN
      BY <1>7 DEF Request
    <2> QED
      BY <2>1, <2>2, <2>3
  <1>11. q.lyrics = r.lyrics
    <2>1. v.lyrics \in {"", " ", "own words"} /\ (~d.lyrics => v.lyrics = "")
      BY <1>1 DEF FormOf, ControlsFit, FormValues, Sheets
    <2>2. r.lyrics = IF v.lyrics = "own words" THEN "own words" ELSE None
      <3>1. r.lyrics = When(TrimmedSheet(v.lyrics) # "", v.lyrics)
        BY <1>2 DEF SentFrom
      <3> QED
        BY <2>1, <3>1 DEF When, TrimmedSheet
    <2>3. q.lyrics = IF TrimmedSheet(w.lyrics) # "" THEN w.lyrics ELSE None
      BY <1>6 DEF SentFrom, When
    <2>4. CASE v.lyrics = "own words"
      <3>1. d.lyrics /\ r.lyrics = "own words" /\ r.lyrics # None
        BY <2>1, <2>2, <2>4 DEF None
      <3>2. w.lyrics = "own words"
        BY <1>5, <3>1
      <3> QED
        BY <2>3, <3>1, <3>2 DEF TrimmedSheet
    <2>5. CASE v.lyrics # "own words"
      <3>1. r.lyrics = None
        BY <2>2, <2>5
      <3>2. w.lyrics = ""
        BY <1>5, <3>1
      <3> QED
        BY <2>3, <3>1, <3>2 DEF TrimmedSheet
    <2> QED
      BY <2>4, <2>5
  <1>12. q.prompt_mode = r.prompt_mode /\ q.dialogue_language = r.dialogue_language
    <2>1. /\ r.prompt_mode = IF v.promptMode = "director" THEN "director" ELSE None
          /\ r.dialogue_language = IF v.promptMode = "director" THEN v.dialogueLanguage ELSE None
      BY <1>2 DEF SentFrom, When
    <2>2. /\ q.prompt_mode = IF w.promptMode = "director" THEN "director" ELSE None
          /\ q.dialogue_language = IF w.promptMode = "director" THEN w.dialogueLanguage ELSE None
      BY <1>6 DEF SentFrom, When
    <2>3. OfferedModes(d) \in Seq(Names) /\ OfferedDialogue(d) \in Seq(Names)
      BY Offers
    <2>4. CASE v.promptMode = "director"
      <3>1. OneOf(r.prompt_mode, OfferedModes(d)) /\ OneOf(r.dialogue_language, OfferedDialogue(d))
        BY <2>1, <2>4 DEF FormOf, ControlsFit
      <3>2. w.promptMode = r.prompt_mode /\ w.dialogueLanguage = r.dialogue_language
        BY <1>4, <2>3, <3>1, PickFits
      <3> QED
        BY <2>1, <2>2, <2>4, <3>2
    <2>5. CASE v.promptMode # "director"
      <3>1. r.prompt_mode = None /\ r.dialogue_language = None
        BY <2>1, <2>5
      <3>2. None \notin ToSet(OfferedModes(d)) /\ First(OfferedModes(d)) # "director"
        <4>1. None # "standard" /\ None # "director" /\ ToSet(<<>>) = {} /\ First(<<>>) = None
          BY DEF None, ToSet, First
        <4> QED
          BY <4>1, NamedChoices DEF OfferedModes
      <3>3. w.promptMode = First(OfferedModes(d))
        BY <1>4, <2>3, <3>1, <3>2, PickFits
      <3> QED
        BY <2>2, <3>1, <3>2, <3>3
    <2> QED
      BY <2>4, <2>5
  <1>13. q.seed = r.seed /\ q.lyrics = r.lyrics /\ q.prompt = r.prompt
    BY <1>9, <1>10, <1>11
  <1>14. q = r
    BY <1>7, <1>8, <1>12, <1>13, SameRequest
  <1> QED
    BY <1>14 DEF q, w, r

(***************************************************************************)
(* Jobs.                                                                   *)
(***************************************************************************)
\* A job as the definition of its tool lets it be asked for, and asked for again.
Made(d, job) ==
    /\ job.request.workflow = d.id
    /\ OneOf(job.request.duration, OfferedDurations(d))
    /\ job.request.prompt_mode = "director" => d.prompt_modes
    /\ ToCreateInput(d, ValuesFromJob(d, job)) = job.request

RegistryOK == registry \in Catalogues /\ Starts(registry) /\ page \in registry

JobsOK ==
    /\ jobs \in Seq(Job)
    /\ \A j \in DOMAIN jobs : \E d \in registry : Made(d, jobs[j])

\* The inductive invariant: the form on screen belongs to its tool, the job on screen
\* exists, and every job was asked for as its tool allows.
FormInv ==
    /\ RegistryOK
    /\ JobsOK
    /\ FormOf(page, values)
    /\ shown \in 0..Len(jobs)

\* How long a job's result lasts, when its tool has durations.
LEMMA SecondsIs ==
    ASSUME NEW c \in Catalogues, Starts(c), NEW d \in c, d.duration_mode # "source",
           NEW x, OneOf(x, OfferedDurations(d))
    PROVE  Seconds[x] \in Nat /\ x # None
  <1>1. /\ d.supported_durations # <<>>
        /\ ToSet(d.supported_durations) \subseteq IF d.duration_mode = "minutes" THEN Minutes
                                                  ELSE DOMAIN Seconds
    BY DEF Starts, Loadable
  <1>2. Minutes \subseteq DOMAIN Seconds /\ \A y \in DOMAIN Seconds : Seconds[y] \in Nat
    BY FormAssumption
  <1>3. x \in DOMAIN Seconds
    BY <1>1, <1>2 DEF OneOf, OfferedDurations
  <1>4. None \notin DOMAIN Seconds
    BY FormAssumption
  <1> QED
    BY <1>2, <1>3, <1>4

\* A definition of the id of extensions has a length.
LEMMA ExtenderIs ==
    ASSUME NEW c \in Catalogues, NEW d \in c
    PROVE  /\ d.prompt_modes => d.duration_mode # "source"
           /\ d.id = Extender => d.duration_mode # "source" /\ "identity_image" \notin KnownRoles(d)
  BY FormAssumption DEF KnownRoles

\* What an extension inherits is a story, and no other job inherits anything.
LEMMA LineageIs ==
    ASSUME RegistryOK, JobsOK, NEW r \in Request
    PROVE  /\ Lineage(r) \in Seq(Beginning)
           /\ r.workflow # Extender => Lineage(r) = <<>>
  <1>1. CASE \/ r.workflow # Extender \/ "source_video" \notin DOMAIN r.inputs
             \/ Producers(r.inputs["source_video"]) = {}
    BY <1>1, EmptySeq DEF Lineage
  <1>2. CASE ~(\/ r.workflow # Extender \/ "source_video" \notin DOMAIN r.inputs
               \/ Producers(r.inputs["source_video"]) = {})
    <2> DEFINE S == Producers(r.inputs["source_video"])
               n == CHOOSE j \in S : TRUE
    <2>1. n \in DOMAIN jobs
      BY <1>2 DEF Producers
    <2> HIDE DEF n
    <2>2. jobs[n] \in Job
      BY <2>1 DEF JobsOK
    <2>3. PICK parent \in Job : parent = jobs[n]
      BY <2>2
    <2>4. PICK asked \in Request : asked = parent.request
      BY <2>3 DEF Job
    <2>5. PICK d \in registry : Made(d, parent)
      BY <2>1, <2>3 DEF JobsOK
    <2>6. CASE asked.workflow = Extender
      <3>1. Lineage(r) = Inherited(parent)
        BY <1>2, <2>3, <2>4, <2>6 DEF Lineage, n
      <3>2. PICK s \in Nat : s = Seconds[parent.request.duration]
        <4>1. d.duration_mode # "source" /\ OneOf(asked.duration, OfferedDurations(d))
          BY <2>4, <2>5, <2>6, ExtenderIs DEF RegistryOK, Made
        <4> QED
          BY <2>4, <4>1, SecondsIs DEF RegistryOK
      <3>3. PICK l \in Seq(Beginning) : l = parent.lineage
        BY DEF Job
      <3>4. Inherited(parent) = [i \in DOMAIN l |-> [l[i] EXCEPT !.prior_seconds = @ + s]]
        BY <3>2, <3>3 DEF Inherited
      <3>5. \A i \in DOMAIN l : l[i] \in Beginning
        OBVIOUS
      <3>6. \A b \in Beginning : [b EXCEPT !.prior_seconds = @ + s] \in Beginning
        BY SMTT(20) DEF Beginning
      <3>7. Inherited(parent) \in Seq(Beginning)
        BY <3>4, <3>5, <3>6
      <3> QED
        BY <1>2, <3>1, <3>7
    <2>7. CASE asked.workflow # Extender /\ asked.prompt_mode # "director"
      <3>1. Lineage(r) = <<>>
        BY <1>2, <2>3, <2>4, <2>7 DEF Lineage, n
      <3> QED
        BY <1>2, <3>1, EmptySeq
    <2>8. CASE asked.workflow # Extender /\ asked.prompt_mode = "director"
      <3> DEFINE language == IF asked.dialogue_language = None THEN "auto"
                             ELSE asked.dialogue_language
                 identity == Restrict(parent.inputs, {"source_image"} \cap DOMAIN parent.inputs)
                 b == [idea |-> asked.prompt, language |-> language,
                       prior_seconds |-> Seconds[asked.duration], identity |-> identity]
      <3>1. Lineage(r) = <<b>>
        BY <1>2, <2>3, <2>4, <2>8 DEF Lineage, n
      <3>2. Seconds[asked.duration] \in Nat
        <4>1. d.duration_mode # "source" /\ OneOf(asked.duration, OfferedDurations(d))
          BY <2>4, <2>5, <2>8, ExtenderIs DEF RegistryOK, Made
        <4> QED
          BY <2>4, <4>1, SecondsIs DEF RegistryOK
      <3>3. identity \in Inputs /\ DOMAIN identity \subseteq {"source_image"}
        BY RestrictIs DEF Job
      <3>4. language \in Names /\ asked.prompt \in Text
        <4>1. "auto" \in Names
          BY NamedChoices, FormAssumption
        <4> QED
          BY <4>1 DEF Request
      <3>5. b \in Beginning
        <4> HIDE DEF language, identity
        <4> QED
          BY <3>2, <3>3, <3>4 DEF Beginning, Identity
      <3>6. <<b>> \in Seq(Beginning)
        <4> HIDE DEF b
        <4> QED
          BY <3>5
      <3> QED
        BY <1>2, <3>1, <3>6
    <2> QED
      BY <2>6, <2>7, <2>8
  <1> QED
    BY <1>1, <1>2

\* What is attached to the inputs of an extension: the first photograph, or nothing.
LEMMA AttachedIs ==
    ASSUME NEW f \in Inputs, NEW l \in Seq(Beginning), NEW g, g = Attached(f, l)
    PROVE  /\ g \in Inputs
           /\ l = <<>> => g = f
           /\ DOMAIN f \subseteq DOMAIN g /\ DOMAIN g \subseteq DOMAIN f \cup {"identity_image"}
           /\ \A r \in DOMAIN f : r # "identity_image" => g[r] = f[r]
  <1>1. CASE l = <<>> \/ l[1].identity = <<>>
    BY <1>1 DEF Attached
  <1>2. CASE ~(l = <<>> \/ l[1].identity = <<>>)
    <2>1. l[1] \in Beginning
      BY <1>2, EmptySeq
    <2>2. l[1].identity \in Inputs /\ DOMAIN l[1].identity \subseteq {"source_image"}
      BY <2>1 DEF Beginning, Identity
    <2>3. PICK e \in Inputs : e = l[1].identity
      BY <2>2
    <2>4. "source_image" \in DOMAIN e
      <3>1. DOMAIN e # {}
        BY <1>2, <2>3, SameInputs, InputsAre
      <3> QED
        BY <2>2, <2>3, <3>1
    <2>5. PICK a \in Asset : a = e["source_image"]
      BY <2>4, InputsAre
    <2>6. g = Setting(f, "identity_image", a)
      BY <1>2, <2>3, <2>5 DEF Attached
    <2>7. "identity_image" \in Names
      BY FormAssumption
    <2>8. PICK role \in Names : role = "identity_image"
      BY <2>7
    <2>9. /\ Setting(f, role, a) \in Inputs
          /\ DOMAIN Setting(f, role, a) = DOMAIN f \cup {role}
          /\ \A r \in DOMAIN f \ {role} : Setting(f, role, a)[r] = f[r]
      BY ZenonT(40), SettingIs
    <2>10. /\ g \in Inputs /\ DOMAIN g = DOMAIN f \cup {"identity_image"}
           /\ \A r \in DOMAIN f : r # "identity_image" => g[r] = f[r]
      BY <2>6, <2>8, <2>9
    <2> QED
      BY <1>2, <2>10
  <1> QED
    BY <1>1, <1>2

\* The job a request becomes.
LEMMA NewJobIs ==
    ASSUME RegistryOK, JobsOK, FormOf(page, values)
    PROVE  /\ NewJob(ToCreateInput(page, values)) \in Job
           /\ Made(page, NewJob(ToCreateInput(page, values)))
  <1> DEFINE r == ToCreateInput(page, values)
             job == NewJob(r)
  <1>1. /\ registry \in Catalogues /\ Starts(registry) /\ page \in registry
    BY DEF RegistryOK
  <1>2. SentFrom(page, values, r)
    BY <1>1, RequestIs
  <1>3. job = [request |-> r, status |-> "running", lineage |-> Lineage(r),
               inputs |-> Attached(r.inputs, Lineage(r))]
    BY DEF NewJob
  <1> HIDE DEF r, job
  <1>4. r \in Request /\ r.inputs \in Inputs /\ r.inputs = values.inputs /\ r.workflow = page.id
    BY <1>2 DEF SentFrom, Request
  <1>5. Lineage(r) \in Seq(Beginning) /\ (r.workflow # Extender => Lineage(r) = <<>>)
    BY <1>4, LineageIs
  <1>6. PICK g : g = Attached(r.inputs, Lineage(r))
    OBVIOUS
  <1>7. /\ g \in Inputs /\ (Lineage(r) = <<>> => g = r.inputs)
        /\ DOMAIN r.inputs \subseteq DOMAIN g
        /\ DOMAIN g \subseteq DOMAIN r.inputs \cup {"identity_image"}
        /\ \A role \in DOMAIN r.inputs : role # "identity_image" => g[role] = r.inputs[role]
    BY <1>4, <1>5, <1>6, AttachedIs
  <1>8. job \in Job
    BY <1>3, <1>4, <1>5, <1>6, <1>7 DEF Job
  <1>9. job.request = r /\ job.inputs = g
    BY <1>3, <1>6
  <1>10. DOMAIN values.inputs \subseteq KnownRoles(page)
    BY DEF FormOf
  <1>11. \/ g = values.inputs
         \/ "identity_image" \notin KnownRoles(page)
    BY <1>1, <1>4, <1>5, <1>7, ExtenderIs
  <1>12. Restored(page, g) = values.inputs
    <2>1. /\ Restored(page, g) \in Inputs
          /\ DOMAIN Restored(page, g) = KnownRoles(page) \cap DOMAIN g
          /\ \A role \in KnownRoles(page) \cap DOMAIN g : Restored(page, g)[role] = g[role]
      BY <1>7, RestoredIs
    <2>2. KnownRoles(page) \cap DOMAIN g = DOMAIN values.inputs
      BY <1>4, <1>7, <1>10, <1>11
    <2>3. \A role \in DOMAIN values.inputs : g[role] = values.inputs[role]
      BY <1>4, <1>7, <1>10, <1>11
    <2> QED
      BY <1>4, <2>1, <2>2, <2>3, SameInputs
  <1>13. ToCreateInput(page, ValuesFromJob(page, job)) = job.request
    BY <1>1, <1>8, <1>9, <1>12, AskedAgain DEF r
  <1>14. OneOf(r.duration, OfferedDurations(page))
    BY <1>2 DEF SentFrom, FormOf, ControlsFit
  <1>15. r.prompt_mode = "director" => page.prompt_modes
    <2>1. r.prompt_mode = IF values.promptMode = "director" THEN "director" ELSE None
      BY <1>2 DEF SentFrom, When
    <2>2. ~page.prompt_modes => values.promptMode = None
      BY DEF FormOf, ControlsFit, OneOf, OfferedModes
    <2> QED
      BY <2>1, <2>2 DEF None
  <1>16. Made(page, job)
    BY <1>4, <1>9, <1>13, <1>14, <1>15 DEF Made
  <1> QED
    BY <1>8, <1>16 DEF job, r

\* The job on screen on arrival is one there is.
LEMMA LatestIs ==
    ASSUME JobsOK, NEW d
    PROVE  Latest(d) \in 0..Len(jobs)
  <1> DEFINE Mine(status) == {j \in DOMAIN jobs : /\ jobs[j].request.workflow = d.id
                                                  /\ jobs[j].status = status}
  <1>1. DOMAIN jobs = 1..Len(jobs) /\ Len(jobs) \in Nat
    BY DEF JobsOK
  <1>2. ASSUME NEW S \in SUBSET DOMAIN jobs, S # {}
        PROVE  Max(S) \in S
    <2> DEFINE T == {Len(jobs) - j : j \in S}
    <2>1. T \subseteq Nat /\ T # {}
      BY <1>1, <1>2
    <2>2. PICK k \in T : \A i \in T : ~(<<i, k>> \in OpToRel(<, Nat))
      <3> HIDE DEF T
      <3> QED
        BY <2>1, NatLessThanWellFounded, WFMin
    <2>3. PICK m \in S : k = Len(jobs) - m
      OBVIOUS
    <2>4. ASSUME NEW y \in S PROVE m >= y
      <3>1. Len(jobs) - y \in T
        OBVIOUS
      <3>2. ~(Len(jobs) - y < k)
        BY <2>1, <2>2, <3>1 DEF OpToRel
      <3> QED
        BY <1>1, <2>3, <3>2
    <2> QED
      BY <2>4 DEF Max
  <1>3. CASE Mine("running") # {}
    <2>1. Max(Mine("running")) \in Mine("running")
      BY <1>2, <1>3
    <2> QED
      BY <1>1, <1>3, <2>1 DEF Latest
  <1>4. CASE Mine("running") = {} /\ Mine("completed") # {}
    <2>1. Max(Mine("completed")) \in Mine("completed")
      BY <1>2, <1>4
    <2> QED
      BY <1>1, <1>4, <2>1 DEF Latest
  <1>5. CASE Mine("running") = {} /\ Mine("completed") = {}
    BY <1>1, <1>5 DEF Latest
  <1> QED
    BY <1>3, <1>4, <1>5

(***************************************************************************)
(* The invariant.                                                          *)
(***************************************************************************)
LEMMA InitForm == FormInit => FormInv
  <1> SUFFICES ASSUME FormInit PROVE FormInv
    OBVIOUS
  <1>1. RegistryOK
    BY DEF FormInit, RegistryOK
  <1>2. JobsOK /\ shown \in 0..Len(jobs)
    <2>1. jobs = <<>> /\ shown = 0
      BY DEF FormInit
    <2>2. jobs \in Seq(Job) /\ Len(jobs) = 0 /\ DOMAIN jobs = {}
      BY <2>1, EmptySeq
    <2> QED
      BY <2>1, <2>2 DEF JobsOK
  <1>3. FormOf(page, values)
    BY <1>1, DefaultFits DEF FormInit, RegistryOK
  <1> QED
    BY <1>1, <1>2, <1>3 DEF FormInv

\* What a step that creates and ends no job has to keep.
LEMMA OnlyTheForm ==
    ASSUME FormInv, registry' = registry, jobs' = jobs,
           page' \in registry, FormOf(page', values'), shown' \in 0..Len(jobs)
    PROVE  FormInv'
  BY DEF FormInv, RegistryOK, JobsOK

LEMMA FollowKeeps ==
    ASSUME FormInv, NEW d \in registry, NEW source \in SUBSET Asset, Follow(d, source)
    PROVE  FormInv'
  <1> DEFINE kept == IF d = page THEN values ELSE PreserveValues(d, values)
             new  == source # {} /\ source # lastSource
  <1>1. registry \in Catalogues /\ Starts(registry)
    BY DEF FormInv, RegistryOK
  <1>2. FormOf(d, kept)
    BY <1>1, PreserveFits DEF FormInv, FormOf
  <1>3. FormOf(d, WithSource(d, kept, source))
    <2> HIDE DEF kept
    <2> QED
      BY <1>1, <1>2, WithSourceFits
  <1>4. page' = d /\ values' = IF new THEN WithSource(d, kept, source) ELSE kept
    BY DEF Follow
  <1>5. /\ registry' = registry /\ jobs' = jobs
        /\ shown' = IF d = page THEN shown ELSE Latest(d)
    BY DEF Follow
  <1> HIDE DEF kept, new
  <1>6. shown' \in 0..Len(jobs)
    BY <1>5, LatestIs DEF FormInv
  <1>7. FormOf(page', values')
    BY <1>2, <1>3, <1>4
  <1> QED
    BY <1>4, <1>5, <1>6, <1>7, OnlyTheForm

LEMMA OpenKeeps ==
    ASSUME FormInv, NEW d \in registry, NEW source \in SUBSET Asset, Open(d, source)
    PROVE  FormInv'
  <1>1. registry \in Catalogues /\ Starts(registry)
    BY DEF FormInv, RegistryOK
  <1>2. FormOf(d, DefaultValues(d))
    BY <1>1, DefaultFits
  <1>3. FormOf(d, WithSource(d, DefaultValues(d), source))
    BY <1>1, <1>2, WithSourceFits
  <1>4. /\ page' = d /\ values' = WithSource(d, DefaultValues(d), source)
        /\ registry' = registry /\ jobs' = jobs /\ shown' = Latest(d)
    BY DEF Open
  <1>5. shown' \in 0..Len(jobs) /\ FormOf(page', values')
    BY <1>3, <1>4, LatestIs DEF FormInv
  <1> QED
    BY <1>4, <1>5, OnlyTheForm

\* The result of a job, as the asset it is handed over as.
LEMMA OutputIs ==
    ASSUME FormInv, NEW j \in DOMAIN jobs
    PROVE  {OutputOf(j)} \in SUBSET Asset
  <1>1. PICK d \in registry : jobs[j].request.workflow = d.id
    BY DEF FormInv, JobsOK, Made
  <1>2. Definition(d.id) = d /\ d \in WorkflowDefinition
    BY DefinitionIs, Offers DEF FormInv, RegistryOK
  <1>3. d.output_type \in Kinds
    BY <1>2 DEF WorkflowDefinition
  <1>4. j \in Nat
    BY DEF FormInv, JobsOK
  <1>5. OutputOf(j) = [kind |-> d.output_type, job |-> j]
    BY <1>1, <1>2 DEF OutputOf
  <1> QED
    BY <1>3, <1>4, <1>5 DEF Asset

LEMMA EditKeeps ==
    ASSUME FormInv, Edit
    PROVE  FormInv'
  <1>1. /\ page \in registry /\ registry \in Catalogues /\ Starts(registry)
        /\ values \in FormValues /\ FormOf(page, values)
        /\ values.inputs \in Inputs /\ DOMAIN values.inputs \subseteq KnownRoles(page)
    BY DEF FormInv, RegistryOK, FormOf, FormValues
  <1>2. /\ registry' = registry /\ jobs' = jobs /\ page' = page /\ shown' = shown
        /\ Edited(values') \/ Filled(values')
    BY DEF Edit
  <1>3. /\ OfferedDurations(page) \in Seq(Names) /\ page.supported_aspect_ratios \in Seq(Names)
        /\ OfferedLevels(page) \in Seq(Names) /\ OfferedModes(page) \in Seq(Names)
        /\ OfferedDialogue(page) \in Seq(Names) /\ OfferedLyrics(page) \in Seq(Names)
    BY <1>1, Offers
  <1>4. \A choices \in Seq(Names) : \A x \in ToSet(choices) : x \in Names /\ OneOf(x, choices)
    BY DEF ToSet, OneOf
  <1>5. FormOf(page, values) /\ values \in FormValues /\ ControlsFit(page, values)
    BY <1>1 DEF FormOf
  <1>6. ASSUME NEW p \in Prompts, values' = [values EXCEPT !.prompt = p]
        PROVE  FormOf(page, values')
    <2>1. p \in Text
      BY FormAssumption DEF Text
    <2> QED
      BY <1>1, <1>5, <1>6, <2>1 DEF FormOf, FormValues, ControlsFit
  <1>7. ASSUME NEW x \in ToSet(OfferedDurations(page)), values' = [values EXCEPT !.duration = x]
        PROVE  FormOf(page, values')
    <2>1. x \in Names /\ OneOf(x, OfferedDurations(page))
      BY <1>3, <1>4
    <2> QED
      BY <1>1, <1>5, <1>7, <2>1 DEF FormOf, FormValues, ControlsFit
  <1>8. ASSUME NEW x \in ToSet(page.supported_aspect_ratios),
               values' = [values EXCEPT !.aspectRatio = x]
        PROVE  FormOf(page, values')
    <2>1. x \in Names /\ OneOf(x, page.supported_aspect_ratios)
      BY <1>3, <1>4
    <2> QED
      BY <1>1, <1>5, <1>8, <2>1 DEF FormOf, FormValues, ControlsFit
  <1>9. ASSUME NEW x \in ToSet(OfferedLevels(page)), values' = [values EXCEPT !.quality = x]
        PROVE  FormOf(page, values')
    <2>1. x \in Names /\ OneOf(x, OfferedLevels(page))
      BY <1>3, <1>4
    <2> QED
      BY <1>1, <1>5, <1>9, <2>1 DEF FormOf, FormValues, ControlsFit
  <1>10. ASSUME NEW x \in ToSet(OfferedModes(page)), values' = [values EXCEPT !.promptMode = x]
         PROVE  FormOf(page, values')
    <2>1. x \in Names /\ OneOf(x, OfferedModes(page))
      BY <1>3, <1>4
    <2> QED
      BY <1>1, <1>5, <1>10, <2>1 DEF FormOf, FormValues, ControlsFit
  <1>11. ASSUME NEW x \in ToSet(OfferedDialogue(page)),
                values' = [values EXCEPT !.dialogueLanguage = x]
         PROVE  FormOf(page, values')
    <2>1. x \in Names /\ OneOf(x, OfferedDialogue(page))
      BY <1>3, <1>4
    <2> QED
      BY <1>1, <1>5, <1>11, <2>1 DEF FormOf, FormValues, ControlsFit
  <1>12. ASSUME NEW x \in ToSet(OfferedLyrics(page)),
                values' = [values EXCEPT !.lyricsLanguage = x]
         PROVE  FormOf(page, values')
    <2>1. x \in Names /\ OneOf(x, OfferedLyrics(page))
      BY <1>3, <1>4
    <2> QED
      BY <1>1, <1>5, <1>12, <2>1 DEF FormOf, FormValues, ControlsFit
  <1>13. ASSUME page.lyrics, NEW x \in Sheets, values' = [values EXCEPT !.lyrics = x]
         PROVE  FormOf(page, values')
    BY <1>1, <1>5, <1>13 DEF FormOf, FormValues, ControlsFit
  <1>14. ASSUME values' = [values EXCEPT !.seedLocked = ~@]
         PROVE  FormOf(page, values')
    BY <1>1, <1>5, <1>14 DEF FormOf, FormValues, ControlsFit
  <1>15. ASSUME NEW f \in Inputs, DOMAIN f \subseteq KnownRoles(page),
                values' = [values EXCEPT !.inputs = f]
         PROVE  FormOf(page, values')
    BY <1>1, <1>5, <1>15 DEF FormOf, FormValues, ControlsFit
  <1>16. ASSUME Edited(values') PROVE FormOf(page, values')
    BY <1>6, <1>7, <1>8, <1>9, <1>10, <1>11, <1>12, <1>13, <1>14, <1>16 DEF Edited
  <1>17. ASSUME NEW role \in KnownRoles(page),
                values' = [values EXCEPT !.inputs =
                               Setting(@, role, Uploaded(InputFor(page, role).kind))]
         PROVE  FormOf(page, values')
    <2>1. page \in WorkflowDefinition
      BY <1>1, Offers
    <2>2. InputFor(page, role).kind \in Kinds /\ role \in Names
      BY <2>1, InputIs
    <2>3. PICK a \in Asset : a = Uploaded(InputFor(page, role).kind)
      BY <2>2 DEF Uploaded, Asset
    <2>4. PICK f \in Inputs : f = values.inputs
      BY <1>1
    <2>5. PICK g : g = Setting(f, role, a)
      OBVIOUS
    <2>6. g \in Inputs /\ DOMAIN g = DOMAIN f \cup {role}
      BY <2>2, <2>5, SettingIs
    <2>7. values' = [values EXCEPT !.inputs = g]
      BY <1>17, <2>3, <2>4, <2>5
    <2> QED
      BY <1>1, <1>15, <2>4, <2>6, <2>7
  <1>18. ASSUME NEW role \in DOMAIN values.inputs,
                values' = [values EXCEPT !.inputs = Restrict(@, DOMAIN @ \ {role})]
         PROVE  FormOf(page, values')
    <2>1. PICK f \in Inputs : f = values.inputs
      BY <1>1
    <2>2. PICK g : g = Restrict(f, DOMAIN f \ {role})
      OBVIOUS
    <2>3. g \in Inputs /\ DOMAIN g = DOMAIN f \ {role}
      BY <2>2, RestrictIs
    <2>4. values' = [values EXCEPT !.inputs = g]
      BY <1>18, <2>1, <2>2
    <2> QED
      BY <1>1, <1>15, <2>1, <2>3, <2>4
  <1>19. ASSUME Filled(values') PROVE FormOf(page, values')
    BY <1>17, <1>18, <1>19 DEF Filled
  <1>20. FormOf(page', values')
    BY <1>2, <1>16, <1>19
  <1> QED
    BY <1>1, <1>2, <1>20, OnlyTheForm DEF FormInv

LEMMA SubmitKeeps ==
    ASSUME FormInv, Submit
    PROVE  FormInv'
  <1> DEFINE job == NewJob(ToCreateInput(page, values))
  <1>1. RegistryOK /\ JobsOK /\ FormOf(page, values)
    BY DEF FormInv
  <1>2. job \in Job /\ Made(page, job)
    BY <1>1, NewJobIs
  <1>3. /\ jobs' = Append(jobs, job) /\ shown' = Len(jobs')
        /\ registry' = registry /\ page' = page /\ values' = values
    BY DEF Submit
  <1> HIDE DEF job
  <1>4. jobs \in Seq(Job) /\ page \in registry
    BY <1>1 DEF JobsOK, RegistryOK
  <1>5. /\ jobs' \in Seq(Job) /\ Len(jobs') = Len(jobs) + 1 /\ Len(jobs) \in Nat
        /\ DOMAIN jobs' = 1..(Len(jobs) + 1) /\ DOMAIN jobs = 1..Len(jobs)
    BY <1>2, <1>3, <1>4
  <1>6. ASSUME NEW j \in DOMAIN jobs'
        PROVE  \E d \in registry' : Made(d, jobs'[j])
    <2>1. CASE j \in DOMAIN jobs
      <3>1. jobs'[j] = jobs[j]
        BY <1>3, <1>4, <1>5, <2>1
      <3>2. PICK d \in registry : Made(d, jobs[j])
        BY <1>1, <2>1 DEF JobsOK
      <3> QED
        BY <1>3, <3>1, <3>2
    <2>2. CASE j = Len(jobs) + 1
      <3>1. jobs'[j] = job
        BY <1>3, <1>4, <2>2
      <3> QED
        BY <1>2, <1>3, <1>4, <3>1
    <2> QED
      BY <1>5, <1>6, <2>1, <2>2
  <1>7. JobsOK'
    BY <1>5, <1>6 DEF JobsOK
  <1>8. RegistryOK' /\ FormOf(page', values')
    BY <1>1, <1>3 DEF RegistryOK
  <1>9. shown' \in 0..Len(jobs')
    BY <1>3, <1>5
  <1> QED
    BY <1>7, <1>8, <1>9 DEF FormInv

LEMMA JobEndsKeeps ==
    ASSUME FormInv, JobEnds
    PROVE  FormInv'
  <1>1. PICK n \in DOMAIN jobs, end \in {"completed", "failed"} :
            jobs' = [jobs EXCEPT ![n].status = end]
    BY DEF JobEnds
  <1>2. registry' = registry /\ page' = page /\ values' = values /\ shown' = shown
    BY DEF JobEnds
  <1>3. jobs \in Seq(Job) /\ DOMAIN jobs = 1..Len(jobs)
    BY DEF FormInv, JobsOK
  <1>4. PICK job \in Job : job = jobs[n]
    BY <1>1, <1>3
  <1>5. PICK ended : ended = [job EXCEPT !.status = end]
    OBVIOUS
  <1>6. ended \in Job /\ ended.request = job.request /\ ended.inputs = job.inputs
    BY <1>1, <1>4, <1>5 DEF Job
  <1>7. jobs' = [jobs EXCEPT ![n] = ended]
    BY <1>1, <1>4, <1>5
  <1>8. jobs' \in Seq(Job) /\ DOMAIN jobs' = DOMAIN jobs /\ Len(jobs') = Len(jobs)
    BY <1>1, <1>3, <1>6, <1>7
  <1>9. ASSUME NEW d, Made(d, job)
        PROVE  Made(d, ended)
    <2>1. ValuesFromJob(d, ended) = ValuesFromJob(d, job)
      BY <1>6 DEF ValuesFromJob
    <2> QED
      BY <1>6, <1>9, <2>1 DEF Made
  <1>10. ASSUME NEW j \in DOMAIN jobs'
         PROVE  \E d \in registry' : Made(d, jobs'[j])
    <2>1. PICK d \in registry : Made(d, jobs[j])
      BY <1>8 DEF FormInv, JobsOK
    <2>2. CASE j = n
      <3>1. jobs'[j] = ended
        BY <1>1, <1>7, <2>2
      <3> QED
        BY <1>2, <1>4, <1>9, <2>1, <2>2, <3>1
    <2>3. CASE j # n
      <3>1. jobs'[j] = jobs[j]
        BY <1>7, <1>8, <2>3
      <3> QED
        BY <1>2, <2>1, <3>1
    <2> QED
      BY <2>2, <2>3
  <1>11. JobsOK'
    BY <1>8, <1>10 DEF JobsOK
  <1>12. RegistryOK' /\ FormOf(page', values') /\ shown' \in 0..Len(jobs')
    BY <1>2, <1>8 DEF FormInv, RegistryOK
  <1> QED
    BY <1>11, <1>12 DEF FormInv

\* Every step keeps the invariant.
LEMMA NextForm == FormInv /\ [FormNext]_formVars => FormInv'
  <1> SUFFICES ASSUME FormInv, [FormNext]_formVars
               PROVE  FormInv'
    OBVIOUS
  <1>1. CASE Edit
    BY <1>1, EditKeeps
  <1>2. CASE SwitchTool
    <2>1. {} \in SUBSET Asset
      OBVIOUS
    <2>2. PICK d \in registry : Follow(d, {}) \/ Open(d, {})
      BY <1>2 DEF SwitchTool
    <2> QED
      BY <2>1, <2>2, FollowKeeps, OpenKeeps
  <1>3. CASE Extend
    <2>1. PICK d \in registry : Follow(d, {OutputOf(shown)}) \/ Open(d, {OutputOf(shown)})
      BY <1>3 DEF Extend
    <2>2. shown \in DOMAIN jobs
      BY <1>3 DEF Extend, ExtendOffered, FormInv, JobsOK
    <2>3. {OutputOf(shown)} \in SUBSET Asset
      BY <2>2, OutputIs
    <2> QED
      BY <2>1, <2>3, FollowKeeps, OpenKeeps
  <1>4. CASE FilmTrack
    <2>1. PICK d \in registry : Follow(d, {OutputOf(shown)}) \/ Open(d, {OutputOf(shown)})
      BY <1>4 DEF FilmTrack
    <2>2. shown \in DOMAIN jobs
      BY <1>4 DEF FilmTrack, FormInv, JobsOK
    <2>3. {OutputOf(shown)} \in SUBSET Asset
      BY <2>2, OutputIs
    <2> QED
      BY <2>1, <2>3, FollowKeeps, OpenKeeps
  <1>5. CASE SelectJob
    <2>1. shown' \in 0..Len(jobs)
      BY <1>5 DEF SelectJob, FormInv, JobsOK
    <2> QED
      BY <1>5, <2>1, OnlyTheForm DEF SelectJob, FormInv, RegistryOK
  <1>6. CASE ReuseSettings
    <2>1. /\ registry' = registry /\ jobs' = jobs /\ page' = page /\ shown' = shown
          /\ shown # 0 /\ values' = ValuesFromJob(page, jobs[shown])
      BY <1>6 DEF ReuseSettings
    <2>2. jobs[shown] \in Job
      BY <2>1 DEF FormInv, JobsOK
    <2>3. FormOf(page', values')
      BY <2>1, <2>2, ReuseFits DEF FormInv, RegistryOK
    <2> QED
      BY <2>1, <2>3, OnlyTheForm DEF FormInv, RegistryOK
  <1>7. CASE Submit
    BY <1>7, SubmitKeeps
  <1>8. CASE JobEnds
    BY <1>8, JobEndsKeeps
  <1>9. CASE UNCHANGED formVars
    BY <1>9, OnlyTheForm DEF formVars, FormInv, RegistryOK
  <1> QED
    BY <1>1, <1>2, <1>3, <1>4, <1>5, <1>6, <1>7, <1>8, <1>9 DEF FormNext

LEMMA FormInvHolds == FormSpec => []FormInv
  BY InitForm, NextForm, PTL DEF FormSpec

(***************************************************************************)
(* The theorems.                                                           *)
(***************************************************************************)
\* Whatever was chosen, switched, reused or handed over, a form without faults makes a
\* request the API has no objection to: form.ts and validate_request, written apart,
\* agree on every definition the loader lets through.
THEOREM FormsAreAccepted == FormSpec => []SubmittedIsAccepted
  <1>1. FormInv => SubmittedIsAccepted
    BY NothingWrong DEF FormInv, RegistryOK, SubmittedIsAccepted
  <1> QED
    BY <1>1, FormInvHolds, PTL

\* No switch, reuse or hand-off leaves a control in a state its own tool rejects.
THEOREM ControlsStayValid == FormSpec => []ControlsAreValid
  <1>1. FormInv => ControlsAreValid
    BY FormFaults DEF FormInv, ControlsAreValid
  <1> QED
    BY <1>1, FormInvHolds, PTL

\* A job reused on its own tool, an extension with its attached photograph too, asks for
\* the same again.
THEOREM JobsAskAgain == FormSpec => []ReuseAsksAgain
  <1>1. FormInv => ReuseAsksAgain
    <2> SUFFICES ASSUME FormInv, NEW j \in DOMAIN jobs
                 PROVE  LET d == Definition(jobs[j].request.workflow)
                        IN  ToCreateInput(d, ValuesFromJob(d, jobs[j])) = jobs[j].request
      BY DEF ReuseAsksAgain
    <2>1. PICK d \in registry : Made(d, jobs[j])
      BY DEF FormInv, JobsOK
    <2>2. Definition(jobs[j].request.workflow) = d
      BY <2>1, DefinitionIs DEF FormInv, RegistryOK, Made
    <2> QED
      BY <2>1, <2>2 DEF Made
  <1> QED
    BY <1>1, FormInvHolds, PTL

(***************************************************************************)
(* Stories.                                                                *)
(***************************************************************************)
\* Parent and Story for any jobs js, one step of the story at a time.
ParentOf(js, j) ==
    IF js[j].request.workflow # Extender THEN 0 ELSE js[j].request.inputs["source_video"].job

Tell(js, f, j) ==
    LET r   == js[j].request
        own == IF r.duration = None THEN 0 ELSE Seconds[r.duration]
    IN  IF r.workflow # Extender
        THEN [root |-> IF r.prompt_mode = "director" THEN j ELSE 0, told |-> own]
        ELSE IF ParentOf(js, j) = 0 THEN [root |-> 0, told |-> own]
        ELSE [root |-> f[ParentOf(js, j)].root, told |-> f[ParentOf(js, j)].told + own]

StoryOf(js) == CHOOSE f : f = [j \in DOMAIN js |-> Tell(js, f, j)]

\* Every extension continues an earlier job, if it continues one.
Descends(js) == \A j \in DOMAIN js : ParentOf(js, j) \in 0..(j - 1)

LEMMA StoryOfJobs == Story = StoryOf(jobs)
  BY DEF Story, StoryOf, Tell, Parent, ParentOf

\* A step of the story depends on the story of the parent alone.
LEMMA TellSame ==
    ASSUME NEW js, NEW f, NEW g, NEW j,
           ParentOf(js, j) # 0 => f[ParentOf(js, j)] = g[ParentOf(js, j)]
    PROVE  Tell(js, f, j) = Tell(js, g, j)
  BY DEF Tell

\* The story of the first k jobs.
Solves(js, f, k) == f = [j \in 1..k |-> Tell(js, f, j)]

\* There is a story: the shortest beginning without one would have one.
LEMMA StoryExists ==
    ASSUME NEW js, NEW n \in Nat, DOMAIN js = 1..n, Descends(js)
    PROVE  \E f : Solves(js, f, n)
  <1> DEFINE Lacking == {k \in 0..n : ~\E f : Solves(js, f, k)}
  <1>1. SUFFICES ASSUME Lacking # {} PROVE FALSE
    BY <1>1
  <1>2. Lacking \subseteq Nat /\ Lacking \subseteq 0..n
    OBVIOUS
  <1>3. PICK k \in Lacking : \A i \in Lacking : ~(<<i, k>> \in OpToRel(<, Nat))
    <2> HIDE DEF Lacking
    <2> QED
      BY <1>1, <1>2, NatLessThanWellFounded, WFMin
  <1>4. \A i \in Lacking : ~(i < k)
    BY <1>2, <1>3 DEF OpToRel
  <1>5. CASE k = 0
    <2> DEFINE f == [j \in 1..0 |-> 0]
    <2>1. Solves(js, f, 0)
      BY DEF Solves
    <2> QED
      BY <1>3, <1>5, <2>1
  <1>6. CASE k # 0
    <2>1. k \in 1..n /\ k - 1 \in 0..n /\ k - 1 < k
      <3>1. k \in 0..n
        BY <1>2, <1>3
      <3> QED
        BY <1>6, <3>1
    <2>2. k - 1 \notin Lacking
      BY <1>4, <2>1
    <2>3. PICK g : Solves(js, g, k - 1)
      BY <2>1, <2>2
    <2> DEFINE f == [j \in 1..k |-> IF j = k THEN Tell(js, g, k) ELSE g[j]]
    <2>4. ASSUME NEW j \in 1..k
          PROVE  f[j] = Tell(js, f, j)
      <3>1. ParentOf(js, j) \in 0..(j - 1)
        BY <2>1 DEF Descends
      <3>2. ParentOf(js, j) # 0 => f[ParentOf(js, j)] = g[ParentOf(js, j)]
        BY <2>1, <3>1
      <3>3. Tell(js, f, j) = Tell(js, g, j)
        <4> HIDE DEF f
        <4> QED
          BY <3>2, TellSame
      <3>4. j # k => g[j] = Tell(js, g, j)
        BY <2>1, <2>3 DEF Solves
      <3>5. f[j] = IF j = k THEN Tell(js, g, k) ELSE g[j]
        OBVIOUS
      <3> HIDE DEF f
      <3> QED
        BY <3>3, <3>4, <3>5
    <2>5. f = [j \in 1..k |-> f[j]]
      OBVIOUS
    <2> HIDE DEF f
    <2>6. Solves(js, f, k)
      BY <2>4, <2>5 DEF Solves
    <2> QED
      BY <1>3, <2>6
  <1> QED
    BY <1>5, <1>6

LEMMA StoryIs ==
    ASSUME NEW js \in Seq(Job), Descends(js)
    PROVE  \A j \in DOMAIN js : StoryOf(js)[j] = Tell(js, StoryOf(js), j)
  <1>1. PICK n \in Nat : DOMAIN js = 1..n
    OBVIOUS
  <1>2. PICK g : Solves(js, g, n)
    BY <1>1, StoryExists
  <1>3. g = [j \in DOMAIN js |-> Tell(js, g, j)]
    BY <1>1, <1>2 DEF Solves
  <1>4. PICK s : s = StoryOf(js)
    OBVIOUS
  <1>5. s = [j \in DOMAIN js |-> Tell(js, s, j)]
    BY <1>3, <1>4 DEF StoryOf
  <1> QED
    BY <1>4, <1>5

\* Jobs js2 that go on from js: nothing of a job changes but its status, and a
\* completed one stays completed.
GoesOn(js, js2) ==
    \A j \in DOMAIN js :
        /\ j \in DOMAIN js2
        /\ js2[j].request = js[j].request /\ js2[j].lineage = js[j].lineage
        /\ js2[j].inputs = js[j].inputs
        /\ js[j].status = "completed" => js2[j].status = "completed"

\* The stories told so far do not change.
LEMMA SameStory ==
    ASSUME NEW js \in Seq(Job), NEW js2 \in Seq(Job), Descends(js), Descends(js2),
           GoesOn(js, js2)
    PROVE  \A j \in DOMAIN js : StoryOf(js2)[j] = StoryOf(js)[j]
  <1> DEFINE Odd == {j \in DOMAIN js : StoryOf(js2)[j] # StoryOf(js)[j]}
  <1>1. SUFFICES ASSUME Odd # {} PROVE FALSE
    BY <1>1
  <1>2. Odd \subseteq Nat
    OBVIOUS
  <1>3. PICK j \in Odd : \A i \in Odd : ~(<<i, j>> \in OpToRel(<, Nat))
    <2> HIDE DEF Odd
    <2> QED
      BY <1>1, <1>2, NatLessThanWellFounded, WFMin
  <1>4. \A i \in Odd : ~(i < j)
    BY <1>2, <1>3 DEF OpToRel
  <1>5. PICK f, g : f = StoryOf(js) /\ g = StoryOf(js2)
    OBVIOUS
  <1>6. j \in DOMAIN js /\ j \in DOMAIN js2 /\ js2[j].request = js[j].request /\ g[j] # f[j]
    BY <1>3, <1>5 DEF GoesOn
  <1>7. f[j] = Tell(js, f, j) /\ g[j] = Tell(js2, g, j)
    BY <1>5, <1>6, StoryIs
  <1>8. ParentOf(js2, j) = ParentOf(js, j) /\ Tell(js2, g, j) = Tell(js, g, j)
    BY <1>6 DEF ParentOf, Tell
  <1>9. ParentOf(js, j) # 0 => g[ParentOf(js, j)] = f[ParentOf(js, j)]
    <2>1. ParentOf(js, j) \in 0..(j - 1) /\ j \in 1..Len(js) /\ DOMAIN js = 1..Len(js)
      BY <1>6 DEF Descends
    <2>2. ParentOf(js, j) # 0 => ParentOf(js, j) \in DOMAIN js /\ ParentOf(js, j) < j
      BY <2>1
    <2> QED
      BY <1>4, <1>5, <2>2
  <1>10. Tell(js, g, j) = Tell(js, f, j)
    BY <1>9, TellSame
  <1> QED
    BY <1>6, <1>7, <1>8, <1>10

(***************************************************************************)
(* What an extension carries.                                              *)
(***************************************************************************)
\* An upload, or the result of a job that has completed.
Finished(js, a)    == a.job = 0 \/ (a.job \in DOMAIN js /\ js[a.job].status = "completed")
AllFinished(js, f) == \A r \in DOMAIN f : Finished(js, f[r])

Image(f, role) == IF role \in DOMAIN f THEN {f[role]} ELSE {}

\* The lineage l tells the whole story of s: of jobs js, from its root to its end.
Whole(js, s, l) ==
    IF s.root = 0 THEN l = <<>>
    ELSE /\ Len(l) = 1
         /\ l[1].idea = js[s.root].request.prompt
         /\ l[1].language = js[s.root].request.dialogue_language
         /\ l[1].prior_seconds = s.told
         /\ Image(l[1].identity, "source_image") = Image(js[s.root].inputs, "source_image")

\* The story job j continues.
Before(js, j) ==
    IF ParentOf(js, j) = 0 THEN [root |-> 0, told |-> 0] ELSE StoryOf(js)[ParentOf(js, j)]

\* The media of a job are finished, and an extension has a source of an earlier job or
\* an upload.
Linked(js, j) ==
    LET r == js[j].request
    IN  /\ AllFinished(js, js[j].inputs)
        /\ \A i \in DOMAIN js[j].lineage : AllFinished(js, js[j].lineage[i].identity)
        /\ r.prompt_mode = "director" => r.dialogue_language # None
        /\ r.workflow = Extender => "source_video" \in DOMAIN r.inputs
        /\ ParentOf(js, j) \in 0..(j - 1)

\* An extension carries the story it continues, and its first photograph among its inputs.
Carries(js, j) ==
    js[j].request.workflow = Extender =>
        /\ Whole(js, Before(js, j), js[j].lineage)
        /\ Before(js, j).root # 0 => Image(js[j].inputs, "identity_image") =
                                     Image(js[j].lineage[1].identity, "source_image")

JobInv(js, j) == Linked(js, j) /\ Carries(js, j) /\ StoryOf(js)[j].root \in 0..j

\* The inductive invariant of the lineage, next to FormInv: whatever is in the form or
\* in a job is finished, every extension carries its story, and every story goes back to
\* a job no later than itself.
LineageInv ==
    /\ AllFinished(jobs, values.inputs)
    /\ \A j \in DOMAIN jobs : JobInv(jobs, j)

LEMMA FinishedGoesOn ==
    ASSUME NEW js, NEW js2, GoesOn(js, js2), NEW f, AllFinished(js, f)
    PROVE  AllFinished(js2, f)
  BY DEF AllFinished, Finished, GoesOn

\* A job keeps what it carries while the jobs go on.
LEMMA OldJobs ==
    ASSUME NEW js \in Seq(Job), NEW js2 \in Seq(Job), GoesOn(js, js2), Descends(js2),
           \A i \in DOMAIN js : JobInv(js, i), NEW j \in DOMAIN js
    PROVE  JobInv(js2, j)
  <1>1. Descends(js)
    BY DEF Descends, JobInv, Linked
  <1>2. PICK f, g : f = StoryOf(js) /\ g = StoryOf(js2)
    OBVIOUS
  <1>3. \A i \in DOMAIN js : g[i] = f[i]
    BY <1>1, <1>2, SameStory
  <1>4. /\ j \in DOMAIN js2 /\ js2[j].request = js[j].request
        /\ js2[j].lineage = js[j].lineage /\ js2[j].inputs = js[j].inputs
    BY DEF GoesOn
  <1>5. ParentOf(js2, j) = ParentOf(js, j) /\ ParentOf(js, j) \in 0..(j - 1)
    BY <1>1, <1>4 DEF ParentOf, Descends
  <1>6. Linked(js2, j)
    <2>1. Linked(js, j)
      BY DEF JobInv
    <2> QED
      BY <1>4, <1>5, <2>1, FinishedGoesOn DEF Linked
  <1>7. g[j].root \in 0..j
    BY <1>2, <1>3 DEF JobInv
  <1>8. DOMAIN js = 1..Len(js) /\ Len(js) \in Nat /\ j \in 1..Len(js)
    OBVIOUS
  <1>9. Before(js2, j) = Before(js, j)
    BY <1>2, <1>3, <1>5, <1>8 DEF Before
  <1>10. Before(js, j).root = 0 \/ Before(js, j).root \in DOMAIN js
    <2>1. CASE ParentOf(js, j) = 0
      BY <2>1 DEF Before
    <2>2. CASE ParentOf(js, j) # 0
      <3>1. ParentOf(js, j) \in DOMAIN js
        BY <1>5, <1>8, <2>2
      <3>2. f[ParentOf(js, j)].root \in 0..ParentOf(js, j)
        BY <1>2, <3>1 DEF JobInv
      <3> QED
        BY <1>2, <1>5, <1>8, <2>2, <3>2 DEF Before
    <2> QED
      BY <2>1, <2>2
  <1>11. PICK s : s = Before(js, j)
    OBVIOUS
  <1>12. Whole(js, s, js[j].lineage) => Whole(js2, s, js2[j].lineage)
    <2>1. s.root # 0 => /\ js2[s.root].request = js[s.root].request
                        /\ js2[s.root].inputs = js[s.root].inputs
      BY <1>10, <1>11 DEF GoesOn
    <2> QED
      BY <1>4, <2>1 DEF Whole
  <1>13. Carries(js2, j)
    <2>1. Carries(js, j)
      BY DEF JobInv
    <2> QED
      BY <1>4, <1>9, <1>11, <1>12, <2>1 DEF Carries
  <1> QED
    BY <1>2, <1>6, <1>7, <1>13 DEF JobInv

\* The story told by one job alone, and by an extension.
LEMMA StoryStep ==
    ASSUME JobsOK, LineageInv, NEW n \in DOMAIN jobs
    PROVE  LET r   == jobs[n].request
               own == IF r.duration = None THEN 0 ELSE Seconds[r.duration]
           IN  StoryOf(jobs)[n] =
                   IF r.workflow # Extender
                   THEN [root |-> IF r.prompt_mode = "director" THEN n ELSE 0, told |-> own]
                   ELSE IF ParentOf(jobs, n) = 0 THEN [root |-> 0, told |-> own]
                   ELSE [root |-> Before(jobs, n).root, told |-> Before(jobs, n).told + own]
  <1>1. jobs \in Seq(Job) /\ Descends(jobs)
    BY DEF JobsOK, LineageInv, JobInv, Linked, Descends
  <1>2. PICK f : f = StoryOf(jobs)
    OBVIOUS
  <1>3. f[n] = Tell(jobs, f, n)
    BY <1>1, <1>2, StoryIs
  <1>4. ParentOf(jobs, n) # 0 => Before(jobs, n) = f[ParentOf(jobs, n)]
    BY <1>2 DEF Before
  <1> QED
    BY <1>2, <1>3, <1>4 DEF Tell

\* An extension of job n inherits the whole story of job n, and its photograph is finished.
LEMMA InheritsWhole ==
    ASSUME FormInv, LineageInv, NEW r \in Request, r.workflow = Extender,
           "source_video" \in DOMAIN r.inputs, NEW n \in DOMAIN jobs,
           r.inputs["source_video"].job = n, jobs[n].status = "completed"
    PROVE  /\ Whole(jobs, StoryOf(jobs)[n], Lineage(r))
           /\ \A i \in DOMAIN Lineage(r) : AllFinished(jobs, Lineage(r)[i].identity)
  <1>1. Producers(r.inputs["source_video"]) = {n}
    BY DEF Producers
  <1>2. PICK parent \in Job : parent = jobs[n]
    BY DEF FormInv, JobsOK
  <1>3. PICK asked \in Request : asked = parent.request
    BY <1>2 DEF Job
  <1>4. PICK d \in registry : Made(d, parent)
    BY <1>2 DEF FormInv, JobsOK
  <1>5. PICK c \in Catalogues : c = registry /\ Starts(c)
    BY DEF FormInv, RegistryOK
  <1>6. PICK s : s = StoryOf(jobs)[n]
    OBVIOUS
  <1>7. JobInv(jobs, n)
    BY DEF LineageInv
  <1>8. PICK p : p = Before(jobs, n)
    OBVIOUS
  <1>9. s = IF asked.workflow # Extender
            THEN [root |-> IF asked.prompt_mode = "director" THEN n ELSE 0,
                  told |-> IF asked.duration = None THEN 0 ELSE Seconds[asked.duration]]
            ELSE IF ParentOf(jobs, n) = 0
            THEN [root |-> 0, told |-> IF asked.duration = None THEN 0 ELSE Seconds[asked.duration]]
            ELSE [root |-> p.root,
                  told |-> p.told + IF asked.duration = None THEN 0 ELSE Seconds[asked.duration]]
    BY <1>2, <1>3, <1>6, <1>8, StoryStep DEF FormInv
  <1>10. Lineage(r) =
             IF asked.workflow = Extender THEN Inherited(parent)
             ELSE IF asked.prompt_mode # "director" THEN <<>>
             ELSE <<[idea          |-> asked.prompt,
                     language      |-> IF asked.dialogue_language = None THEN "auto"
                                       ELSE asked.dialogue_language,
                     prior_seconds |-> Seconds[asked.duration],
                     identity      |-> Restrict(parent.inputs,
                                          {"source_image"} \cap DOMAIN parent.inputs)]>>
    <2>1. (CHOOSE j \in {n} : TRUE) = n
      OBVIOUS
    <2>2. jobs[CHOOSE j \in Producers(r.inputs["source_video"]) : TRUE] = parent
      BY <1>1, <1>2, <2>1
    <2>3. Producers(r.inputs["source_video"]) # {}
      BY <1>1
    <2> QED
      BY <1>3, <2>2, <2>3 DEF Lineage
  <1>11. \A i \in DOMAIN parent.lineage : AllFinished(jobs, parent.lineage[i].identity)
    BY <1>2, <1>7 DEF JobInv, Linked
  <1>12. CASE asked.workflow = Extender
    <2>1. OneOf(asked.duration, OfferedDurations(d)) /\ d.duration_mode # "source"
      BY <1>3, <1>4, <1>5, <1>12, ExtenderIs DEF Made
    <2>2. Seconds[asked.duration] \in Nat /\ asked.duration # None
      BY <1>4, <1>5, <2>1, SecondsIs
    <2>3. PICK l \in Seq(Beginning) : l = parent.lineage
      BY DEF Job
    <2>4. PICK k \in Nat : k = Seconds[asked.duration]
      BY <2>2
    <2>5. PICK m : m = Lineage(r)
      OBVIOUS
    <2>6. m = [i \in DOMAIN l |-> [l[i] EXCEPT !.prior_seconds = @ + k]]
      BY <1>3, <1>10, <1>12, <2>3, <2>4, <2>5 DEF Inherited
    <2>7. \A i \in DOMAIN l : l[i] \in Beginning
      OBVIOUS
    <2>8. \A i \in DOMAIN l : /\ m[i].idea = l[i].idea /\ m[i].language = l[i].language
                              /\ m[i].prior_seconds = l[i].prior_seconds + k
                              /\ m[i].identity = l[i].identity
      BY <2>6, <2>7 DEF Beginning
    <2>9. DOMAIN m = DOMAIN l /\ m \in Seq(Beginning)
      BY <1>3, <2>5, <2>6, LineageIs DEF FormInv
    <2>10. Whole(jobs, p, l)
      BY <1>2, <1>3, <1>7, <1>8, <1>12, <2>3 DEF JobInv, Carries
    <2>11. s.root = p.root /\ (s.root # 0 => s.told = p.told + k)
      BY <1>8, <1>9, <1>12, <2>2, <2>4 DEF Before
    <2>12. CASE s.root = 0
      <3>1. l = <<>>
        BY <2>10, <2>11, <2>12 DEF Whole
      <3>2. m = <<>>
        BY <2>9, <3>1, EmptySeq
      <3> QED
        BY <1>6, <2>5, <2>12, <3>2 DEF Whole
    <2>13. CASE s.root # 0
      <3>1. Len(l) = 1 /\ l[1].prior_seconds = p.told
            /\ l[1].idea = jobs[p.root].request.prompt
            /\ l[1].language = jobs[p.root].request.dialogue_language
            /\ Image(l[1].identity, "source_image") = Image(jobs[p.root].inputs, "source_image")
        BY <2>10, <2>11, <2>13 DEF Whole
      <3>2. Len(m) = 1 /\ 1 \in DOMAIN l
        BY <2>9, <3>1
      <3>3. /\ m[1].prior_seconds = s.told /\ m[1].idea = l[1].idea
            /\ m[1].language = l[1].language /\ m[1].identity = l[1].identity
        BY <2>8, <2>11, <2>13, <3>1, <3>2
      <3>4. Whole(jobs, s, m)
        BY <2>11, <2>13, <3>1, <3>2, <3>3 DEF Whole
      <3> QED
        BY <1>6, <1>11, <2>3, <2>5, <2>8, <2>9, <3>4
    <2>14. \A i \in DOMAIN m : AllFinished(jobs, m[i].identity)
      BY <1>11, <2>3, <2>8, <2>9
    <2> QED
      BY <1>6, <2>5, <2>12, <2>13, <2>14
  <1>13. CASE asked.workflow # Extender /\ asked.prompt_mode # "director"
    <2>1. Lineage(r) = <<>> /\ s.root = 0
      BY <1>9, <1>10, <1>13
    <2> QED
      BY <1>6, <2>1 DEF Whole
  <1>14. CASE asked.workflow # Extender /\ asked.prompt_mode = "director"
    <2>1. OneOf(asked.duration, OfferedDurations(d)) /\ d.duration_mode # "source"
      BY <1>3, <1>4, <1>5, <1>14, ExtenderIs DEF Made
    <2>2. Seconds[asked.duration] \in Nat /\ asked.duration # None
      BY <1>4, <1>5, <2>1, SecondsIs
    <2>3. s.root = n /\ s.told = Seconds[asked.duration] /\ n # 0
      BY <1>9, <1>14, <2>2 DEF FormInv, JobsOK
    <2>4. asked.dialogue_language # None
      BY <1>2, <1>3, <1>7, <1>14 DEF JobInv, Linked
    <2>5. PICK e : e = Restrict(parent.inputs, {"source_image"} \cap DOMAIN parent.inputs)
      OBVIOUS
    <2>6. /\ DOMAIN e = {"source_image"} \cap DOMAIN parent.inputs
          /\ \A role \in DOMAIN e : e[role] = parent.inputs[role]
      BY <2>5, RestrictIs DEF Job
    <2>7. PICK b : b = [idea |-> asked.prompt, language |-> asked.dialogue_language,
                        prior_seconds |-> Seconds[asked.duration], identity |-> e]
      OBVIOUS
    <2>8. Lineage(r) = <<b>>
      BY <1>10, <1>14, <2>4, <2>5, <2>7
    <2>9. /\ b.idea = asked.prompt /\ b.language = asked.dialogue_language
          /\ b.prior_seconds = Seconds[asked.duration] /\ b.identity = e
      BY <2>7
    <2>10. Image(e, "source_image") = Image(parent.inputs, "source_image")
      BY <2>6 DEF Image
    <2>11. AllFinished(jobs, parent.inputs)
      BY <1>2, <1>7 DEF JobInv, Linked
    <2>12. AllFinished(jobs, e)
      BY <2>6, <2>11 DEF AllFinished
    <2>13. PICK m : m = Lineage(r)
      OBVIOUS
    <2>14. Len(m) = 1 /\ DOMAIN m = {1} /\ m[1] = b
      BY <2>8, <2>13
    <2>15. Whole(jobs, s, m)
      BY <1>2, <1>3, <2>3, <2>9, <2>10, <2>14 DEF Whole
    <2> QED
      BY <1>6, <2>9, <2>12, <2>13, <2>14, <2>15
  <1> QED
    BY <1>12, <1>13, <1>14

\* The photograph of the first beginning is what is attached.
LEMMA AttachedImage ==
    ASSUME NEW js, NEW f \in Inputs, NEW l \in Seq(Beginning), AllFinished(js, f),
           \A i \in DOMAIN l : AllFinished(js, l[i].identity),
           NEW g, g = Attached(f, l)
    PROVE  /\ AllFinished(js, g)
           /\ l # <<>> /\ "identity_image" \notin DOMAIN f =>
                  Image(g, "identity_image") = Image(l[1].identity, "source_image")
  <1>1. CASE l = <<>>
    BY <1>1 DEF Attached
  <1>2. CASE l # <<>>
    <2>1. 1 \in DOMAIN l /\ l[1] \in Beginning
      BY <1>2, EmptySeq
    <2>2. PICK e \in Identity : e = l[1].identity
      BY <2>1 DEF Beginning
    <2>3. e \in Inputs /\ DOMAIN e \subseteq {"source_image"} /\ AllFinished(js, e)
      BY <2>1, <2>2 DEF Identity
    <2>4. CASE e = <<>>
      <3>1. g = f /\ DOMAIN e = {}
        BY <2>2, <2>4, InputsAre DEF Attached
      <3> QED
        BY <2>2, <3>1 DEF Image
    <2>5. CASE e # <<>>
      <3>1. "source_image" \in DOMAIN e
        <4>1. DOMAIN e # {}
          BY <2>3, <2>5, SameInputs, InputsAre
        <4> QED
          BY <2>3, <4>1
      <3>2. PICK a \in Asset : a = e["source_image"]
        BY <2>3, <3>1, InputsAre
      <3>3. PICK role \in Names : role = "identity_image"
        BY FormAssumption
      <3>4. g = Setting(f, role, a)
        BY <1>2, <2>2, <2>5, <3>2, <3>3 DEF Attached
      <3>5. /\ DOMAIN g = DOMAIN f \cup {role} /\ g[role] = a
            /\ \A r \in DOMAIN f \ {role} : g[r] = f[r]
        <4>1. /\ DOMAIN Setting(f, role, a) = DOMAIN f \cup {role}
              /\ Setting(f, role, a)[role] = a
              /\ \A r \in DOMAIN f \ {role} : Setting(f, role, a)[r] = f[r]
          BY ZenonT(40), SettingIs
        <4> QED
          BY <3>4, <4>1
      <3>6. Finished(js, a)
        BY <2>3, <3>1, <3>2 DEF AllFinished
      <3>7. AllFinished(js, g)
        BY <3>5, <3>6 DEF AllFinished
      <3> QED
        BY <2>2, <3>1, <3>2, <3>3, <3>5, <3>7 DEF Image
    <2> QED
      BY <2>4, <2>5
  <1> QED
    BY <1>1, <1>2

\* What the form of an extension asks for.
LEMMA ExtensionAsks ==
    ASSUME FormInv, FormIssues(page, values) = {}, page.id = Extender
    PROVE  "source_video" \in DOMAIN values.inputs /\ "identity_image" \notin DOMAIN values.inputs
  <1>1. page \in registry /\ registry \in Catalogues /\ DOMAIN values.inputs \subseteq KnownRoles(page)
    BY DEF FormInv, RegistryOK, FormOf
  <1>2. "source_video" \in RequiredRoles(page)
    BY <1>1, FormAssumption DEF RequiredRoles
  <1>3. RequiredRoles(page) \subseteq DOMAIN values.inputs
    <2>1. "inputs" \notin FormIssues(page, values)
      OBVIOUS
    <2> QED
      BY Zenon, <2>1, IssuesAre
  <1> QED
    BY <1>1, <1>2, <1>3, ExtenderIs

\* A job a form asks for carries the story it continues.
LEMMA NewCarries ==
    ASSUME FormInv, LineageInv, FormIssues(page, values) = {},
           NEW r, r = ToCreateInput(page, values), NEW job, job = NewJob(r)
    PROVE  /\ AllFinished(jobs, job.inputs)
           /\ \A i \in DOMAIN job.lineage : AllFinished(jobs, job.lineage[i].identity)
           /\ job.request.prompt_mode = "director" => job.request.dialogue_language # None
           /\ job.request.workflow = Extender =>
                 LET p == job.request.inputs["source_video"].job
                     s == IF p = 0 THEN [root |-> 0, told |-> 0] ELSE StoryOf(jobs)[p]
                 IN  /\ "source_video" \in DOMAIN job.request.inputs
                     /\ p \in 0..Len(jobs)
                     /\ Whole(jobs, s, job.lineage)
                     /\ s.root # 0 => Image(job.inputs, "identity_image") =
                                      Image(job.lineage[1].identity, "source_image")
  <1>1. /\ registry \in Catalogues /\ Starts(registry) /\ page \in registry
        /\ RegistryOK /\ JobsOK /\ FormOf(page, values)
    BY DEF FormInv, RegistryOK
  <1>2. SentFrom(page, values, r)
    BY <1>1, RequestIs
  <1>3. /\ job.request = r /\ job.lineage = Lineage(r) /\ job.inputs = Attached(r.inputs, Lineage(r))
    BY DEF NewJob
  <1>4. r \in Request /\ r.inputs \in Inputs /\ r.inputs = values.inputs /\ r.workflow = page.id
    BY <1>2 DEF SentFrom, Request
  <1>5. PICK l \in Seq(Beginning) : l = Lineage(r)
    BY <1>1, <1>4, LineageIs
  <1>6. PICK f \in Inputs : f = r.inputs
    BY <1>4
  <1>7. AllFinished(jobs, f)
    BY <1>4, <1>6 DEF LineageInv
  <1>8. r.prompt_mode = "director" => r.dialogue_language # None
    <2>1. /\ r.prompt_mode = IF values.promptMode = "director" THEN "director" ELSE None
          /\ r.dialogue_language = IF values.promptMode = "director"
                                   THEN values.dialogueLanguage ELSE None
      BY <1>2 DEF SentFrom, When
    <2>2. /\ ~page.prompt_modes => values.promptMode = None
          /\ page.prompt_modes => values.dialogueLanguage \in ToSet(DialogueLanguages)
      BY <1>1, NamedChoices DEF FormOf, ControlsFit, OneOf, OfferedModes, OfferedDialogue
    <2>3. None \notin ToSet(DialogueLanguages) /\ None # "director"
      BY NamedChoices DEF None
    <2> QED
      BY <2>1, <2>2, <2>3
  <1>9. CASE r.workflow # Extender
    <2>1. l = <<>>
      BY <1>1, <1>4, <1>5, <1>9, LineageIs
    <2>2. job.inputs = f /\ job.lineage = <<>>
      BY <1>3, <1>5, <1>6, <2>1 DEF Attached
    <2> QED
      BY <1>3, <1>7, <1>8, <1>9, <2>2
  <1>10. CASE r.workflow = Extender
    <2>1. "source_video" \in DOMAIN f /\ "identity_image" \notin DOMAIN f
      BY <1>4, <1>6, <1>10, ExtensionAsks
    <2>2. PICK a \in Asset : a = f["source_video"]
      BY <2>1, InputsAre
    <2>3. PICK p \in Nat : p = a.job
      BY DEF Asset
    <2>4. Finished(jobs, a)
      BY <1>7, <2>1, <2>2 DEF AllFinished
    <2>5. DOMAIN jobs = 1..Len(jobs) /\ Len(jobs) \in Nat
      BY <1>1 DEF JobsOK
    <2>6. p \in 0..Len(jobs) /\ (p # 0 => p \in DOMAIN jobs /\ jobs[p].status = "completed")
      BY <2>3, <2>4, <2>5 DEF Finished
    <2>7. PICK s : s = IF p = 0 THEN [root |-> 0, told |-> 0] ELSE StoryOf(jobs)[p]
      OBVIOUS
    <2>8. Whole(jobs, s, l) /\ \A i \in DOMAIN l : AllFinished(jobs, l[i].identity)
      <3>1. CASE p = 0
        <4>1. Producers(r.inputs["source_video"]) = {}
          BY <1>6, <2>2, <2>3, <2>5, <3>1 DEF Producers
        <4>2. l = <<>>
          BY <1>5, <4>1 DEF Lineage
        <4>3. s.root = 0
          BY <2>7, <3>1
        <4> QED
          BY <4>2, <4>3 DEF Whole
      <3>2. CASE p # 0
        <4>1. s = StoryOf(jobs)[p]
          BY <2>7, <3>2
        <4> QED
          BY <1>4, <1>5, <1>6, <1>10, <2>1, <2>2, <2>3, <2>6, <3>2, <4>1, InheritsWhole
      <3> QED
        BY <3>1, <3>2
    <2>9. PICK g : g = Attached(f, l)
      OBVIOUS
    <2>10. /\ AllFinished(jobs, g)
           /\ l # <<>> => Image(g, "identity_image") = Image(l[1].identity, "source_image")
      BY <1>7, <2>1, <2>8, <2>9, AttachedImage
    <2>11. s.root # 0 => l # <<>>
      <3>1. s.root # 0 => Len(l) = 1
        BY <2>8 DEF Whole
      <3>2. l = <<>> => Len(l) = 0
        <4>1. Len(<<>>) = 0
          OBVIOUS
        <4> QED
          BY <4>1, Zenon
      <3>3. l = <<>> => Len(l) # 1
        BY <3>2
      <3> QED
        BY <3>1, <3>3, Zenon
    <2>12. job.inputs = g /\ job.lineage = l /\ job.request = r
      BY <1>3, <1>5, <1>6, <2>9
    <2>13. r.inputs["source_video"].job = p /\ "source_video" \in DOMAIN r.inputs
      BY <1>6, <2>1, <2>2, <2>3
    <2> QED
      BY <1>8, <2>6, <2>7, <2>8, <2>10, <2>11, <2>12, <2>13
  <1> QED
    BY <1>9, <1>10

\* The job a form asks for joins the others in order.
LEMMA SubmitLineage ==
    ASSUME FormInv, FormInv', LineageInv, Submit
    PROVE  LineageInv'
  <1> DEFINE r == ToCreateInput(page, values)
  <1>1. PICK job : job = NewJob(r)
    OBVIOUS
  <1>2. FormIssues(page, values) = {} /\ jobs' = Append(jobs, job) /\ values' = values
    BY <1>1 DEF Submit
  <1>3. PICK js \in Seq(Job), js2 \in Seq(Job) : js = jobs /\ js2 = jobs'
    BY DEF FormInv, JobsOK
  <1>4. PICK n \in Nat : n = Len(js)
    OBVIOUS
  <1>5. js2 = Append(js, job)
    BY <1>2, <1>3
  <1>6. /\ Len(js2) = n + 1 /\ DOMAIN js = 1..n /\ DOMAIN js2 = 1..(n + 1)
        /\ js2[n + 1] = job /\ \A j \in 1..n : js2[j] = js[j]
    <2>1. DOMAIN js = 1..n /\ DOMAIN js2 = 1..Len(js2)
      BY <1>4
    <2>2. Len(js2) = n + 1 /\ js2[n + 1] = job
      BY <1>4, <1>5
    <2>3. \A j \in 1..n : js2[j] = js[j]
      BY <1>4, <1>5
    <2> QED
      BY <2>1, <2>2, <2>3
  <1>7. GoesOn(js, js2)
    BY <1>6 DEF GoesOn
  <1> HIDE DEF r
  <1>8. /\ AllFinished(js, job.inputs)
        /\ \A i \in DOMAIN job.lineage : AllFinished(js, job.lineage[i].identity)
        /\ job.request.prompt_mode = "director" => job.request.dialogue_language # None
        /\ job.request.workflow = Extender =>
              LET p == job.request.inputs["source_video"].job
                  s == IF p = 0 THEN [root |-> 0, told |-> 0] ELSE StoryOf(js)[p]
              IN  /\ "source_video" \in DOMAIN job.request.inputs
                  /\ p \in 0..Len(js)
                  /\ Whole(js, s, job.lineage)
                  /\ s.root # 0 => Image(job.inputs, "identity_image") =
                                   Image(job.lineage[1].identity, "source_image")
    BY <1>1, <1>2, <1>3, NewCarries DEF r
  <1>9. \A i \in DOMAIN js : JobInv(js, i)
    BY <1>3 DEF LineageInv
  <1>10. PICK p : p = ParentOf(js2, n + 1)
    OBVIOUS
  <1>11. /\ p = IF job.request.workflow # Extender THEN 0
                ELSE job.request.inputs["source_video"].job
         /\ p \in 0..n
    BY <1>4, <1>6, <1>8, <1>10 DEF ParentOf
  <1>12. Descends(js2)
    <2>1. ASSUME NEW j \in DOMAIN js2
          PROVE  ParentOf(js2, j) \in 0..(j - 1)
      <3>1. CASE j \in 1..n
        <4>1. ParentOf(js, j) \in 0..(j - 1)
          BY <1>6, <1>9, <3>1 DEF JobInv, Linked
        <4>2. ParentOf(js2, j) = ParentOf(js, j)
          BY <1>6, <3>1 DEF ParentOf
        <4> QED
          BY <4>1, <4>2
      <3>2. CASE j = n + 1
        BY <1>10, <1>11, <3>2
      <3> QED
        BY <1>6, <3>1, <3>2
    <2> QED
      BY <2>1 DEF Descends
  <1>13. Descends(js)
    BY <1>9 DEF Descends, JobInv, Linked
  <1>14. PICK f, g : f = StoryOf(js) /\ g = StoryOf(js2)
    OBVIOUS
  <1>15. \A j \in 1..n : g[j] = f[j] /\ g[j].root \in 0..j
    <2>1. \A j \in 1..n : g[j] = f[j]
      BY <1>6, <1>7, <1>12, <1>13, <1>14, SameStory
    <2>2. \A j \in 1..n : f[j].root \in 0..j
      BY <1>6, <1>9, <1>14 DEF JobInv
    <2> QED
      BY <2>1, <2>2
  <1>16. g[n + 1] = Tell(js2, g, n + 1)
    BY <1>6, <1>12, <1>14, StoryIs
  <1>17. g[n + 1].root \in 0..(n + 1)
    <2>1. CASE job.request.workflow # Extender
      BY <1>6, <1>16, <2>1 DEF Tell
    <2>2. CASE job.request.workflow = Extender /\ p = 0
      BY <1>6, <1>10, <1>16, <2>2 DEF Tell
    <2>3. CASE job.request.workflow = Extender /\ p # 0
      <3>1. g[n + 1].root = g[p].root
        BY <1>6, <1>10, <1>16, <2>3 DEF Tell
      <3>2. p \in 1..n
        BY <1>11, <2>3
      <3>3. g[p].root \in 0..p
        BY <1>15, <3>2
      <3> QED
        BY <3>1, <3>2, <3>3
    <2> QED
      BY <2>1, <2>2, <2>3
  <1>18. Linked(js2, n + 1)
    <2>1. AllFinished(js2, job.inputs)
      BY <1>7, <1>8, FinishedGoesOn
    <2>2. \A i \in DOMAIN job.lineage : AllFinished(js2, job.lineage[i].identity)
      BY <1>7, <1>8, FinishedGoesOn
    <2>3. p \in 0..(n + 1 - 1)
      BY <1>11
    <2>4. job.request.workflow = Extender => "source_video" \in DOMAIN job.request.inputs
      BY <1>8
    <2> QED
      BY <1>6, <1>8, <1>10, <2>1, <2>2, <2>3, <2>4 DEF Linked
  <1>19. Carries(js2, n + 1)
    <2> SUFFICES ASSUME job.request.workflow = Extender
                 PROVE  /\ Whole(js2, Before(js2, n + 1), job.lineage)
                        /\ Before(js2, n + 1).root # 0 =>
                               Image(job.inputs, "identity_image") =
                               Image(job.lineage[1].identity, "source_image")
      BY <1>6 DEF Carries
    <2>1. PICK s : s = IF p = 0 THEN [root |-> 0, told |-> 0] ELSE f[p]
      OBVIOUS
    <2>2. /\ Whole(js, s, job.lineage)
          /\ s.root # 0 => Image(job.inputs, "identity_image") =
                           Image(job.lineage[1].identity, "source_image")
      BY <1>8, <1>11, <1>14, <2>1
    <2>3. Before(js2, n + 1) = s
      <3>1. p # 0 => g[p] = f[p]
        BY <1>11, <1>15
      <3> QED
        BY <1>10, <1>14, <2>1, <3>1 DEF Before
    <2>4. s.root = 0 \/ s.root \in 1..n
      <3>1. CASE p = 0
        BY <2>1, <3>1
      <3>2. CASE p # 0
        <4>1. p \in 1..n
          BY <1>11, <3>2
        <4>2. s.root \in 0..p
          BY <1>15, <2>1, <3>2, <4>1
        <4> QED
          BY <4>1, <4>2
      <3> QED
        BY <3>1, <3>2
    <2>5. s.root # 0 => js2[s.root] = js[s.root]
      BY <1>6, <2>4
    <2>6. Whole(js2, s, job.lineage)
      BY <2>2, <2>5 DEF Whole
    <2> QED
      BY <2>2, <2>3, <2>6
  <1>20. JobInv(js2, n + 1)
    BY <1>14, <1>17, <1>18, <1>19 DEF JobInv
  <1>21. \A j \in DOMAIN js : JobInv(js2, j)
    BY <1>7, <1>9, <1>12, OldJobs
  <1>22. \A j \in DOMAIN js2 : JobInv(js2, j)
    <2>1. \A j \in 1..(n + 1) : j \in 1..n \/ j = n + 1
      OBVIOUS
    <2> QED
      BY <1>6, <1>20, <1>21, <2>1
  <1>23. AllFinished(js2, values.inputs)
    BY <1>3, <1>7, FinishedGoesOn DEF LineageInv
  <1> QED
    BY <1>2, <1>3, <1>22, <1>23 DEF LineageInv

\* A job that ends changes nothing of what was told.
LEMMA JobEndsLineage ==
    ASSUME FormInv, FormInv', LineageInv, JobEnds
    PROVE  LineageInv'
  <1>1. PICK n \in DOMAIN jobs, end \in {"completed", "failed"} :
            jobs[n].status = "running" /\ jobs' = [jobs EXCEPT ![n].status = end]
    BY DEF JobEnds
  <1>2. PICK js \in Seq(Job), js2 \in Seq(Job) : js = jobs /\ js2 = jobs'
    BY DEF FormInv, JobsOK
  <1>3. \A j \in DOMAIN js : js[j] \in Job
    OBVIOUS
  <1>4. DOMAIN js2 = DOMAIN js
    BY <1>1, <1>2
  <1>5. GoesOn(js, js2)
    <2>1. ASSUME NEW j \in DOMAIN js, j # n
          PROVE  js2[j] = js[j]
      BY <1>1, <1>2, <2>1
    <2>2. js2[n] = [js[n] EXCEPT !.status = end]
      BY <1>1, <1>2
    <2>3. PICK job \in Job : job = js[n]
      BY <1>1, <1>2, <1>3
    <2>4. /\ js2[n].request = js[n].request /\ js2[n].lineage = js[n].lineage
          /\ js2[n].inputs = js[n].inputs
      BY <2>2, <2>3 DEF Job
    <2> QED
      BY <1>1, <1>2, <1>4, <2>1, <2>4 DEF GoesOn
  <1>6. \A i \in DOMAIN js : JobInv(js, i)
    BY <1>2 DEF LineageInv
  <1>7. Descends(js2)
    <2>1. ASSUME NEW j \in DOMAIN js2
          PROVE  ParentOf(js2, j) \in 0..(j - 1)
      <3>1. ParentOf(js, j) \in 0..(j - 1)
        BY <1>4, <1>6 DEF JobInv, Linked
      <3>2. ParentOf(js2, j) = ParentOf(js, j)
        BY <1>4, <1>5 DEF GoesOn, ParentOf
      <3> QED
        BY <3>1, <3>2
    <2> QED
      BY <2>1 DEF Descends
  <1>8. \A j \in DOMAIN js2 : JobInv(js2, j)
    BY <1>4, <1>5, <1>6, <1>7, OldJobs
  <1>9. AllFinished(js2, values.inputs)
    BY <1>2, <1>5, FinishedGoesOn DEF LineageInv
  <1>10. values' = values
    BY DEF JobEnds
  <1> QED
    BY <1>2, <1>8, <1>9, <1>10 DEF LineageInv

\* A step that creates and ends no job only has to fill the form with what is finished.
LEMMA SameJobs ==
    ASSUME LineageInv, jobs' = jobs, AllFinished(jobs, values'.inputs)
    PROVE  LineageInv'
  BY DEF LineageInv

LEMMA SettingFinished ==
    ASSUME NEW js, NEW f \in Inputs, NEW role \in Names, NEW a \in Asset,
           AllFinished(js, f), Finished(js, a)
    PROVE  AllFinished(js, Setting(f, role, a))
  <1>1. /\ DOMAIN Setting(f, role, a) = DOMAIN f \cup {role}
        /\ Setting(f, role, a)[role] = a
        /\ \A r \in DOMAIN f \ {role} : Setting(f, role, a)[r] = f[r]
    BY SettingIs
  <1> QED
    BY <1>1 DEF AllFinished

LEMMA WithSourceFinished ==
    ASSUME NEW c \in Catalogues, Starts(c), NEW d \in c, NEW v \in FormValues, NEW js,
           AllFinished(js, v.inputs), NEW source \in SUBSET Asset,
           \A a \in source : Finished(js, a)
    PROVE  AllFinished(js, WithSource(d, v, source).inputs)
  <1>1. CASE source = {} \/ RequiredRoles(d) = {}
    BY <1>1 DEF WithSource
  <1>2. CASE source # {} /\ RequiredRoles(d) # {}
    <2> DEFINE Wanted(i) == /\ d.inputs[i].required
                            /\ \A k \in 1..(i - 1) : ~d.inputs[k].required
               n == CHOOSE i \in DOMAIN d.inputs : Wanted(i)
               role == d.inputs[n].role
               a == CHOOSE x \in source : TRUE
    <2>1. d \in WorkflowDefinition
      BY Offers
    <2>2. n \in DOMAIN d.inputs
      BY <1>2, <2>1, FirstRequired
    <2>3. role \in Names
      BY <2>1, <2>2, InputIs DEF KnownRoles
    <2>4. a \in Asset /\ Finished(js, a)
      BY <1>2
    <2>5. WithSource(d, v, source) = [v EXCEPT !.inputs = Setting(v.inputs, role, a)]
      BY <1>2 DEF WithSource
    <2> HIDE DEF role, a
    <2>6. PICK f \in Inputs : f = v.inputs
      BY DEF FormValues
    <2>7. PICK g : g = Setting(f, role, a)
      OBVIOUS
    <2>8. AllFinished(js, g)
      BY <2>3, <2>4, <2>6, <2>7, SettingFinished
    <2>9. [v EXCEPT !.inputs = g].inputs = g
      BY DEF FormValues
    <2> QED
      BY <2>5, <2>6, <2>7, <2>8, <2>9
  <1> QED
    BY <1>1, <1>2

LEMMA ArrivalLineage ==
    ASSUME FormInv, LineageInv, NEW d \in registry, NEW source \in SUBSET Asset,
           \A a \in source : Finished(jobs, a), Follow(d, source) \/ Open(d, source)
    PROVE  LineageInv'
  <1>1. /\ registry \in Catalogues /\ Starts(registry) /\ values \in FormValues
        /\ AllFinished(jobs, values.inputs)
    BY DEF FormInv, RegistryOK, FormOf, LineageInv
  <1>2. AllFinished(jobs, <<>>)
    BY InputsAre DEF AllFinished
  <1>3. jobs' = jobs
    BY DEF Follow, Open
  <1>4. CASE Follow(d, source)
    <2> DEFINE kept == IF d = page THEN values ELSE PreserveValues(d, values)
    <2>1. kept \in FormValues
      BY <1>1, PreserveFits DEF FormOf
    <2>2. AllFinished(jobs, kept.inputs)
      <3>1. DefaultValues(d).inputs = <<>>
        BY DEF DefaultValues
      <3>2. PreserveValues(d, values).inputs = <<>>
        BY <1>1, <3>1, DefaultFits DEF PreserveValues, FormOf, FormValues
      <3> QED
        BY <1>1, <1>2, <3>2
    <2>3. values' = WithSource(d, kept, source) \/ values' = kept
      BY <1>4 DEF Follow
    <2> HIDE DEF kept
    <2>4. AllFinished(jobs, WithSource(d, kept, source).inputs)
      BY <1>1, <2>1, <2>2, WithSourceFinished
    <2> QED
      BY <1>3, <2>2, <2>3, <2>4, SameJobs
  <1>5. CASE Open(d, source)
    <2>1. DefaultValues(d) \in FormValues /\ DefaultValues(d).inputs = <<>>
      BY <1>1, DefaultFits DEF FormOf
    <2>2. AllFinished(jobs, WithSource(d, DefaultValues(d), source).inputs)
      BY <1>1, <1>2, <2>1, WithSourceFinished
    <2> QED
      BY <1>3, <1>5, <2>2, SameJobs DEF Open
  <1> QED
    BY <1>4, <1>5

LEMMA EditLineage ==
    ASSUME FormInv, LineageInv, Edit
    PROVE  LineageInv'
  <1>1. /\ values \in FormValues /\ values.inputs \in Inputs /\ AllFinished(jobs, values.inputs)
        /\ registry \in Catalogues /\ Starts(registry) /\ page \in registry
    BY DEF FormInv, RegistryOK, FormOf, FormValues, LineageInv
  <1>2. jobs' = jobs /\ (Edited(values') \/ Filled(values'))
    BY DEF Edit
  <1>3. ASSUME Edited(values') PROVE values'.inputs = values.inputs
    BY <1>1, <1>3 DEF Edited, FormValues
  <1>4. ASSUME NEW role \in KnownRoles(page),
               values' = [values EXCEPT !.inputs =
                              Setting(@, role, Uploaded(InputFor(page, role).kind))]
        PROVE  AllFinished(jobs, values'.inputs)
    <2>1. page \in WorkflowDefinition
      BY <1>1, Offers
    <2>2. InputFor(page, role).kind \in Kinds /\ role \in Names
      BY <2>1, InputIs
    <2>3. PICK a \in Asset : a = Uploaded(InputFor(page, role).kind) /\ a.job = 0
      <3>1. /\ Uploaded(InputFor(page, role).kind) \in Asset
            /\ Uploaded(InputFor(page, role).kind).job = 0
        BY <2>2 DEF Uploaded, Asset
      <3> QED
        BY <3>1
    <2>4. PICK f \in Inputs : f = values.inputs
      BY <1>1
    <2>5. PICK g : g = Setting(f, role, a)
      OBVIOUS
    <2>6. AllFinished(jobs, g)
      BY <1>1, <2>2, <2>3, <2>4, <2>5, SettingFinished DEF Finished
    <2>7. values' = [values EXCEPT !.inputs = g]
      BY <1>4, <2>3, <2>4, <2>5
    <2> QED
      BY <1>1, <2>6, <2>7 DEF FormValues
  <1>5. ASSUME NEW role \in DOMAIN values.inputs,
               values' = [values EXCEPT !.inputs = Restrict(@, DOMAIN @ \ {role})]
        PROVE  AllFinished(jobs, values'.inputs)
    <2>1. PICK f \in Inputs : f = values.inputs
      BY <1>1
    <2>2. PICK g : g = Restrict(f, DOMAIN f \ {role})
      OBVIOUS
    <2>3. DOMAIN g = DOMAIN f \ {role} /\ \A r \in DOMAIN g : g[r] = f[r]
      BY <2>2, RestrictIs
    <2>4. AllFinished(jobs, g)
      BY <1>1, <2>1, <2>3 DEF AllFinished
    <2>5. values' = [values EXCEPT !.inputs = g]
      BY <1>5, <2>1, <2>2
    <2> QED
      BY <1>1, <2>4, <2>5 DEF FormValues
  <1>6. ASSUME Filled(values') PROVE AllFinished(jobs, values'.inputs)
    BY <1>4, <1>5, <1>6 DEF Filled
  <1>7. AllFinished(jobs, values'.inputs)
    BY <1>1, <1>2, <1>3, <1>6
  <1> QED
    BY <1>2, <1>7, SameJobs

LEMMA NextLineage ==
    FormInv /\ FormInv' /\ LineageInv /\ [FormNext]_formVars => LineageInv'
  <1> SUFFICES ASSUME FormInv, FormInv', LineageInv, [FormNext]_formVars
               PROVE  LineageInv'
    OBVIOUS
  <1>1. \A j \in DOMAIN jobs : jobs[j].status = "completed" =>
            \A a \in {OutputOf(j)} : Finished(jobs, a)
    BY DEF OutputOf, Finished
  <1>2. CASE Edit
    BY <1>2, EditLineage
  <1>3. CASE SwitchTool
    <2>1. {} \in SUBSET Asset /\ \A a \in {} : Finished(jobs, a)
      OBVIOUS
    <2>2. PICK d \in registry : Follow(d, {}) \/ Open(d, {})
      BY <1>3 DEF SwitchTool
    <2> QED
      BY <2>1, <2>2, ArrivalLineage
  <1>4. CASE Extend
    <2>1. PICK d \in registry : Follow(d, {OutputOf(shown)}) \/ Open(d, {OutputOf(shown)})
      BY <1>4 DEF Extend
    <2>2. shown \in DOMAIN jobs /\ jobs[shown].status = "completed"
      BY <1>4 DEF Extend, ExtendOffered, FormInv, JobsOK
    <2>3. {OutputOf(shown)} \in SUBSET Asset
      BY <2>2, OutputIs
    <2> QED
      BY <1>1, <2>1, <2>2, <2>3, ArrivalLineage
  <1>5. CASE FilmTrack
    <2>1. PICK d \in registry : Follow(d, {OutputOf(shown)}) \/ Open(d, {OutputOf(shown)})
      BY <1>5 DEF FilmTrack
    <2>2. shown \in DOMAIN jobs /\ jobs[shown].status = "completed"
      BY <1>5 DEF FilmTrack, FormInv, JobsOK
    <2>3. {OutputOf(shown)} \in SUBSET Asset
      BY <2>2, OutputIs
    <2> QED
      BY <1>1, <2>1, <2>2, <2>3, ArrivalLineage
  <1>6. CASE SelectJob
    BY <1>6, SameJobs DEF SelectJob, LineageInv
  <1>7. CASE ReuseSettings
    <2>1. jobs' = jobs /\ shown # 0 /\ values' = ValuesFromJob(page, jobs[shown])
      BY <1>7 DEF ReuseSettings
    <2>2. shown \in DOMAIN jobs
      BY <2>1 DEF FormInv, JobsOK
    <2>3. PICK f \in Inputs : f = jobs[shown].inputs
      <3>1. jobs[shown] \in Job
        BY <2>2 DEF FormInv, JobsOK
      <3> QED
        BY <3>1 DEF Job
    <2>4. values'.inputs = Restored(page, f)
      BY <2>1, <2>3 DEF ValuesFromJob
    <2>5. AllFinished(jobs, f)
      BY <2>2, <2>3 DEF LineageInv, JobInv, Linked
    <2>6. /\ DOMAIN Restored(page, f) = KnownRoles(page) \cap DOMAIN f
          /\ \A r \in KnownRoles(page) \cap DOMAIN f : Restored(page, f)[r] = f[r]
      BY RestoredIs
    <2>7. AllFinished(jobs, values'.inputs)
      BY <2>4, <2>5, <2>6 DEF AllFinished
    <2> QED
      BY <2>1, <2>7, SameJobs
  <1>8. CASE Submit
    BY <1>8, SubmitLineage
  <1>9. CASE JobEnds
    BY <1>9, JobEndsLineage
  <1>10. CASE UNCHANGED formVars
    BY <1>10, SameJobs DEF formVars, LineageInv
  <1> QED
    BY <1>2, <1>3, <1>4, <1>5, <1>6, <1>7, <1>8, <1>9, <1>10 DEF FormNext

LEMMA LineageInvHolds == FormSpec => []LineageInv
  <1>1. FormInit => LineageInv
    <2> SUFFICES ASSUME FormInit PROVE LineageInv
      OBVIOUS
    <2>1. jobs = <<>> /\ values.inputs = <<>>
      BY DEF FormInit, DefaultValues
    <2>2. DOMAIN jobs = {} /\ DOMAIN values.inputs = {}
      BY <2>1, InputsAre
    <2> QED
      BY <2>2 DEF LineageInv, AllFinished
  <1> QED
    BY <1>1, NextLineage, FormInvHolds, PTL DEF FormSpec

\* However many times a video is extended, each extension carries the first idea and
\* language, the seconds of everything before it, and the first photograph.
THEOREM LineagesAreWhole == FormSpec => []LineageIsWhole
  <1>1. FormInv /\ LineageInv => LineageIsWhole
    <2> SUFFICES ASSUME FormInv, LineageInv, NEW j \in DOMAIN jobs,
                        jobs[j].request.workflow = Extender
                 PROVE  LET story == IF Parent(j) = 0 THEN [root |-> 0, told |-> 0]
                                     ELSE Story[Parent(j)]
                            lineage == jobs[j].lineage
                        IN  IF story.root = 0 THEN lineage = <<>>
                            ELSE /\ Len(lineage) = 1
                                 /\ lineage[1].idea = jobs[story.root].request.prompt
                                 /\ lineage[1].language =
                                        jobs[story.root].request.dialogue_language
                                 /\ lineage[1].prior_seconds = story.told
                                 /\ Image(jobs[j].inputs, "identity_image") =
                                        Image(jobs[story.root].inputs, "source_image")
      BY DEF LineageIsWhole, Image
    <2>1. PICK s : s = Before(jobs, j)
      OBVIOUS
    <2>2. s = IF Parent(j) = 0 THEN [root |-> 0, told |-> 0] ELSE Story[Parent(j)]
      <3>1. Parent(j) = ParentOf(jobs, j)
        BY DEF Parent, ParentOf
      <3> QED
        BY <2>1, <3>1, StoryOfJobs DEF Before
    <2>3. /\ Whole(jobs, s, jobs[j].lineage)
          /\ s.root # 0 => Image(jobs[j].inputs, "identity_image") =
                           Image(jobs[j].lineage[1].identity, "source_image")
      BY <2>1 DEF LineageInv, JobInv, Carries
    <2> QED
      BY <2>2, <2>3 DEF Whole
  <1> QED
    BY <1>1, FormInvHolds, LineageInvHolds, PTL
=============================================================================
