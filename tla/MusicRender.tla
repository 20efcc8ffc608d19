------------------------------ MODULE MusicRender ------------------------------
(***************************************************************************)
(* The music adapter: one song from a prompt.                              *)
(*                                                                         *)
(* The song's parts are planned from its genre and length; its words are   *)
(* the customer's, or are asked of a chain of writers, reviewed, asked for *)
(* once more and polished; its sound is asked of a music service in as     *)
(* many takes as the service's ceiling makes necessary, which are joined   *)
(* with crossfades.  An empty sheet means an instrumental to that service. *)
(* Lengths of sound are in hundredths of a second.                         *)
(***************************************************************************)
EXTENDS Timing, SequencesExt

CONSTANTS
    MusicJobs,     \* what may be asked of the adapter, with its deployment
    HostedSheets,  \* what the hosted writer may answer
    HostedTries    \* 1 + cerebras_lyrics_max_retries

Writers == {"template", "cerebras"}

\* A job: its length in seconds; the most a take may be, set by the deployment (0:
\* not set) and by the service, and the crossfade, in hundredths; what the prompt,
\* the form and the deployment say of its words.
SongRequest ==
    [seconds : Nat \ {0}, ceiling : Nat, longest : Nat, fade : Nat, genre : STRING,
     vocals : {"asked", "refused", "unsaid"}, keep : Seq(STRING), titled : SUBSET STRING,
     supplied : BOOLEAN, instrumental : BOOLEAN, language : STRING,
     writers : Seq(Writers), key : BOOLEAN, service : {"up", "none", "unknown"}]

\* A sheet is tagged blocks of lines.  A line has its words, the sound it ends on (0
\* where the rhyme rules hear none) and the details of the prompt it mentions.
Line(words, sound, keeps) == [words |-> words, sound |-> sound, keeps |-> keeps]
Block(tag, lines) == [tag |-> tag, lines |-> lines]

LyricLine == [words : STRING \X Nat \X Nat, sound : Nat, keeps : SUBSET STRING]
Sheet     == Seq([tag : STRING, lines : Seq(LyricLine)])

ASSUME MusicAssumption ==
    /\ HostedTries \in Nat \ {0}
    /\ MusicJobs # {} /\ MusicJobs \subseteq SongRequest
    /\ \A answer \in HostedSheets : answer.sheet \in Sheet

VARIABLES
    music,  \* the job and how far its handler is
    take    \* the section whose audio is in provider/take-00.mp3, or 0

musicVars == <<music, take>>

-----------------------------------------------------------------------------
(***************************************************************************)
(* The song's plan.                                                        *)
(***************************************************************************)
Wordless == {"ambient", "instrumental"}

\* _STRUCTURES: opening, repeated cycle, late section, closing
Structure(genre) ==
    LET Shape(cycle, late, close) ==
            [cycle |-> cycle, late |-> late, close |-> <<close, "outro">>]
    IN  CASE genre \in Wordless      -> [cycle |-> <<"movement">>, late |-> <<>>, close |-> <<"outro">>]
          [] genre = "electronic"    -> Shape(<<"build", "drop", "breakdown">>, <<>>, "drop")
          [] genre = "hip-hop"       -> Shape(<<"verse", "hook">>, <<>>, "hook")
          [] genre = "folk"          -> Shape(<<"verse", "chorus">>, <<>>, "verse")
          [] genre = "rock"          -> Shape(<<"verse", "chorus">>, <<"solo">>, "chorus")
          [] genre \in {"rnb", "ballad", "country"} -> Shape(<<"verse", "chorus">>, <<"bridge">>, "chorus")
          [] OTHER                   -> Shape(<<"verse", "pre-chorus", "chorus">>, <<"bridge">>, "chorus")

KindSeconds(kind) ==
    CASE kind \in {"intro", "pre-chorus"} -> 12 [] kind = "verse"  -> 30
      [] kind = "chorus"   -> 24                [] kind = "build"  -> 16
      [] kind = "drop"     -> 28                [] kind = "outro"  -> 14
      [] kind = "movement" -> 60                [] OTHER           -> 20

Chorus == {"chorus", "hook", "drop"}
CarriesWords(kind) == kind \in Chorus \cup {"verse", "pre-chorus", "bridge"}

IsWordless(job) ==
    CASE job.vocals = "asked"   -> FALSE
      [] job.vocals = "refused" -> TRUE
      [] OTHER                  -> job.genre \in Wordless

\* plan_song: a wordless genre asked for a voice borrows pop's shape.
SongKinds(job) ==
    LET shape  == Structure(IF ~IsWordless(job) /\ job.genre \in Wordless THEN "pop" ELSE job.genre)
        Length(kinds) == SumTo(Len(kinds), [i \in DOMAIN kinds |-> KindSeconds(kinds[i])])
        fixed  == KindSeconds("intro") + Length(shape.close)
        cycles == AtLeast(1, Rounded(job.seconds - fixed, Length(shape.cycle)))
        late   == IF cycles >= 2 /\ job.seconds >= 120 THEN shape.late ELSE <<>>
    IN  <<"intro">> \o FlattenSeq([i \in 1..cycles |-> shape.cycle]) \o late \o shape.close

Wanted == [job \in MusicJobs |-> {k \in ToSet(SongKinds(job)) : CarriesWords(k)}]
HasLyrics(job) == ~IsWordless(job) /\ Wanted[job] # {}
SungJobs == {job \in MusicJobs : HasLyrics(job)}

LineBudget(job)  == AtLeast(2, job.seconds \div 6)
TargetLines(job) == AtMost(LineBudget(job), AtLeast(4, Rounded(job.seconds, 8)))

-----------------------------------------------------------------------------
(***************************************************************************)
(* What is made of a lyric sheet.  Its lines are told by where they are: a *)
(* block and a place in it.                                                *)
(***************************************************************************)
Refrains == Chorus \cup {"refrain"}
Places(sheet) == UNION {{i} \X DOMAIN sheet[i].lines : i \in DOMAIN sheet}
LineAt(sheet, p) == sheet[p[1]].lines[p[2]]
Keeps(sheet) == UNION {LineAt(sheet, p).keeps : p \in Places(sheet)}

\* parse_sections: a tag without lines is no section.
SungSections(sheet) == {i \in DOMAIN sheet : sheet[i].lines # <<>>}

\* A line that repeats the one before it is dropped.
WithoutEchoes(lines) ==
    LET said   == {i \in DOMAIN lines : i = 1 \/ lines[i].words # lines[i - 1].words}
        Nth(n) == CHOOSE i \in said : Cardinality({k \in said : k <= i}) = n
    IN  [n \in 1..Cardinality(said) |-> lines[Nth(n)]]

\* polish_lyrics: every refrain becomes the longest one written.
Polished(sheet) ==
    LET refrains == {i \in SungSections(sheet) : sheet[i].tag \in Refrains}
        longest  == CHOOSE i \in refrains :
                        /\ \A k \in refrains : Len(sheet[k].lines) <= Len(sheet[i].lines)
                        /\ \A k \in refrains : k < i => Len(sheet[k].lines) < Len(sheet[i].lines)
    IN  [i \in DOMAIN sheet |->
            Block(sheet[i].tag, IF i \in refrains THEN sheet[longest].lines
                                ELSE WithoutEchoes(sheet[i].lines))]

\* review_lyrics: what is wrong with a draft, and its two rates as fractions.
Review(job, sheet) ==
    LET parts   == SungSections(sheet)
        all     == Places(sheet)
        At(p)   == LineAt(sheet, p)
        verses  == {p \in all : sheet[p[1]].tag \notin Refrains}
        once    == {p \in verses : \A q \in verses \ {p} : At(q).words # At(p).words}
        arrived == {sheet[i].tag : i \in parts}
        refrains == {sheet[i].lines : i \in {k \in parts : sheet[k].tag \in Refrains}}
        several == {i \in parts : Len(sheet[i].lines) >= 2}
        heard   == {p \in all : p[1] \in several}
        rhymed  == {p \in heard : \E k \in DOMAIN sheet[p[1]].lines :
                        LET other == At(<<p[1], k>>) IN
                        /\ other.sound = At(p).sound /\ other.sound # 0
                        /\ other.words # At(p).words}
        issues  == (IF (Wanted[job] \cap {"verse", "chorus", "hook", "drop"}) \subseteq arrived
                    THEN {} ELSE {"missing"})
                   \cup (IF several = parts THEN {} ELSE {"thin"})
                   \cup (IF Cardinality(all) <= LineBudget(job) THEN {} ELSE {"density"})
                   \cup (IF once = verses THEN {} ELSE {"repeated"})
                   \cup (IF Cardinality(refrains) <= 1 THEN {} ELSE {"refrains"})
                   \cup (IF ToSet(job.keep) \subseteq Keeps(sheet) THEN {} ELSE {"detail"})
    IN  IF parts = {} THEN [issues |-> {"empty"}, rhyme |-> <<0, 1>>, unique |-> <<0, 1>>]
        ELSE [issues |-> issues,
              rhyme  |-> IF heard = {} THEN <<0, 1>>
                         ELSE <<Cardinality(rhymed), Cardinality(heard)>>,
              unique |-> IF verses = {} THEN <<1, 1>>
                         ELSE <<Cardinality(once), Cardinality(verses)>>]

Acceptable(r) ==
    /\ r.issues = {}
    /\ 2 * r.rhyme[1] >= r.rhyme[2] /\ 10 * r.unique[1] >= 7 * r.unique[2]

\* Mutation: a draft with something wrong in it scores as high as one without.
ScoreByRates(r) ==
    <<r.rhyme[1] * r.unique[2] + r.unique[1] * r.rhyme[2], r.rhyme[2] * r.unique[2]>>

\* _score, as a fraction
Score(r) ==
    LET den == r.rhyme[2] * r.unique[2] IN
    <<r.rhyme[1] * r.unique[2] + r.unique[1] * r.rhyme[2] - Cardinality(r.issues) * den, den>>

Better(r, s) == Score(r)[1] * Score(s)[2] > Score(s)[1] * Score(r)[2]

(***************************************************************************)
(* The local writer: couplets from a bank of English ones.                 *)
(***************************************************************************)
\* Couplets the bank holds for the mood that has fewest of a kind.
BankSize(kind) == CASE kind = "verse" -> 8 [] kind = "chorus" -> 3 [] OTHER -> 2

\* The n-th couplet of a kind and those that follow it: pairs of lines that rhyme.
Couplets(kind, n, many) ==
    [k \in 1..(2 * many) |-> Line(<<kind, n, k>>, n + (k - 1) \div 2, {})]
Couplet(kind, n) == Couplets(kind, n, 1)

\* What the line budget has room for: a verse and two lines of the refrain at
\* least, a title, a pre-chorus, and couplets for what is left.
Shape ==
    LET spare(job) == TargetLines(job) - (IF "verse" \in Wanted[job] THEN 2 ELSE 0)
        left(job)  == spare(job) - 2 - (IF spare(job) >= 3 THEN 1 ELSE 0)
        pre(job)   == "pre-chorus" \in Wanted[job] /\ left(job) >= 2
    IN  [job \in SungJobs |->
            [verse |-> "verse" \in Wanted[job], title |-> spare(job) >= 3, pre |-> pre(job),
             tag   |-> CHOOSE k \in Chorus : k \in Wanted[job],
             more  |-> (IF pre(job) THEN left(job) - 2 ELSE left(job)) \div 2]]

\* _compose: a verse and the refrain, then a pre-chorus, a bridge and more
\* verses, or a longer refrain where there are no verses, while lines are left.
Composed(job, s) ==
    LET grown  == IF s.verse THEN 0 ELSE AtMost(AtLeast(0, s.more), BankSize(s.tag) - 1)
        refrain == (IF s.title THEN <<Line(<<"title", 0, 0>>, 0, job.titled)>> ELSE <<>>)
                   \o Couplets(s.tag, 1, 1 + grown)
        core   == (IF s.verse THEN <<Block("verse", Couplet("verse", 1))>> ELSE <<>>)
                  \o (IF s.pre THEN <<Block("pre-chorus", Couplet("pre-chorus", 1))>> ELSE <<>>)
                  \o <<Block(s.tag, refrain)>>
        ahead  == IF s.pre THEN 0 ELSE 1        \* verses before the bridge
        bridge == "bridge" \in Wanted[job] /\ s.verse /\ s.more > ahead
        verses == IF s.verse THEN AtMost(AtLeast(0, IF bridge THEN s.more - 1 ELSE s.more),
                                         BankSize("verse") - 1) ELSE 0
        blocks == [n \in 1..verses |-> Block("verse", Couplet("verse", n + 1))]
    IN  core \o (IF bridge THEN SubSeq(blocks, 1, ahead) \o <<Block("bridge", Couplet("bridge", 1))>>
                                \o SubSeq(blocks, ahead + 1, verses)
                 ELSE blocks)

ComposedSheet == [job \in SungJobs |-> Composed(job, Shape[job])]

\* _ensure_details: two of the details no line mentions replace the last verse.
WithDetails(sheet, missing) ==
    LET two    == ToSet(SubSeq(missing, 1, AtMost(2, Len(missing))))
        verses == {i \in DOMAIN sheet : sheet[i].tag = "verse"}
        at     == CHOOSE i \in verses : \A k \in verses : k <= i
    IN  IF missing = <<>> THEN sheet
        ELSE IF verses # {}
        THEN [sheet EXCEPT ![at] =
                  Block("verse", <<Line(<<"detail", 0, 1>>, 99, two), Line(<<"detail", 0, 2>>, 99, {})>>)]
        ELSE [sheet EXCEPT ![1] = Block(sheet[1].tag, [sheet[1].lines EXCEPT ![1].keeps = @ \cup two])]

LocalSheet(job) ==
    LET sheet == ComposedSheet[job] IN
    WithDetails(sheet, SelectSeq(job.keep, LAMBDA d : d \notin Keeps(sheet)))

(***************************************************************************)
(* written_in: does what the hosted writer answered read as the language   *)
(* that was asked for?  Shares are in hundredths of its words.             *)
(***************************************************************************)
Scripted == {"ja", "ur", "ru"}   \* languages told by their script

\* Too few words, or none that tell, are no evidence.
ReadsWrong(language, r) ==
    /\ r.body
    /\ IF language \in Scripted THEN ~r.native
       ELSE \/ r.foreign
            \/ r.tokens >= 12 /\ r.rival >= 8 /\ r.rival >= 2 * r.mine

\* What is sung of a sheet and what the review says of it.
ReviewedDraft(author, job, sheet, wrong) ==
    [author |-> author, wrong |-> wrong, review |-> Review(job, Polished(sheet))]

Language(job) == IF job.language = "any" THEN "en" ELSE job.language

LocalDraft == [job \in SungJobs |-> ReviewedDraft("template", job, LocalSheet(job), FALSE)]
HostedDrafts ==
    [job \in {j \in SungJobs : j.key} |->
        {ReviewedDraft("cerebras", job, s.sheet, ReadsWrong(Language(job), s.reads)) : s \in HostedSheets}]

\* No more than two details beside the prompt's subject.
FewDetails(job) == Cardinality(ToSet(job.keep) \ job.titled) <= 2

\* What the local writer makes of such a prompt is worth singing.
LocalFits(job) == FewDetails(job) => Acceptable(LocalDraft[job].review)

-----------------------------------------------------------------------------
(***************************************************************************)
(* The takes a song is made of.                                            *)
(***************************************************************************)
Total(job)   == 100 * job.seconds
Longest(job) == AtLeast(500, IF job.ceiling > 0 THEN job.ceiling ELSE job.longest)

\* The requested length and what n - 1 crossfades will consume of it.
Padded(job, n) == Total(job) + (n - 1) * job.fade

\* Mutation: the crossfades are forgotten when the takes are counted.
UnpaddedTakeCount(job) == CeilDiv(Total(job), Longest(job))

\* _plan_sections: the padding depends on the takes and the takes on the padding.
TakeCount(job) ==
    LET count[k \in 0..8] ==
            IF k = 0 THEN CeilDiv(Total(job), Longest(job))
            ELSE AtLeast(1, CeilDiv(Padded(job, count[k - 1]), Longest(job)))
    IN  IF Total(job) <= Longest(job) THEN 1 ELSE count[8]

TakesOf == [job \in MusicJobs |-> TakeCount(job)]

\* A deployment whose crossfades leave half of a take, and songs of no more takes
\* than eight rounds of counting are sure to settle.
Joinable(job) == 2 * job.fade <= Longest(job) /\ Total(job) <= 255 * Longest(job)

\* crossfade_concat of n takes whose lengths add up to "whole".
Joined(job, n, whole) == whole - (n - 1) * AtLeast(5, job.fade)

-----------------------------------------------------------------------------
(***************************************************************************)
(* The handler.                                                            *)
(***************************************************************************)
MusicStarting(at, job) ==
    [at |-> at, job |-> job, chain |-> <<>>, round |-> 1, tries |-> 1, best |-> <<>>,
     fit |-> FALSE, asked |-> {}, words |-> "none", count |-> 0, section |-> 1,
     cancelled |-> FALSE, ends |-> "none", retry |-> TRUE]

NoTake == [section |-> 0, whole |-> 0]

MusicInit == music \in {MusicStarting("planning", job) : job \in MusicJobs} /\ take = NoTake
MusicIdle == music = MusicStarting("idle", CHOOSE job \in MusicJobs : TRUE) /\ take = NoTake

MusicOver == {"delivered", "failed", "cancelled"}

MusicTo(m) == music' = m
MusicFailing(m, why, retry) == [m EXCEPT !.at = "failed", !.ends = why, !.retry = retry]

Available(job, writer) == writer = "template" \/ job.key
CanWrite(writer, language) == writer = "cerebras" \/ language = "en"
Writable(job) == {w \in ToSet(job.writers) : Available(job, w) /\ CanWrite(w, Language(job))}

\* A provider that is not known and a language that is not offered fail the job
\* for good.  The customer's words are sung as they are; an instrumental, a
\* wordless plan and a platform without writers have none; a language no writer
\* at hand can write is refused before one is asked.
PlanSong ==
    /\ music.at = "planning"
    /\ LET job == music.job IN
       MusicTo(IF job.service = "unknown" \/ job.language = "unknown"
               THEN MusicFailing(music, "refused", FALSE)
               ELSE IF job.supplied THEN [music EXCEPT !.at = "sections", !.words = "supplied"]
               ELSE IF job.instrumental \/ job.writers = <<>> \/ job \notin SungJobs
               THEN [music EXCEPT !.at = "sections"]
               ELSE IF Writable(job) = {} THEN MusicFailing(music, "refused", FALSE)
               ELSE [music EXCEPT !.at = "writing", !.chain = job.writers])
    /\ UNCHANGED take

Writing(w) == music.at = "writing" /\ music.chain # <<>> /\ Head(music.chain) = w

NextWriter(m) == [m EXCEPT !.chain = Tail(@), !.tries = 1]

\* write_lyrics: polished, reviewed, kept if it is the best so far, and enough
\* if it is acceptable or there was a draft before it.
Drafted(m, draft) ==
    LET better == m.best = <<>> \/ Better(draft.review, m.best[1].review)
        kept   == [m EXCEPT !.best = IF better THEN <<draft>> ELSE @]
    IN  IF Acceptable(draft.review) \/ m.round = 2
        THEN [kept EXCEPT !.fit = Acceptable(draft.review), !.words = "written", !.at = "sections"]
        ELSE [kept EXCEPT !.round = 2, !.chain = m.job.writers, !.tries = 1]

\* The chain passes over a writer that cannot be used or cannot write the language.
SkipWriter ==
    /\ music.at = "writing" /\ music.chain # <<>> /\ Head(music.chain) \notin Writable(music.job)
    /\ MusicTo(NextWriter(music))
    /\ UNCHANGED take

\* Mutation: an answer in the wrong language is used when no try is left.
HostedAnswersAnyway ==
    /\ Writing("cerebras") /\ music.job.key
    /\ \E draft \in HostedDrafts[music.job] :
         MusicTo(IF ~draft.wrong \/ music.tries = HostedTries THEN Drafted(music, draft)
                 ELSE [music EXCEPT !.tries = @ + 1])
    /\ UNCHANGED take

\* The hosted writer answers; in a wrong language it is told so and asked again.
HostedAnswers ==
    /\ Writing("cerebras") /\ music.job.key
    /\ \E draft \in HostedDrafts[music.job] :
         MusicTo(IF ~draft.wrong THEN Drafted(music, draft)
                 ELSE IF music.tries < HostedTries THEN [music EXCEPT !.tries = @ + 1]
                 ELSE NextWriter(music))
    /\ UNCHANGED take

\* Mutation: the hosted writer is tried again as often as it fails.
HostedFailsForever ==
    /\ Writing("cerebras") /\ music.job.key
    /\ \E again \in BOOLEAN :
         MusicTo(IF again THEN [music EXCEPT !.tries = @ + 1] ELSE NextWriter(music))
    /\ UNCHANGED take

\* A timeout, an error status, an empty answer; a refused key is not tried again.
HostedFails ==
    /\ Writing("cerebras") /\ music.job.key
    /\ \E again \in BOOLEAN :
         MusicTo(IF again /\ music.tries < HostedTries THEN [music EXCEPT !.tries = @ + 1]
                 ELSE NextWriter(music))
    /\ UNCHANGED take

LocalWrites ==
    /\ Writing("template") /\ CanWrite("template", Language(music.job))
    /\ \E draft \in {LocalDraft[music.job]} :
         MusicTo(Drafted([music EXCEPT !.asked = @ \cup {"template"}], draft))
    /\ UNCHANGED take

\* NoLyricsWriterAvailable, in whichever round.
NobodyWrites ==
    /\ music.at = "writing" /\ music.chain = <<>>
    /\ MusicTo(MusicFailing(music, "no words", TRUE))
    /\ UNCHANGED take

PlanTakes ==
    /\ music.at = "sections"
    /\ MusicTo([music EXCEPT !.at = "section", !.count = TakesOf[music.job]])
    /\ UNCHANGED take

\* Between takes the job may stop.  The service takes no request beyond its ceiling.
StartTake ==
    /\ music.at = "section"
    /\ LET job == music.job IN
       MusicTo(IF music.cancelled THEN [music EXCEPT !.at = "cancelled"]
               ELSE IF job.service = "none" THEN MusicFailing(music, "unavailable", FALSE)
               ELSE IF Padded(job, music.count) > music.count * job.longest
               THEN MusicFailing(music, "too long", TRUE)
               ELSE [music EXCEPT !.at = "submitting"])
    /\ UNCHANGED take

Submit ==
    /\ music.at = "submitting"
    /\ \/ MusicTo([music EXCEPT !.at = "polling"])
       \/ MusicTo(MusicFailing(music, "unavailable", FALSE))
       \/ MusicTo(MusicFailing(music, "generation", TRUE))
    /\ UNCHANGED take

\* The service has audio, has failed, is lost, or has had its time.
PollEnds ==
    /\ music.at = "polling"
    /\ \/ MusicTo([music EXCEPT !.at = "fetching"])
       \/ MusicTo(MusicFailing(music, "generation", TRUE))
    /\ UNCHANGED take

\* Every take is written to the same file.  One that is byte for byte an earlier
\* one fails the job; one of the wrong length is not noticed yet.
Fetch ==
    /\ music.at = "fetching"
    /\ \/ /\ \E whole \in {Padded(music.job, music.count), Padded(music.job, music.count) \div 2} :
               take' = [section |-> music.section, whole |-> whole]
          /\ MusicTo(IF music.section < music.count
                     THEN [music EXCEPT !.at = "section", !.section = @ + 1]
                     ELSE [music EXCEPT !.at = "joining"])
       \/ /\ MusicTo(MusicFailing(music, IF music.section > 1 THEN "loop" ELSE "generation", TRUE))
          /\ UNCHANGED take

\* Crossfaded, levelled, and measured against the length that was asked for.
Join ==
    /\ music.at = "joining"
    /\ LET joined == Joined(music.job, music.count, take.whole)
           good   == Within(Drift(joined, Total(music.job)), Total(music.job), 200)
       IN  \/ MusicTo(IF good THEN [music EXCEPT !.at = "delivered"]
                      ELSE MusicFailing(music, "length", TRUE))
           \/ MusicTo(MusicFailing(music, "assembly", TRUE))
    /\ UNCHANGED take

\* cancellable: a call of the service or of the media tools is abandoned at once.
MusicStops ==
    /\ music.at \in {"submitting", "polling", "fetching", "joining"} /\ music.cancelled
    /\ MusicTo([music EXCEPT !.at = "cancelled"])
    /\ UNCHANGED take

\* The lease is lost, the user cancels, or the job's time is up.
MusicCancel ==
    /\ music.at \notin MusicOver \cup {"idle"} /\ ~music.cancelled
    /\ MusicTo([music EXCEPT !.cancelled = TRUE])
    /\ UNCHANGED take

\* The runner cancels the task itself, at whatever it awaits.
MusicAborted ==
    /\ music.at \in {"planning", "writing", "section", "submitting", "polling", "fetching", "joining"}
    /\ MusicTo([music EXCEPT !.at = "cancelled"])
    /\ UNCHANGED take

MusicStep ==
    \/ PlanSong \/ SkipWriter \/ HostedAnswers \/ HostedFails \/ LocalWrites \/ NobodyWrites
    \/ PlanTakes \/ StartTake \/ Submit \/ PollEnds \/ Fetch \/ Join \/ MusicStops

MusicNext == MusicStep \/ MusicCancel \/ MusicAborted

-----------------------------------------------------------------------------
(***************************************************************************)
(* Properties.                                                             *)
(***************************************************************************)
MusicTypeOK ==
    /\ music.at \in MusicOver \cup {"idle", "planning", "writing", "sections", "section",
                                    "submitting", "polling", "fetching", "joining"}
    /\ music.job \in MusicJobs /\ music.tries \in 1..HostedTries /\ music.round \in 1..2
    /\ music.words = "written" => music.best # <<>>
    /\ take.section \in 0..music.count

Rendering == music.at \in {"section", "submitting", "polling", "fetching", "joining", "delivered"}

\* A song is an instrumental only for somebody who asked for one, in a field, in
\* the prompt or by a genre nobody sings, or where writing is switched off; the
\* customer's words are sung as they are; and words that were written do not read
\* as another language than the song's, whichever writer the chain ended at
\* (music.py:331, fallback.py:148, cerebras.py:349).
SungAsAsked ==
    Rendering =>
        LET job == music.job IN
        /\ music.words = "supplied" <=> job.supplied
        /\ music.words = "none" =>
             job.instrumental \/ job.writers = <<>>
             \/ (job.vocals # "asked" /\ (job.vocals = "refused" \/ job.genre \in Wordless))
        /\ music.words = "written" =>
             LET best == music.best[1] IN
             ~best.wrong /\ (best.author = "template" => Language(job) = "en")

\* Of the drafts of a song the best is sung: an acceptable one is never lost to one
\* that scored higher with something wrong in it, and what the local writer makes of
\* a prompt with no more than two details beside its subject is acceptable, at every
\* length and in every genre (lyrics.py:838, 879, writer.py:358).
AcceptableIsShipped ==
    music.at = "sections" /\ music.words = "written"
        /\ (music.fit \/ ("template" \in music.asked /\ FewDetails(music.job)))
            => Acceptable(music.best[1].review)

\* A song that needs several takes is planned in as few as the service's ceiling
\* allows, none beyond it, and is as long as was asked for once its crossfades have
\* consumed their share (music.py:508).
SongIsWhole ==
    music.at = "section" =>
        LET job == music.job
            n   == music.count
        IN  /\ Padded(job, n) <= n * Longest(job)
            /\ n > 1 => Padded(job, n - 1) > (n - 1) * Longest(job)
            /\ Within(Drift(Joined(job, n, Padded(job, n)), Total(job)), Total(job), 200)

\* A cancelled song ends, although its words are written to the end first.
MusicCancelledEnds == music.cancelled ~> music.at \in MusicOver

=============================================================================
