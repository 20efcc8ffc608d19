------------------------------ MODULE MCAdapters -------------------------------
(* The adapters with small plans, a handful of videos and all songs. *)
EXTENDS Adapters

MCQuote == <<1, 2, 3>>

Said(start, end, speaker, line, exits) ==
    [start |-> start, end |-> end, speaker |-> speaker, line |-> line, exits |-> exits,
     within |-> FALSE]
Inside(event) == [event EXCEPT !.within = TRUE]  \* no word of the quotation, its characters
Draft(timeline) ==
    [cast |-> {"a", "b"}, malformed |-> FALSE, claims |-> {"stated", "invented", "count"},
     timeline |-> timeline]

MCDrafts == {
    Draft(<<Said(0, 4, "a", <<1, 2, 3>>, {}), Said(4, 12, "b", <<4>>, {"b"}), Said(12, 20, "a", <<5>>, {})>>),
    Draft(<<Said(0, 8, "b", [n \in 1..15 |-> n + 5], {}), Said(8, 12, "a", <<1, 2>>, {}),
            Said(12, 20, "a", <<3>>, {"a"})>>),
    Draft(<<Said(0, 4, "a", <<1, 2, 3>>, {"a"}), Said(4, 12, "a", <<4>>, {}), Said(12, 20, "b", <<5>>, {})>>),
    Draft(<<Said(0, 13, "b", <<1, 2, 3>>, {"b"}), Said(13, 22, "a", <<4>>, {"a"})>>),
    Draft(<<Said(0, 8, "b", [n \in 1..15 |-> n + 5], {}), Said(8, 20, "a", <<1, 2, 3, 4>>, {})>>),
    Draft(<<Said(0, 4, "a", <<1, 2, 3>>, {})>>),
    Draft(<<Inside(Said(0, 8, "a", [n \in 1..8 |-> n + 3], {})), Said(8, 14, "b", <<12>>, {"b"}),
            Said(14, 20, "a", <<13>>, {})>>),
    Draft(<<Inside(Said(0, 8, "a", [n \in 1..15 |-> n + 5], {})), Said(8, 20, "b", <<4>>, {"b"})>>),
    Draft(<<Said(0, 4, "a", <<4>>, {})>>) }

\* Videos: ten seconds are what Director plans here; the odd lengths of restyles
\* and music videos are those of uploaded files.
Video(kind, ticks, grid) ==
    [kind |-> kind, total |-> ticks, grid |-> grid, fps |-> 24, max |-> 60, source |-> 0,
     option |-> FALSE, still |-> FALSE, directed |-> FALSE, onsets |-> {}, story |-> <<>>]
Story == <<<<0, 5 * Second>>, <<>>, <<5 * Second, 8 * Second>>>>

MCVideoJobs ==
    {[Video("generation", t * Second, "wide") EXCEPT !.still = s, !.max = 30] :
        t \in {10, 60}, s \in BOOLEAN}
    \cup {[Video("generation", 10 * Second, IF o THEN "square" ELSE "wide") EXCEPT
              !.option = o, !.still = TRUE, !.directed = TRUE] : o \in BOOLEAN}
    \cup {[Video("extension", t * Second, IF t = 10 THEN "half" ELSE "other") EXCEPT
              !.still = TRUE, !.source = 30 * Second, !.fps = 30, !.directed = (t = 10)] :
        t \in {10, 30}}
    \cup {[Video(k, t, IF t = 3594 THEN "wide" ELSE "other") EXCEPT
              !.fps = IF t = 3594 THEN 25 ELSE 30] :
        k \in {"restyle", "transform"}, t \in {3594, 5286}}
    \cup {[Video("music", t, "wide") EXCEPT !.option = (t = 14406), !.onsets = x, !.story = Story] :
        t \in {14406, 14426}, x \in {{}, {3000 * i : i \in 1..20}, {1900 * i : i \in 1..20}}}

\* Songs: every genre and length from the local writer, every chain of writers in
\* a language of each sort, and songs of one to five takes.
Song == [seconds |-> 60, ceiling |-> 0, longest |-> 60000, fade |-> 150, genre |-> "pop",
         vocals |-> "unsaid", keep |-> <<"name", "place">>, titled |-> {"name"},
         supplied |-> FALSE, instrumental |-> FALSE, language |-> "any",
         writers |-> <<"cerebras", "template">>, key |-> TRUE, service |-> "up"]

MCMusicJobs ==
    {[Song EXCEPT !.seconds = t, !.genre = g, !.writers = <<"template">>, !.key = FALSE, !.keep = k,
                  !.vocals = IF g = "ambient" THEN "asked" ELSE "unsaid"] :
        t \in {60, 120, 180, 240, 300},
        g \in {"pop", "rock", "ballad", "folk", "hip-hop", "electronic", "ambient"},
        k \in {<<"name">>, <<"name", "place", "number">>}}
    \cup {[Song EXCEPT !.genre = "ambient"]}
    \cup {[Song EXCEPT !.language = l, !.writers = w, !.key = k] :
        l \in {"any", "es", "ja", "unknown"}, k \in BOOLEAN,
        w \in {<<"cerebras", "template">>, <<"template", "cerebras">>, <<"cerebras">>, <<>>}}
    \cup {[Song EXCEPT !.supplied = s, !.instrumental = i, !.vocals = v] :
        s \in BOOLEAN, i \in BOOLEAN, v \in {"refused", "unsaid"}}
    \cup {[Song EXCEPT !.seconds = t, !.ceiling = c, !.longest = x, !.fade = f, !.writers = <<>>, !.service = s] :
        t \in {60, 240}, c \in {0, 6000}, x \in {2000, 6000, 6100}, f \in {0, 150}, s \in {"up", "none"}}

\* Answers of the hosted writer: with half of its lines rhyming, without the
\* details, with two refrains and echoes, too long, without a line; and in English
\* whatever was asked for.
W(n, sound, keeps) == Line(<<"line", n, 0>>, sound, keeps)
Both == {"name", "place"}
Sheets == {
    <<Block("verse", <<W(1, 1, Both), W(2, 1, {}), W(3, 0, {}), W(4, 0, {})>>),
      Block("pre-chorus", <<W(5, 2, {}), W(6, 2, {})>>), Block("chorus", <<W(7, 0, {}), W(8, 0, {})>>)>>,
    <<Block("verse", <<W(1, 1, {}), W(2, 1, {})>>), Block("chorus", <<W(7, 2, {}), W(8, 2, {})>>)>>,
    <<Block("verse", <<W(1, 1, Both), W(1, 1, {}), W(2, 1, {})>>), Block("chorus", <<W(7, 2, {}), W(8, 2, {})>>),
      Block("bridge", <<>>), Block("chorus", <<W(7, 2, {}), W(9, 2, {}), W(8, 2, {})>>)>>,
    <<Block("verse", [n \in 1..9 |-> W(n, 1, Both)]), Block("chorus", <<W(20, 3, {}), W(21, 3, {})>>),
      Block("bridge", <<W(22, 0, {})>>)>>,
    <<Block("verse", <<>>)>> }

Reads == [body |-> TRUE, native |-> TRUE, foreign |-> FALSE, tokens |-> 40, mine |-> 20, rival |-> 2]

MCHostedSheets ==
    {[sheet |-> s, reads |-> Reads] : s \in Sheets}
    \cup {[sheet |-> <<Block("chorus", <<W(7, 2, Both), W(8, 2, {})>>)>>,
           reads |-> [Reads EXCEPT !.native = FALSE, !.mine = 3, !.rival = 20]]}

\* What the proofs ask of crossfades and takes holds of these songs.
ASSUME MCSongsAreJoinable == \A job \in MCMusicJobs : Joinable(job)

\* And the local writer's sheets are worth singing, in every genre and length.
ASSUME MCLocalSheetsFit == \A job \in SungJobs : LocalFits(job)

=============================================================================
